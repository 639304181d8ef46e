--------------------------- MODULE SyncClientProofs ---------------------------
(***************************************************************************)
(* What SyncClient keeps for every number of users, entities, operations,   *)
(* batches and failures: types, the retry timer, the queue, and that the    *)
(* device comes to show what the server has.                                *)
(***************************************************************************)
EXTENDS SyncClient, FiniteSetTheorems, TLAPS

\* Only operations that were made are queued, sent or answered.
Made(ops) == \A o \in ops : made[o] \in Entity

OnlyMade ==
    /\ Made(pending) /\ Made(eng.batch) /\ Made(eng.todo)
    /\ \A r \in eng.results : made[r.op] \in Entity
    /\ \A w \in wire : Made(w.todo)
    /\ \A o \in Op : srv.log[o] # None => srv.log[o].verdict.op = o

\* A flush of the controller is a flush of the engine, which waits for the last
\* recount once it has ended.
OneFlush ==
    /\ ctl.flushing <=> eng.pc # "idle"
    /\ asked["flush"].on => eng.pc = "ended"
    /\ eng.pc \in {"wait", "apply", "delta", "mark"} => eng.sender \in User
    /\ eng.pc \notin {"idle", "ended"} => eng.user \in User
    /\ eng.todo # {} => eng.pc = "wait"

\* An operation leaves the server's hands with a verdict.
Answering ==
    /\ eng.pc = "wait"  => \A o \in eng.batch : o \in eng.todo \/ srv.log[o] # None
    /\ eng.pc = "apply" => \A o \in eng.batch : srv.log[o] # None

IInv == TypeOK /\ OnlyMade /\ OneFlush /\ TimerOnlyWhenUseful /\ Answering /\ NoLostWrite

USE ConstantsAssumption

----------------------------------------------------------------------------
(* The controller *)

\* A state of the controller in which the timer is of use.
Useful(c) == c.timer # 0 => c.online /\ session # None /\ ~c.flushing

\* _publishStatus changes only the banner.
LEMMA PublishOK ==
    ASSUME NEW c \in CtlType
    PROVE  /\ Publish(c) \in CtlType
           /\ Publish(c).flushing = c.flushing
           /\ Publish(c).timer = c.timer
           /\ Publish(c).online = c.online
  BY DEF Publish, Status, CtlType

\* _resetBackoff leaves no timer.
LEMMA ResetOK ==
    ASSUME NEW c \in CtlType
    PROVE  /\ ResetBackoff(c) \in CtlType
           /\ ResetBackoff(c).flushing = c.flushing
           /\ ResetBackoff(c).timer = 0
           /\ ResetBackoff(c).online = c.online
  <1>1. 1 \in Delay
    BY DEF Delay
  <1> QED BY <1>1 DEF ResetBackoff, CtlType

\* _cancelRetryTimer leaves no timer.
LEMMA CancelOK ==
    ASSUME NEW c \in CtlType
    PROVE  /\ CancelTimer(c) \in CtlType
           /\ CancelTimer(c).flushing = c.flushing
           /\ CancelTimer(c).timer = 0
           /\ CancelTimer(c).online = c.online
  BY DEF CancelTimer, CtlType

\* _flush starts only with a session, keeps a flush in flight and leaves a timer
\* only where there was one.
LEMMA FlushOK ==
    ASSUME NEW c \in CtlType, Useful(c)
    PROVE  /\ Flush(c) \in CtlType
           /\ Useful(Flush(c))
           /\ c.flushing => Flush(c).flushing
           /\ Flush(c).flushing /\ ~c.flushing => session # None
  <1> DEFINE started == [CancelTimer(c) EXCEPT !.flushing = TRUE, !.needs = FALSE]
  <1>1. started \in CtlType /\ started.flushing /\ started.timer = 0
    BY CancelOK DEF CtlType
  <1>2. [c EXCEPT !.needs = TRUE] \in CtlType /\ Useful([c EXCEPT !.needs = TRUE])
        /\ [c EXCEPT !.needs = TRUE].flushing = c.flushing
    BY DEF CtlType, Useful
  <1>3. CASE session = None
    BY <1>3 DEF Flush
  <1>4. CASE session # None /\ ~c.online
    <2>1. Flush(c) = Publish(ResetBackoff(c))
      BY <1>4 DEF Flush
    <2> QED BY <2>1, ResetOK, PublishOK DEF Useful
  <1>5. CASE session # None /\ c.online /\ c.flushing
    BY <1>5, <1>2 DEF Flush
  <1>6. CASE session # None /\ c.online /\ ~c.flushing
    <2>1. Flush(c) = Publish(started)
      BY <1>6 DEF Flush
    <2> HIDE DEF started
    <2> QED BY <2>1, <1>1, <1>6, PublishOK DEF Useful
  <1> QED BY <1>3, <1>4, <1>5, <1>6 DEF CtlType

\* _scheduleRetry sets a timer only with radio and a session, whatever it is told.
LEMMA ScheduleRetryOK ==
    ASSUME NEW c \in CtlType, NEW capOnly \in BOOLEAN
    PROVE  LET d == ScheduleRetry(c, capOnly) IN
           /\ d \in CtlType
           /\ d.timer # 0 => d.online /\ session # None
  <1> DEFINE d == CancelTimer(c)
             wait == IF capOnly THEN 3 ELSE d.step
             set == [d EXCEPT !.timer = wait, !.step = IF wait < 3 THEN wait + 1 ELSE 3]
  <1>1. d \in CtlType /\ d.timer = 0
    BY CancelOK
  <1>2. wait \in Delay
    BY <1>1 DEF CtlType, Delay
  <1>3. CASE \/ ~d.online \/ session = None
             \/ (d.count = 0 /\ ~d.failed)
    <2>1. ScheduleRetry(c, capOnly) = Publish(d)
      BY <1>3 DEF ScheduleRetry
    <2> HIDE DEF d
    <2> QED BY <2>1, <1>1, PublishOK
  <1>4. CASE ~(\/ ~d.online \/ session = None
               \/ (d.count = 0 /\ ~d.failed))
    <2>1. ScheduleRetry(c, capOnly) = Publish(set)
      BY <1>4 DEF ScheduleRetry
    <2>2. (IF wait < 3 THEN wait + 1 ELSE 3) \in Delay
      <3> HIDE DEF wait
      <3> QED BY <1>2 DEF Delay
    <2>3. set \in CtlType /\ set.online
      <3> HIDE DEF d, wait
      <3> QED BY <1>1, <1>2, <1>4, <2>2 DEF CtlType
    <2> HIDE DEF set
    <2> QED BY <2>1, <2>3, <1>4, PublishOK
  <1> QED BY <1>3, <1>4

\* The end of _flush: no flush in flight, and a timer only where it is of use.
LEMMA FinishOK ==
    ASSUME NEW c \in CtlType, c.timer = 0, eng \in EngType
    PROVE  Finish(c) \in CtlType /\ ~Finish(c).flushing /\ Useful(Finish(c))
  <1> DEFINE ok == [c EXCEPT !.failed = FALSE, !.step = 1]
             Good(d) == d \in CtlType /\ (d.timer # 0 => d.online /\ session # None)
             Over(d) == Publish([d EXCEPT !.flushing = FALSE])
  <1>1. 1 \in Delay
    BY DEF Delay
  <1>2. Good(c) /\ Good(ok)
    BY <1>1 DEF CtlType
  <1>3. \A d : Good(d) => Over(d) \in CtlType /\ ~Over(d).flushing /\ Useful(Over(d))
    <2> SUFFICES ASSUME NEW d, Good(d)
                 PROVE Over(d) \in CtlType /\ ~Over(d).flushing /\ Useful(Over(d))
      OBVIOUS
    <2> DEFINE x == [d EXCEPT !.flushing = FALSE]
    <2>1. x \in CtlType /\ ~x.flushing /\ (x.timer # 0 => x.online /\ session # None)
      BY DEF CtlType
    <2> HIDE DEF x
    <2>2. Publish(x) \in CtlType /\ ~Publish(x).flushing /\ Useful(Publish(x))
      BY <2>1, PublishOK DEF Useful
    <2> QED BY <2>2 DEF x
  <1>4. Good(ScheduleRetry(ok, FALSE)) /\ Good(ScheduleRetry(c, FALSE))
        /\ Good(ScheduleRetry(c, TRUE))
    <2> HIDE DEF ok
    <2> QED BY <1>2, ScheduleRetryOK
  <1>5. \E d : Good(d) /\ Finish(c) = Over(d)
    <2> HIDE DEF Good
    <2>1. CASE eng.outcome = "ok" /\ c.needs /\ c.online
      BY <2>1, <1>2 DEF Finish
    <2>2. CASE eng.outcome = "ok" /\ ~(c.needs /\ c.online)
      <3>1. Finish(c) = Over(IF ok.online /\ ok.count > 0 THEN ScheduleRetry(ok, FALSE) ELSE ok)
        BY <2>2 DEF Finish
      <3> QED BY <3>1, <1>2, <1>4
    <2>3. CASE eng.outcome \in {"network", "throttled"}
      BY <2>3, <1>4 DEF Finish
    <2>4. CASE eng.outcome = "client"
      BY <2>4, <1>4 DEF Finish
    <2>5. CASE eng.outcome = "unauthorized"
      BY <2>5, <1>2 DEF Finish
    <2> QED BY <2>1, <2>2, <2>3, <2>4, <2>5 DEF EngType, Fault
  <1> HIDE DEF Good, Over
  <1> QED BY <1>3, <1>5

\* The engine starts, if at all, with a user and nothing in its hands.
LEMMA StartOK ==
    ASSUME session \in User
    PROVE  /\ StartEngine \in EngType /\ StartEngine.pc = "peek"
           /\ StartEngine.user \in User
           /\ StartEngine.batch = {} /\ StartEngine.todo = {} /\ StartEngine.results = {}
  <1>1. 0 \in 0..MaxRounds /\ 0 \in Nat
    OBVIOUS
  <1>2. [e \in Entity |-> 0] \in [Entity -> Write]
    BY DEF Write
  <1> QED BY <1>1, <1>2 DEF StartEngine, Off, EngType

LEMMA OffOK ==
    /\ Off \in EngType /\ Off.pc = "idle"
    /\ Off.batch = {} /\ Off.todo = {} /\ Off.results = {}
  <1>1. 0 \in 0..MaxRounds /\ 0 \in Nat
    OBVIOUS
  <1>2. [e \in Entity |-> 0] \in [Entity -> Write]
    BY DEF Write
  <1> QED BY <1>1, <1>2 DEF Off, EngType

\* A callback of the controller that touches nothing but the controller, and the
\* engine it may start.
LEMMA ControllerStep ==
    ASSUME IInv, NEW c \in CtlType, Useful(c),
           ctl.flushing => c.flushing,
           c.flushing /\ ~ctl.flushing => session # None,
           Became(c),
           UNCHANGED <<device, session, server, history>>,
           asked' \in [Waiter -> [on : BOOLEAN, who : User \cup {None}]],
           asked'["flush"] = asked["flush"],
           spent' \in [faults : 0..MaxFaults, moves : 0..MaxMoves, kills : 0..MaxKills]
    PROVE  IInv'
  <1> USE DEF IInv, device, server, history
  <1>1. CASE eng' = eng /\ gaveUp' = gaveUp /\ c.flushing = ctl.flushing
    <2>1. TypeOK'
      BY <1>1 DEF TypeOK, Became
    <2>2. OnlyMade' /\ Answering' /\ NoLostWrite'
      BY <1>1 DEF OnlyMade, Made, Answering, NoLostWrite
    <2>3. OneFlush' /\ TimerOnlyWhenUseful'
      BY <1>1 DEF OneFlush, TimerOnlyWhenUseful, Useful, Became
    <2> QED BY <2>1, <2>2, <2>3
  <1>2. CASE c.flushing /\ ~ctl.flushing
    <2>0. session \in User /\ eng' = StartEngine /\ gaveUp' = FALSE /\ ctl' = c
      BY <1>2 DEF Became, TypeOK
    <2>1. TypeOK'
      BY <2>0, StartOK DEF TypeOK
    <2>2. OnlyMade' /\ Answering' /\ NoLostWrite'
      BY <2>0, StartOK DEF OnlyMade, Made, Answering, NoLostWrite
    <2>3. OneFlush' /\ TimerOnlyWhenUseful'
      BY <1>2, <2>0, StartOK DEF OneFlush, TimerOnlyWhenUseful, Useful
    <2> QED BY <2>1, <2>2, <2>3
  <1>3. c.flushing \in BOOLEAN /\ ctl.flushing \in BOOLEAN
    BY DEF TypeOK, CtlType
  <1> QED BY <1>1, <1>2, <1>3 DEF Became

\* Calling _refreshPending and its answer keep everything but the count.
LEMMA CountOK ==
    ASSUME TypeOK
    PROVE  /\ \A w \in Waiter : /\ Recounted(w) \in CtlType
                                /\ Recounted(w).flushing = ctl.flushing
                                /\ Recounted(w).timer = ctl.timer
                                /\ Recounted(w).online = ctl.online
           /\ \A c \in CtlType : /\ Uncounted(c) \in CtlType
                                 /\ Uncounted(c).flushing = c.flushing
                                 /\ Uncounted(c).timer = c.timer
                                 /\ Uncounted(c).online = c.online
  <1>1. \A u : Cardinality(Queue(u)) \in Nat
    <2> SUFFICES ASSUME NEW u PROVE Cardinality(Queue(u)) \in Nat
      OBVIOUS
    <2>1. IsFiniteSet(Op)
      BY FS_Interval DEF Op
    <2>2. Queue(u) \subseteq Op
      BY DEF Queue, TypeOK
    <2> QED BY <2>1, <2>2, FS_Subset, FS_CardinalityType
  <1>2. \A n \in Nat : [ctl EXCEPT !.count = n] \in CtlType
    BY DEF TypeOK, CtlType
  <1>3. \A w \in Waiter : /\ Recounted(w) \in CtlType
                          /\ Recounted(w).flushing = ctl.flushing
                          /\ Recounted(w).timer = ctl.timer
                          /\ Recounted(w).online = ctl.online
    BY <1>1, <1>2 DEF Recounted, TypeOK, CtlType
  <1> QED BY <1>3 DEF Uncounted, CtlType

LEMMA WriteResumesKeeps == ASSUME IInv, WriteResumes PROVE IInv'
  <1> DEFINE c == Recounted("write")
             d == IF c.online THEN Flush(ResetBackoff(c)) ELSE Publish(c)
  <1>1. "write" \in Waiter /\ "flush" \in Waiter
    BY DEF Waiter
  <1>2. c \in CtlType /\ Useful(c) /\ c.flushing = ctl.flushing
    BY <1>1, CountOK DEF IInv, TimerOnlyWhenUseful, Useful
  <1>3. /\ d \in CtlType /\ Useful(d) /\ (ctl.flushing => d.flushing)
        /\ (d.flushing /\ ~ctl.flushing => session # None)
    <2> HIDE DEF c
    <2>1. ResetBackoff(c) \in CtlType /\ Useful(ResetBackoff(c))
          /\ ResetBackoff(c).flushing = c.flushing
      BY <1>2, ResetOK DEF Useful
    <2>2. CASE c.online
      BY <2>1, <2>2, <1>2, FlushOK
    <2>3. CASE ~c.online
      BY <2>3, <1>2, PublishOK DEF Useful
    <2> QED BY <2>2, <2>3
  <1>4. Became(d)
    BY DEF WriteResumes
  <1>5. /\ UNCHANGED <<device, session, server, history, spent>>
        /\ asked' = [asked EXCEPT !["write"] = Quiet]
    BY DEF WriteResumes, Resumes
  <1>6. asked' \in [Waiter -> [on : BOOLEAN, who : User \cup {None}]]
        /\ asked'["flush"] = asked["flush"]
    BY <1>1, <1>5 DEF IInv, TypeOK, Quiet
  <1>7. spent' \in [faults : 0..MaxFaults, moves : 0..MaxMoves, kills : 0..MaxKills]
    BY <1>5 DEF IInv, TypeOK
  <1> HIDE DEF d
  <1> QED BY <1>3, <1>4, <1>5, <1>6, <1>7, ControllerStep

LEMMA ReconcileResumesKeeps == ASSUME IInv, ReconcileResumes PROVE IInv'
  <1> DEFINE c == Recounted("reconcile")
             d == IF c.online THEN Flush(c) ELSE Publish(ResetBackoff(c))
  <1>1. "reconcile" \in Waiter /\ "flush" \in Waiter
    BY DEF Waiter
  <1>2. c \in CtlType /\ Useful(c) /\ c.flushing = ctl.flushing
    BY <1>1, CountOK DEF IInv, TimerOnlyWhenUseful, Useful
  <1>3. /\ d \in CtlType /\ Useful(d) /\ (ctl.flushing => d.flushing)
        /\ (d.flushing /\ ~ctl.flushing => session # None)
    <2> HIDE DEF c
    <2>1. ResetBackoff(c) \in CtlType /\ Useful(ResetBackoff(c))
          /\ ResetBackoff(c).flushing = c.flushing
      BY <1>2, ResetOK DEF Useful
    <2>2. CASE c.online
      BY <2>2, <1>2, FlushOK
    <2>3. CASE ~c.online
      BY <2>1, <2>3, <1>2, PublishOK DEF Useful
    <2> QED BY <2>2, <2>3
  <1>4. Became(d)
    BY DEF ReconcileResumes
  <1>5. /\ UNCHANGED <<device, session, server, history, spent>>
        /\ asked' = [asked EXCEPT !["reconcile"] = Quiet]
    BY DEF ReconcileResumes, Resumes
  <1>6. asked' \in [Waiter -> [on : BOOLEAN, who : User \cup {None}]]
        /\ asked'["flush"] = asked["flush"]
    BY <1>1, <1>5 DEF IInv, TypeOK, Quiet
  <1>7. spent' \in [faults : 0..MaxFaults, moves : 0..MaxMoves, kills : 0..MaxKills]
    BY <1>5 DEF IInv, TypeOK
  <1> HIDE DEF d
  <1> QED BY <1>3, <1>4, <1>5, <1>6, <1>7, ControllerStep

LEMMA RefreshResumesKeeps == ASSUME IInv, RefreshResumes PROVE IInv'
  <1> DEFINE c == Recounted("refresh")
             d == Publish(c)
  <1>1. "refresh" \in Waiter /\ "flush" \in Waiter
    BY DEF Waiter
  <1>2. c \in CtlType /\ Useful(c) /\ c.flushing = ctl.flushing
    BY <1>1, CountOK DEF IInv, TimerOnlyWhenUseful, Useful
  <1>3. d \in CtlType /\ Useful(d) /\ d.flushing = ctl.flushing
    <2> HIDE DEF c
    <2> QED BY <1>2, PublishOK DEF Useful
  <1>4. Became(d)
    BY DEF RefreshResumes
  <1>5. /\ UNCHANGED <<device, session, server, history, spent>>
        /\ asked' = [asked EXCEPT !["refresh"] = Quiet]
    BY DEF RefreshResumes, Resumes
  <1>6. asked' \in [Waiter -> [on : BOOLEAN, who : User \cup {None}]]
        /\ asked'["flush"] = asked["flush"]
    BY <1>1, <1>5 DEF IInv, TypeOK, Quiet
  <1>7. spent' \in [faults : 0..MaxFaults, moves : 0..MaxMoves, kills : 0..MaxKills]
    BY <1>5 DEF IInv, TypeOK
  <1> HIDE DEF d
  <1> QED BY <1>3, <1>4, <1>5, <1>6, <1>7, ControllerStep

\* A step of the controller that does not wait: the timer, the radio, the resume.
LEMMA DirectStep ==
    ASSUME IInv, NEW c \in CtlType, Useful(c), c.flushing = ctl.flushing,
           Became(Flush(c)) \/ Became(c),
           UNCHANGED <<device, session, asked, server, history>>,
           spent' \in [faults : 0..MaxFaults, moves : 0..MaxMoves, kills : 0..MaxKills]
    PROVE  IInv'
  <1>1. asked' \in [Waiter -> [on : BOOLEAN, who : User \cup {None}]]
        /\ asked'["flush"] = asked["flush"]
    BY DEF IInv, TypeOK
  <1>2. CASE Became(Flush(c))
    BY <1>1, <1>2, FlushOK, ControllerStep
  <1>3. CASE Became(c)
    BY <1>1, <1>3, ControllerStep
  <1> QED BY <1>2, <1>3

\* A bounded event of the environment keeps the bounds.
LEMMA MoveOK ==
    ASSUME IInv, Move
    PROVE  spent' \in [faults : 0..MaxFaults, moves : 0..MaxMoves, kills : 0..MaxKills]
  BY DEF Move, IInv, TypeOK

LEMMA TimerFiresKeeps == ASSUME IInv, TimerFires PROVE IInv'
  <1>1. CancelTimer(ctl) \in CtlType /\ Useful(CancelTimer(ctl))
        /\ CancelTimer(ctl).flushing = ctl.flushing
    BY CancelOK DEF IInv, TypeOK, Useful
  <1>2. spent' \in [faults : 0..MaxFaults, moves : 0..MaxMoves, kills : 0..MaxKills]
    BY DEF TimerFires, IInv, TypeOK
  <1> QED BY <1>1, <1>2, DirectStep DEF TimerFires

LEMMA ResumeKeeps == ASSUME IInv, Resume PROVE IInv'
  <1>1. ResetBackoff(ctl) \in CtlType /\ Useful(ResetBackoff(ctl))
        /\ ResetBackoff(ctl).flushing = ctl.flushing
    BY ResetOK DEF IInv, TypeOK, Useful
  <1> QED BY <1>1, MoveOK, DirectStep DEF Resume

LEMMA RadioDownKeeps == ASSUME IInv, RadioDown PROVE IInv'
  <1> DEFINE c == [ctl EXCEPT !.online = FALSE]
  <1>1. c \in CtlType /\ c.flushing = ctl.flushing
    BY DEF IInv, TypeOK, CtlType
  <1>2. Publish(ResetBackoff(c)) \in CtlType /\ Useful(Publish(ResetBackoff(c)))
        /\ Publish(ResetBackoff(c)).flushing = ctl.flushing
    <2> HIDE DEF c
    <2> QED BY <1>1, ResetOK, PublishOK DEF Useful
  <1> QED BY <1>2, MoveOK, DirectStep DEF RadioDown

LEMMA RadioUpKeeps == ASSUME IInv, RadioUp PROVE IInv'
  <1> DEFINE c == [ctl EXCEPT !.online = TRUE]
  <1>1. c \in CtlType /\ c.flushing = ctl.flushing
    BY DEF IInv, TypeOK, CtlType
  <1>2. ResetBackoff(c) \in CtlType /\ Useful(ResetBackoff(c))
        /\ ResetBackoff(c).flushing = ctl.flushing
    <2> HIDE DEF c
    <2> QED BY <1>1, ResetOK DEF Useful
  <1>3. spent' \in [faults : 0..MaxFaults, moves : 0..MaxMoves, kills : 0..MaxKills]
    BY DEF RadioUp, IInv, TypeOK
  <1> QED BY <1>2, <1>3, DirectStep DEF RadioUp

----------------------------------------------------------------------------
(* Writes, sessions and the death of the app *)

LEMMA AskOK ==
    ASSUME TypeOK, NEW w \in Waiter, NEW u \in User \cup {None}, asked' = Ask(w, u)
    PROVE  /\ asked' \in [Waiter -> [on : BOOLEAN, who : User \cup {None}]]
           /\ w # "flush" => asked'["flush"] = asked["flush"]
  BY DEF TypeOK, Ask, Waiter

LEMMA LocalWriteKeeps == ASSUME IInv, NEW e \in Entity, LocalWrite(e) PROVE IInv'
  <1> USE DEF IInv, LocalWrite, server
  <1>0. "write" \in Waiter /\ "write" # "flush" /\ session \in User \cup {None}
    BY DEF Waiter, TypeOK
  <1>1. NextOp \in Op /\ NextOp \in Write
    BY DEF Op, Write
  <1>2. TypeOK'
    <2>1. local' \in [Entity -> Write] /\ pending' \subseteq Op
          /\ made' \in [Op -> Entity \cup {None}] /\ by' \in [Op -> User \cup {None}]
      BY <1>1 DEF TypeOK
    <2> QED BY <2>1, <1>0, AskOK DEF TypeOK
  <1>3. \A o \in Op : made'[o] = IF o = NextOp THEN e ELSE made[o]
    BY DEF TypeOK
  <1>4. OnlyMade'
    <2>1. \A o \in Op : made[o] \in Entity => made'[o] \in Entity
      BY <1>3
    <2>2. Made(pending)' /\ Made(eng.batch)' /\ Made(eng.todo)'
      BY <1>1, <1>3, <2>1 DEF OnlyMade, Made, TypeOK, EngType
    <2>3. \A r \in eng.results : made'[r.op] \in Entity
      BY <2>1 DEF OnlyMade, TypeOK, EngType, Verdict
    <2>4. \A w \in wire : \A o \in w.todo : made'[o] \in Entity
      BY <2>1 DEF OnlyMade, Made, TypeOK
    <2> QED BY <2>2, <2>3, <2>4 DEF OnlyMade, Made
  <1>5. NoLostWrite'
    BY <1>3 DEF NoLostWrite
  <1>6. OneFlush' /\ TimerOnlyWhenUseful' /\ Answering'
    BY <1>0, AskOK DEF OneFlush, TimerOnlyWhenUseful, Answering
  <1> QED BY <1>2, <1>4, <1>5, <1>6

LEMMA RemoteWriteKeeps == ASSUME IInv, NEW e \in Entity, RemoteWrite(e) PROVE IInv'
  <1> USE DEF IInv, RemoteWrite, device
  <1> DEFINE n == NextOp
             v == [op |-> n, status |-> "applied", rec |-> n]
             x == [by |-> Owner[e], verdict |-> v]
  <1>1. n \in Op /\ n \in Write /\ Owner[e] \in User
    BY DEF Op, Write
  <1>2. x \in Logged /\ x # None
    <2> HIDE DEF n
    <2> QED BY <1>1 DEF Logged, Verdict
  <1> HIDE DEF x
  <1>3. \A o \in Op : made'[o] = IF o = n THEN e ELSE made[o]
    BY DEF TypeOK
  <1>4. \A o \in Op : srv'.log[o] = IF o = n THEN x ELSE srv.log[o]
    BY DEF TypeOK, SrvType, x
  <1>5. TypeOK'
    <2>1. made' \in [Op -> Entity \cup {None}] /\ by' \in [Op -> User \cup {None}]
      BY <1>1 DEF TypeOK
    <2>2. srv' \in SrvType
      <3>1. srv \in SrvType
        BY DEF TypeOK
      <3>2. /\ [srv.log EXCEPT ![n] = x] \in [Op -> Logged \cup {None}]
            /\ [srv.row EXCEPT ![e] = n] \in [Entity -> Write]
            /\ [srv.upd EXCEPT ![e] = srv.time + 1] \in [Entity -> Nat]
            /\ [srv.owner EXCEPT ![e] = Owner[e]] \in [Entity -> User \cup {None}]
            /\ srv.time + 1 \in Nat
        BY <3>1, <1>1, <1>2 DEF SrvType
      <3>3. srv' = [srv EXCEPT !.log = [srv.log EXCEPT ![n] = x],
                               !.row = [srv.row EXCEPT ![e] = n],
                               !.owner = [srv.owner EXCEPT ![e] = Owner[e]],
                               !.upd = [srv.upd EXCEPT ![e] = srv.time + 1],
                               !.time = srv.time + 1]
        BY DEF x
      <3> HIDE DEF n
      <3> QED BY <3>1, <3>2, <3>3 DEF SrvType
    <2> QED BY <2>1, <2>2 DEF TypeOK
  <1>6. OnlyMade'
    <2>1. \A o \in Op : made[o] \in Entity => made'[o] \in Entity
      BY <1>3
    <2>2. Made(pending)' /\ Made(eng.batch)' /\ Made(eng.todo)'
      BY <2>1 DEF OnlyMade, Made, TypeOK, EngType
    <2>3. \A r \in eng.results : made'[r.op] \in Entity
      BY <2>1 DEF OnlyMade, TypeOK, EngType, Verdict
    <2>4. \A w \in wire : \A o \in w.todo : made'[o] \in Entity
      BY <2>1 DEF OnlyMade, Made, TypeOK
    <2>5. \A o \in Op : srv'.log[o] # None => srv'.log[o].verdict.op = o
      BY <1>4 DEF OnlyMade, x
    <2> QED BY <2>2, <2>3, <2>4, <2>5 DEF OnlyMade, Made
  <1>7. NoLostWrite' /\ Answering'
    <2>1. \A o \in Op : srv.log[o] # None => srv'.log[o] # None
      BY <1>2, <1>4
    <2>2. srv'.log[n] # None
      BY <1>1, <1>2, <1>4
    <2>3. eng.batch \subseteq Op
      BY DEF TypeOK, EngType
    <2>4. NoLostWrite'
      BY <2>1, <2>2, <1>3 DEF NoLostWrite
    <2> QED BY <2>1, <2>3, <2>4 DEF Answering
  <1>8. OneFlush' /\ TimerOnlyWhenUseful'
    BY DEF OneFlush, TimerOnlyWhenUseful
  <1> QED BY <1>5, <1>6, <1>7, <1>8

LEMMA RadioStillUpKeeps == ASSUME IInv, RadioStillUp PROVE IInv'
  <1>1. Uncounted(ctl) \in CtlType /\ Uncounted(ctl).flushing = ctl.flushing
        /\ Uncounted(ctl).timer = ctl.timer /\ Uncounted(ctl).online = ctl.online
    BY CountOK DEF IInv, TypeOK
  <1>2. "refresh" \in Waiter /\ session \in User \cup {None}
    BY DEF Waiter, IInv, TypeOK
  <1>3. /\ asked' \in [Waiter -> [on : BOOLEAN, who : User \cup {None}]]
        /\ asked'["flush"] = asked["flush"]
    BY <1>2, AskOK DEF RadioStillUp, IInv
  <1> QED BY <1>1, <1>3, MoveOK
      DEF RadioStillUp, IInv, TypeOK, OnlyMade, Made, OneFlush, TimerOnlyWhenUseful,
          Answering, NoLostWrite, device, server, history

LEMMA LoginKeeps == ASSUME IInv, NEW u \in User, Login(u) PROVE IInv'
  <1>1. "reconcile" \in Waiter
    BY DEF Waiter
  <1>2. /\ asked' \in [Waiter -> [on : BOOLEAN, who : User \cup {None}]]
        /\ asked'["flush"] = asked["flush"]
    BY <1>1, AskOK DEF Login, IInv
  <1> QED BY <1>2
      DEF Login, IInv, TypeOK, OnlyMade, Made, OneFlush, TimerOnlyWhenUseful,
          Answering, NoLostWrite, device, server, history

LEMMA AuthNotifiesKeeps == ASSUME IInv, AuthNotifies PROVE IInv'
  <1>1. "reconcile" \in Waiter /\ session \in User \cup {None}
    BY DEF Waiter, IInv, TypeOK
  <1>2. /\ asked' \in [Waiter -> [on : BOOLEAN, who : User \cup {None}]]
        /\ asked'["flush"] = asked["flush"]
    BY <1>1, AskOK DEF AuthNotifies, IInv
  <1> QED BY <1>2, MoveOK
      DEF AuthNotifies, IInv, TypeOK, OnlyMade, Made, OneFlush, TimerOnlyWhenUseful,
          Answering, NoLostWrite, device, server, history

LEMMA LogoutKeeps == ASSUME IInv, Logout PROVE IInv'
  <1> DEFINE z == [ctl EXCEPT !.count = 0, !.failed = FALSE]
             c == ResetBackoff(z)
  <1>1. z \in CtlType /\ z.flushing = ctl.flushing
    BY DEF IInv, TypeOK, CtlType
  <1>2. c \in CtlType /\ c.flushing = ctl.flushing /\ c.timer = 0
    <2> HIDE DEF z
    <2> QED BY <1>1, ResetOK
  <1>3. ctl' = [c EXCEPT !.status = IF c.online THEN "synced" ELSE "offline"]
    BY DEF Logout
  <1>4. ctl' \in CtlType /\ ctl'.flushing = ctl.flushing /\ ctl'.timer = 0
    <2> HIDE DEF c
    <2> QED BY <1>2, <1>3 DEF CtlType
  <1> QED BY <1>4, MoveOK
      DEF Logout, IInv, TypeOK, OnlyMade, Made, OneFlush, TimerOnlyWhenUseful,
          Answering, NoLostWrite, device, server, history

\* A POST that is abandoned leaves its operations to the server.
LEMMA AbandonOK ==
    ASSUME IInv, Abandon
    PROVE  /\ \A w \in wire' : w \in [todo : SUBSET Op, sender : User]
           /\ \A w \in wire' : Made(w.todo)
  BY DEF Abandon, IInv, TypeOK, EngType, OnlyMade, OneFlush

LEMMA KillKeeps == ASSUME IInv, Kill PROVE IInv'
  <1>1. ctl' \in CtlType /\ ~ctl'.flushing /\ ctl'.timer = 0
    BY DEF Kill, StartCtl, IInv, TypeOK, CtlType, Delay
  <1>2. asked' \in [Waiter -> [on : BOOLEAN, who : User \cup {None}]] /\ ~asked'["flush"].on
    BY DEF Kill, IInv, TypeOK, Waiter, Quiet
  <1>3. eng' = Off
    BY DEF Kill
  <1>4. spent' \in [faults : 0..MaxFaults, moves : 0..MaxMoves, kills : 0..MaxKills]
    BY DEF Kill, IInv, TypeOK
  <1>5. TypeOK'
    BY <1>1, <1>2, <1>3, <1>4, OffOK, AbandonOK DEF Kill, IInv, TypeOK, device, history
  <1>6. OnlyMade'
    BY <1>3, OffOK, AbandonOK DEF Kill, IInv, OnlyMade, Made, device, history
  <1>7. OneFlush' /\ TimerOnlyWhenUseful' /\ Answering' /\ NoLostWrite'
    BY <1>1, <1>2, <1>3, OffOK
       DEF Kill, IInv, OneFlush, TimerOnlyWhenUseful, Answering, NoLostWrite, device, history
  <1> QED BY <1>5, <1>6, <1>7 DEF IInv

----------------------------------------------------------------------------
(* The engine *)

Outcome == {"ok"} \cup (Fault \ {"garbled"})

\* The end of a flush: the controller still counts it as in flight, and waits.
LEMMA EndOK ==
    ASSUME IInv, NEW outcome \in Outcome, End(outcome), ctl.flushing
    PROVE  /\ ctl' \in CtlType /\ ctl'.flushing /\ ctl'.timer = 0
           /\ asked' \in [Waiter -> [on : BOOLEAN, who : User \cup {None}]]
           /\ eng' \in EngType /\ eng'.pc = "ended" /\ gaveUp' \in BOOLEAN
           /\ eng'.batch = {} /\ eng'.todo = {} /\ eng'.results = {}
  <1> DEFINE c == [ctl EXCEPT !.failed = @ \/ outcome # "ok"]
  <1>1. ctl.timer = 0
    BY DEF IInv, TimerOnlyWhenUseful
  <1>2. c \in CtlType /\ c.flushing /\ c.timer = 0
    BY <1>1 DEF IInv, TypeOK, CtlType
  <1>3. ctl' = Uncounted(c)
    BY DEF End
  <1>4. ctl' \in CtlType /\ ctl'.flushing /\ ctl'.timer = 0
    <2> HIDE DEF c
    <2> QED BY <1>2, <1>3, CountOK DEF IInv
  <1>5. "flush" \in Waiter /\ session \in User \cup {None}
    BY DEF Waiter, IInv, TypeOK
  <1>6. asked' \in [Waiter -> [on : BOOLEAN, who : User \cup {None}]]
    BY <1>5, AskOK DEF End, IInv
  <1>7. eng' = [Off EXCEPT !.pc = "ended", !.outcome = outcome]
    BY DEF End
  <1>8. eng' \in EngType /\ eng'.pc = "ended"
        /\ eng'.batch = {} /\ eng'.todo = {} /\ eng'.results = {}
    BY <1>7, OffOK DEF EngType, Outcome
  <1> QED BY <1>4, <1>6, <1>8 DEF End, IInv, TypeOK

\* Ending a flush keeps the invariant when nothing else changes that it reads.
LEMMA EndKeeps ==
    ASSUME IInv, NEW outcome \in Outcome, End(outcome), ctl.flushing,
           pending' = pending, local' = local, since' \in [User -> Nat \cup {None}],
           seen' \in [User -> [first : Nat, last : Nat]], whose' \in [User -> User],
           UNCHANGED <<session, srv, made, by>>,
           \A w \in wire' : w \in [todo : SUBSET Op, sender : User] /\ Made(w.todo),
           spent' \in [faults : 0..MaxFaults, moves : 0..MaxMoves, kills : 0..MaxKills]
    PROVE  IInv'
  <1>1. TypeOK'
    BY EndOK DEF IInv, TypeOK
  <1>2. OnlyMade'
    BY EndOK DEF IInv, OnlyMade, Made
  <1>3. OneFlush' /\ TimerOnlyWhenUseful' /\ Answering' /\ NoLostWrite'
    BY EndOK DEF IInv, OneFlush, TimerOnlyWhenUseful, Answering, NoLostWrite
  <1> QED BY <1>1, <1>2, <1>3 DEF IInv

\* A step of the engine alone, between its first await and its last.
LEMMA EngineStep ==
    ASSUME IInv, eng.pc # "idle", ~asked["flush"].on,
           eng' \in EngType, eng'.pc \notin {"idle", "ended"},
           eng'.user = eng.user, eng.pc # "ended",
           eng'.pc \in {"wait", "apply", "delta", "mark"} => eng'.sender \in User,
           Made(eng'.batch), Made(eng'.todo), eng'.todo # {} => eng'.pc = "wait",
           \A r \in eng'.results : made[r.op] \in Entity,
           eng'.pc = "wait"  => \A o \in eng'.batch : o \in eng'.todo \/ srv.log[o] # None,
           eng'.pc = "apply" => \A o \in eng'.batch : srv.log[o] # None,
           local' \in [Entity -> Write], pending' \subseteq pending,
           \A o \in pending \ pending' : srv.log[o] # None,
           since' \in [User -> Nat \cup {None}],
           seen' \in [User -> [first : Nat, last : Nat]], whose' \in [User -> User],
           UNCHANGED <<ctl, asked, session, server, made, by, gaveUp, spent>>
    PROVE  IInv'
  <1>1. TypeOK'
    BY DEF IInv, TypeOK, server
  <1>2. OnlyMade'
    BY DEF IInv, OnlyMade, Made, server
  <1>3. OneFlush' /\ TimerOnlyWhenUseful'
    BY DEF IInv, OneFlush, TimerOnlyWhenUseful
  <1>4. Answering' /\ NoLostWrite'
    BY DEF IInv, Answering, NoLostWrite, server
  <1> QED BY <1>1, <1>2, <1>3, <1>4 DEF IInv

\* What InEngine says of the rest of the state.
LEMMA InEngineOK ==
    ASSUME IInv, NEW pc \in {"peek", "send", "wait", "apply", "delta", "mark"}, InEngine(pc)
    PROVE  /\ ctl.flushing /\ ~asked["flush"].on /\ eng.user \in User
           /\ eng.pc \notin {"idle", "ended"} /\ eng \in EngType
           /\ pc \in {"wait", "apply", "delta", "mark"} => eng.sender \in User
  BY DEF IInv, InEngine, OneFlush, TypeOK

LEMMA PeekKeeps == ASSUME IInv, Peek PROVE IInv'
  <1> USE DEF EngineOnly, server, device
  <1>1. ctl.flushing /\ ~asked["flush"].on /\ eng.user \in User
        /\ eng.pc \notin {"idle", "ended"} /\ eng \in EngType
    BY InEngineOK DEF Peek
  <1> DEFINE u == eng.user
             b == Batch(u)
             stop == \/ eng.rounds + 1 > MaxRounds
                     \/ b = {} /\ (since[u] = None \/ eng.pulled)
  <1>2. CASE stop
    <2>1. End("ok") /\ "ok" \in Outcome
      BY <1>2 DEF Peek, Outcome
    <2> QED BY <2>1, <1>1, EndKeeps DEF Peek, IInv, TypeOK, OnlyMade
  <1>3. CASE ~stop
    <2>1. /\ eng' = [eng EXCEPT !.pc = "send", !.rounds = @ + 1, !.batch = b, !.since = since[u]]
          /\ UNCHANGED <<ctl, asked, gaveUp>>
      BY <1>3 DEF Peek
    <2>2. b \subseteq pending /\ pending \subseteq Op
      BY DEF Batch, Queue, IInv, TypeOK
    <2>3. eng.rounds + 1 \in 0..MaxRounds /\ since[u] \in Nat \cup {None}
      BY <1>1, <1>3 DEF IInv, TypeOK, EngType
    <2>4. eng' \in EngType /\ eng'.pc = "send" /\ eng'.user = u /\ eng'.batch = b
          /\ eng'.todo = eng.todo /\ eng'.results = eng.results
      <3> HIDE DEF b, stop
      <3> QED BY <1>1, <2>1, <2>2, <2>3 DEF EngType
    <2>5. eng.todo = {}
      BY DEF Peek, InEngine, IInv, OneFlush
    <2>6. Made(b)
      BY <2>2 DEF IInv, OnlyMade, Made
    <2>7. Made(eng'.batch) /\ Made(eng'.todo) /\ \A r \in eng'.results : made[r.op] \in Entity
      <3> HIDE DEF b
      <3> QED BY <2>4, <2>5, <2>6 DEF IInv, OnlyMade, Made
    <2>8. /\ UNCHANGED <<session, server, made, by, spent, local, pending, since, seen, whose>>
      BY DEF Peek
    <2>9. /\ local' \in [Entity -> Write] /\ since' \in [User -> Nat \cup {None}]
          /\ seen' \in [User -> [first : Nat, last : Nat]] /\ whose' \in [User -> User]
      BY <2>8 DEF IInv, TypeOK
    <2> HIDE DEF b, stop
    <2> QED BY <1>1, <2>1, <2>4, <2>5, <2>7, <2>8, <2>9, EngineStep
  <1> QED BY <1>2, <1>3

LEMMA SendKeeps == ASSUME IInv, Send PROVE IInv'
  <1> USE DEF EngineOnly, server, device
  <1>1. ctl.flushing /\ ~asked["flush"].on /\ eng.user \in User
        /\ eng.pc \notin {"idle", "ended"} /\ eng \in EngType
    BY InEngineOK DEF Send
  <1>2. CASE session = None
    <2>1. End("unauthorized") /\ "unauthorized" \in Outcome
      BY <1>2 DEF Send, Outcome, Fault
    <2> QED BY <2>1, <1>1, EndKeeps DEF Send, IInv, TypeOK, OnlyMade
  <1>3. CASE session # None
    <2>1. /\ eng' = [eng EXCEPT !.pc = "wait", !.sender = session, !.todo = eng.batch,
                                !.at = srv.time, !.results = {}]
          /\ UNCHANGED <<ctl, asked, gaveUp>>
      BY <1>3 DEF Send
    <2>2. session \in User /\ srv.time \in Nat
      BY <1>3 DEF IInv, TypeOK, SrvType
    <2>3. eng' \in EngType /\ eng'.pc = "wait" /\ eng'.user = eng.user /\ eng'.sender = session
          /\ eng'.batch = eng.batch /\ eng'.todo = eng.batch /\ eng'.results = {}
      BY <1>1, <2>1, <2>2 DEF EngType
    <2>4. Made(eng.batch)
      BY DEF IInv, OnlyMade
    <2>5. UNCHANGED <<session, server, made, by, spent, local, pending, since, seen, whose>>
      BY DEF Send
    <2>6. /\ local' \in [Entity -> Write] /\ since' \in [User -> Nat \cup {None}]
          /\ seen' \in [User -> [first : Nat, last : Nat]] /\ whose' \in [User -> User]
      BY <2>5 DEF IInv, TypeOK
    <2> QED BY <1>1, <2>1, <2>2, <2>3, <2>4, <2>5, <2>6, EngineStep
  <1> QED BY <1>2, <1>3

\* The server's answer to an operation is a verdict about it; settling it logs
\* one and forgets none.
LEMMA SettleOK ==
    ASSUME IInv, NEW o \in Op, made[o] \in Entity, NEW u \in User, Settle(o, u)
    PROVE  /\ Answer(o, u) \in Verdict /\ Answer(o, u).op = o
           /\ srv' \in SrvType
           /\ \A p \in Op : srv.log[p] # None => srv'.log[p] # None
           /\ srv'.log[o] # None
           /\ \A p \in Op : srv'.log[p] # None => srv'.log[p].verdict.op = p
  <1> DEFINE e == made[o]
             v == Answer(o, u)
             x == [by |-> u, verdict |-> v]
             logged == [srv EXCEPT !.log[o] = x]
  <1>0. srv \in SrvType /\ e \in Entity /\ o \in Write
    BY DEF IInv, TypeOK, Op, Write
  <1>1. srv.row[e] \in Write /\ srv.log[o] \in Logged \cup {None}
        /\ 0 \in Write /\ srv.time + 1 \in Nat
    BY <1>0 DEF SrvType, Write
  <1>2. \A status \in {"applied", "conflict", "rejected"}, rec \in Write :
            [op |-> o, status |-> status, rec |-> rec] \in Verdict
    BY DEF Verdict
  <1>3. v \in Verdict /\ v.op = o
    BY <1>0, <1>1, <1>2 DEF Answer, Logged, IInv, OnlyMade
  <1> HIDE DEF v
  <1>4. x \in Logged /\ x # None /\ x.verdict.op = o
    BY <1>3 DEF Logged
  <1> HIDE DEF x
  <1>5. logged \in SrvType /\ \A p \in Op : logged.log[p] = IF p = o THEN x ELSE srv.log[p]
    BY <1>0, <1>4 DEF SrvType
  <1>6. CASE srv.log[o] # None
    BY <1>6, <1>0, <1>3 DEF Settle, IInv, OnlyMade, v
  <1>7. CASE srv.log[o] = None /\ srv' = logged
    BY <1>7, <1>3, <1>4, <1>5 DEF IInv, OnlyMade, v
  <1>8. CASE srv.log[o] = None /\ srv' # logged
    <2>1. srv' = [logged EXCEPT !.row[e] = o, !.owner[e] = u,
                                !.upd[e] = srv.time + 1, !.time = srv.time + 1]
      BY <1>8 DEF Settle, v, x
    <2> HIDE DEF logged
    <2>2. srv'.log = logged.log
      BY <2>1, <1>5 DEF SrvType
    <2>3. /\ [logged.row EXCEPT ![e] = o] \in [Entity -> Write]
          /\ [logged.upd EXCEPT ![e] = srv.time + 1] \in [Entity -> Nat]
          /\ [logged.owner EXCEPT ![e] = u] \in [Entity -> User \cup {None}]
      BY <1>0, <1>1, <1>5 DEF SrvType
    <2>4. srv' \in SrvType
      <3>1. srv' = [logged EXCEPT !.row = [logged.row EXCEPT ![e] = o],
                                  !.owner = [logged.owner EXCEPT ![e] = u],
                                  !.upd = [logged.upd EXCEPT ![e] = srv.time + 1],
                                  !.time = srv.time + 1]
        BY <2>1
      <3> HIDE DEF e
      <3> QED BY <3>1, <2>3, <1>1, <1>5 DEF SrvType
    <2> QED BY <2>2, <2>4, <1>3, <1>4, <1>5 DEF IInv, OnlyMade, v
  <1> QED BY <1>6, <1>7, <1>8

LEMMA ServeKeeps == ASSUME IInv, Serve PROVE IInv'
  <1>1. ctl.flushing /\ ~asked["flush"].on /\ eng.user \in User /\ eng.sender \in User
        /\ eng.pc = "wait" /\ eng \in EngType
    BY InEngineOK DEF Serve, InEngine
  <1>2. PICK o \in eng.todo :
          /\ Settle(o, eng.sender)
          /\ eng' = [eng EXCEPT !.todo = @ \ {o}, !.results = @ \cup {Answer(o, eng.sender)}]
    BY DEF Serve
  <1>3. o \in Op /\ made[o] \in Entity
    BY <1>1 DEF IInv, OnlyMade, Made, EngType
  <1>4. /\ Answer(o, eng.sender) \in Verdict /\ Answer(o, eng.sender).op = o
        /\ srv' \in SrvType
        /\ \A p \in Op : srv.log[p] # None => srv'.log[p] # None
        /\ srv'.log[o] # None
        /\ \A p \in Op : srv'.log[p] # None => srv'.log[p].verdict.op = p
    BY <1>1, <1>2, <1>3, SettleOK
  <1> DEFINE v == Answer(o, eng.sender)
  <1> HIDE DEF v
  <1>5. /\ eng' \in EngType /\ eng'.pc = "wait" /\ eng'.user = eng.user
        /\ eng'.sender = eng.sender /\ eng'.batch = eng.batch
        /\ eng'.todo = eng.todo \ {o} /\ eng'.results = eng.results \cup {v}
        /\ v.op = o
    BY <1>1, <1>2, <1>4 DEF EngType, v
  <1>6. TypeOK'
    BY <1>4, <1>5 DEF Serve, IInv, TypeOK, device, history
  <1>7. OnlyMade'
    BY <1>3, <1>4, <1>5 DEF Serve, IInv, OnlyMade, Made, device, history
  <1>8. OneFlush' /\ TimerOnlyWhenUseful'
    BY <1>1, <1>5 DEF Serve, IInv, OneFlush, TimerOnlyWhenUseful
  <1>9. Answering' /\ NoLostWrite'
    BY <1>1, <1>4, <1>5 DEF Serve, IInv, Answering, NoLostWrite, device, history, EngType
  <1> QED BY <1>6, <1>7, <1>8, <1>9 DEF IInv

LEMMA RespondKeeps == ASSUME IInv, Respond PROVE IInv'
  <1>1. ctl.flushing /\ ~asked["flush"].on /\ eng.user \in User /\ eng.sender \in User
        /\ eng.pc = "wait" /\ eng \in EngType /\ eng.todo = {}
    BY InEngineOK DEF Respond, InEngine
  <1>2. srv.time \in Nat /\ srv.row \in [Entity -> Write] /\ 0 \in Write
    BY DEF IInv, TypeOK, SrvType, Write
  <1> DEFINE d == [e \in Entity |->
              IF eng.since # None /\ srv.owner[e] = eng.sender /\ srv.upd[e] > eng.since
              THEN srv.row[e] ELSE 0]
  <1>3. d \in [Entity -> Write]
    BY <1>2
  <1>4. eng' = [eng EXCEPT !.pc = "apply", !.read = srv.time, !.delta = d]
    BY DEF Respond
  <1>5. /\ eng' \in EngType /\ eng'.pc = "apply" /\ eng'.user = eng.user
        /\ eng'.sender = eng.sender /\ eng'.batch = eng.batch
        /\ eng'.todo = eng.todo /\ eng'.results = eng.results
    <2> HIDE DEF d
    <2> QED BY <1>1, <1>2, <1>3, <1>4 DEF EngType
  <1>6. /\ local' \in [Entity -> Write] /\ since' \in [User -> Nat \cup {None}]
        /\ seen' \in [User -> [first : Nat, last : Nat]] /\ whose' \in [User -> User]
        /\ Made(eng.batch) /\ Made(eng.todo)
        /\ \A r \in eng.results : made[r.op] \in Entity
    BY DEF Respond, IInv, TypeOK, OnlyMade, device, history
  <1>7. \A o \in eng.batch : srv.log[o] # None
    BY <1>1 DEF IInv, Answering
  <1>8. /\ pending' = pending
        /\ UNCHANGED <<ctl, asked, session, server, made, by, gaveUp, spent>>
    BY DEF Respond, device, history
  <1> QED BY <1>1, <1>5, <1>6, <1>7, <1>8, EngineStep

LEMMA LateKeeps == ASSUME IInv, NEW w \in wire, Late(w) PROVE IInv'
  <1>1. w \in [todo : SUBSET Op, sender : User] /\ Made(w.todo)
    BY DEF IInv, TypeOK, OnlyMade
  <1>2. PICK o \in w.todo :
          /\ Settle(o, w.sender)
          /\ wire' = (wire \ {w}) \cup (IF w.todo = {o} THEN {}
                                        ELSE {[w EXCEPT !.todo = @ \ {o}]})
    BY DEF Late
  <1>3. o \in Op /\ made[o] \in Entity /\ w.sender \in User
    BY <1>1 DEF Made
  <1>4. /\ srv' \in SrvType
        /\ \A p \in Op : srv.log[p] # None => srv'.log[p] # None
        /\ \A p \in Op : srv'.log[p] # None => srv'.log[p].verdict.op = p
    BY <1>2, <1>3, SettleOK
  <1> DEFINE z == [w EXCEPT !.todo = @ \ {o}]
  <1>5. z \in [todo : SUBSET Op, sender : User] /\ z.todo \subseteq w.todo
    BY <1>1
  <1> HIDE DEF z
  <1>6. \A y \in wire' : y \in wire \/ y = z
    BY <1>2 DEF z
  <1>7. TypeOK'
    BY <1>4, <1>5, <1>6 DEF Late, IInv, TypeOK, device, history
  <1>8. OnlyMade'
    BY <1>1, <1>4, <1>5, <1>6 DEF Late, IInv, OnlyMade, Made, device, history
  <1>9. OneFlush' /\ TimerOnlyWhenUseful' /\ Answering' /\ NoLostWrite'
    <2>1. eng.batch \subseteq Op
      BY DEF IInv, TypeOK, EngType
    <2> QED BY <2>1, <1>4 DEF Late, IInv, OneFlush, TimerOnlyWhenUseful, Answering,
                              NoLostWrite, device, history
  <1> QED BY <1>7, <1>8, <1>9 DEF IInv

LEMMA FailKeeps == ASSUME IInv, NEW kind \in Faults, Fail(kind) PROVE IInv'
  <1>1. ctl.flushing /\ ~asked["flush"].on /\ eng.pc = "wait" /\ eng \in EngType
    BY InEngineOK DEF Fail, InEngine
  <1>2. spent' \in [faults : 0..MaxFaults, moves : 0..MaxMoves, kills : 0..MaxKills]
    BY DEF Fail, IInv, TypeOK
  <1>3. \A w \in wire' : w \in [todo : SUBSET Op, sender : User] /\ Made(w.todo)
    BY AbandonOK DEF Fail
  <1>4. CASE kind # "garbled"
    <2>1. kind \in Outcome /\ End(kind)
      BY <1>4 DEF Fail, Outcome
    <2>2. /\ pending' = pending /\ local' = local /\ since' \in [User -> Nat \cup {None}]
          /\ seen' \in [User -> [first : Nat, last : Nat]] /\ whose' \in [User -> User]
          /\ UNCHANGED <<session, srv, made, by>>
      BY DEF Fail, IInv, TypeOK, device, history
    <2> QED BY <1>1, <1>2, <1>3, <2>1, <2>2, EndKeeps
  <1>5. CASE kind = "garbled"
    <2> DEFINE c == [ctl EXCEPT !.flushing = FALSE]
    <2>1. eng' = Off /\ ctl' = Publish(c) /\ gaveUp' = TRUE /\ asked' = asked
      BY <1>5 DEF Fail
    <2>2. c \in CtlType /\ ~c.flushing /\ c.timer = 0
      BY <1>1 DEF IInv, TypeOK, CtlType, TimerOnlyWhenUseful
    <2>3. ctl' \in CtlType /\ ~ctl'.flushing /\ ctl'.timer = 0
      <3> HIDE DEF c
      <3> QED BY <2>1, <2>2, PublishOK
    <2>4. TypeOK'
      BY <1>2, <1>3, <2>1, <2>3, OffOK DEF Fail, IInv, TypeOK, device, history
    <2>5. OnlyMade'
      BY <1>3, <2>1, OffOK DEF Fail, IInv, OnlyMade, Made, device, history
    <2>6. OneFlush' /\ TimerOnlyWhenUseful' /\ Answering' /\ NoLostWrite'
      BY <1>1, <2>1, <2>3, OffOK
         DEF Fail, IInv, OneFlush, TimerOnlyWhenUseful, Answering, NoLostWrite, device, history
    <2> QED BY <2>4, <2>5, <2>6 DEF IInv
  <1> QED BY <1>4, <1>5

LEMMA ApplyResultKeeps == ASSUME IInv, ApplyResult PROVE IInv'
  <1>1. ctl.flushing /\ ~asked["flush"].on /\ eng.user \in User /\ eng.sender \in User
        /\ eng.pc = "apply" /\ eng \in EngType
    BY InEngineOK DEF ApplyResult, InEngine
  <1>2. PICK r \in eng.results :
          /\ local' = IF r.rec # 0 \/ r.status = "rejected"
                      THEN [local EXCEPT ![made[r.op]] = r.rec] ELSE local
          /\ eng' = [eng EXCEPT !.results = @ \ {r}]
    BY DEF ApplyResult
  <1>3. local' \in [Entity -> Write]
    BY <1>1, <1>2 DEF IInv, TypeOK, EngType, Verdict
  <1>4. /\ eng' \in EngType /\ eng'.pc = "apply" /\ eng'.user = eng.user
        /\ eng'.sender = eng.sender /\ eng'.batch = eng.batch
        /\ eng'.todo = eng.todo /\ eng'.results \subseteq eng.results
    BY <1>1, <1>2 DEF EngType
  <1>5. eng.todo = {} /\ Made(eng.batch) /\ \A q \in eng.results : made[q.op] \in Entity
    BY <1>1 DEF IInv, OneFlush, OnlyMade
  <1>6. \A o \in eng.batch : srv.log[o] # None
    BY <1>1 DEF IInv, Answering
  <1>7. /\ pending' = pending /\ since' \in [User -> Nat \cup {None}]
        /\ seen' \in [User -> [first : Nat, last : Nat]] /\ whose' \in [User -> User]
        /\ UNCHANGED <<ctl, asked, session, server, made, by, gaveUp, spent>>
    BY DEF ApplyResult, EngineOnly, IInv, TypeOK
  <1> QED BY <1>1, <1>3, <1>4, <1>5, <1>6, <1>7, EngineStep DEF Made

LEMMA RemovePendingKeeps == ASSUME IInv, RemovePending PROVE IInv'
  <1>1. ctl.flushing /\ ~asked["flush"].on /\ eng.user \in User /\ eng.sender \in User
        /\ eng.pc = "apply" /\ eng \in EngType
    BY InEngineOK DEF RemovePending, InEngine
  <1>2. /\ eng' \in EngType /\ eng'.pc = "delta" /\ eng'.user = eng.user
        /\ eng'.sender = eng.sender /\ eng'.batch = eng.batch
        /\ eng'.todo = eng.todo /\ eng'.results = eng.results
    BY <1>1 DEF RemovePending, EngType
  <1>3. eng.todo = {} /\ Made(eng.batch) /\ \A q \in eng.results : made[q.op] \in Entity
    BY <1>1 DEF IInv, OneFlush, OnlyMade
  <1>4. pending' = pending \ eng.batch /\ \A o \in eng.batch : srv.log[o] # None
    BY <1>1 DEF RemovePending, IInv, Answering
  <1>5. /\ local' \in [Entity -> Write] /\ since' \in [User -> Nat \cup {None}]
        /\ seen' \in [User -> [first : Nat, last : Nat]] /\ whose' \in [User -> User]
        /\ UNCHANGED <<ctl, asked, session, server, made, by, gaveUp, spent>>
    BY DEF RemovePending, EngineOnly, IInv, TypeOK
  <1> QED BY <1>1, <1>2, <1>3, <1>4, <1>5, EngineStep DEF Made

LEMMA ApplyDeltaKeeps == ASSUME IInv, ApplyDelta PROVE IInv'
  <1>1. ctl.flushing /\ ~asked["flush"].on /\ eng.user \in User /\ eng.sender \in User
        /\ eng.pc = "delta" /\ eng \in EngType
    BY InEngineOK DEF ApplyDelta, InEngine
  <1>2. /\ eng' \in EngType /\ eng'.pc = "mark" /\ eng'.user = eng.user
        /\ eng'.sender = eng.sender /\ eng'.batch = eng.batch
        /\ eng'.todo = eng.todo /\ eng'.results = eng.results
    BY <1>1 DEF ApplyDelta, EngType
  <1>3. eng.todo = {} /\ Made(eng.batch) /\ \A q \in eng.results : made[q.op] \in Entity
    BY <1>1 DEF IInv, OneFlush, OnlyMade
  <1>4. local' \in [Entity -> Write]
    BY <1>1 DEF ApplyDelta, IInv, TypeOK, EngType
  <1>5. /\ pending' = pending /\ since' \in [User -> Nat \cup {None}]
        /\ seen' \in [User -> [first : Nat, last : Nat]] /\ whose' \in [User -> User]
        /\ UNCHANGED <<ctl, asked, session, server, made, by, gaveUp, spent>>
    BY DEF ApplyDelta, EngineOnly, IInv, TypeOK
  <1> QED BY <1>1, <1>2, <1>3, <1>4, <1>5, EngineStep DEF Made

LEMMA MarkKeeps == ASSUME IInv, Mark PROVE IInv'
  <1>1. ctl.flushing /\ ~asked["flush"].on /\ eng.user \in User /\ eng.sender \in User
        /\ eng.pc = "mark" /\ eng \in EngType
    BY InEngineOK DEF Mark, InEngine
  <1>2. eng.at \in Nat /\ eng.read \in Nat
    BY <1>1 DEF EngType
  <1>3. /\ since' \in [User -> Nat \cup {None}] /\ whose' \in [User -> User]
        /\ seen' \in [User -> [first : Nat, last : Nat]]
    BY <1>1, <1>2 DEF Mark, IInv, TypeOK
  <1>4. /\ pending' = pending /\ local' = local
        /\ UNCHANGED <<session, server, made, by, spent>>
    BY DEF Mark, EngineOnly
  <1>5. CASE eng.batch = {}
    <2>1. End("ok") /\ "ok" \in Outcome
      BY <1>5 DEF Mark, Outcome
    <2>2. \A w \in wire' : w \in [todo : SUBSET Op, sender : User] /\ Made(w.todo)
      BY <1>4 DEF IInv, TypeOK, OnlyMade, server
    <2>3. spent' \in [faults : 0..MaxFaults, moves : 0..MaxMoves, kills : 0..MaxKills]
          /\ srv' = srv
      BY <1>4 DEF IInv, TypeOK, server
    <2> QED BY <1>1, <1>3, <1>4, <2>1, <2>2, <2>3, EndKeeps
  <1>6. CASE eng.batch # {}
    <2>1. eng' = [eng EXCEPT !.pc = "peek", !.pulled = TRUE] /\ UNCHANGED <<ctl, asked, gaveUp>>
      BY <1>6 DEF Mark
    <2>2. /\ eng' \in EngType /\ eng'.pc = "peek" /\ eng'.user = eng.user
          /\ eng'.batch = eng.batch /\ eng'.todo = eng.todo /\ eng'.results = eng.results
      BY <1>1, <2>1 DEF EngType
    <2>3. eng.todo = {} /\ Made(eng.batch) /\ \A q \in eng.results : made[q.op] \in Entity
      BY <1>1 DEF IInv, OneFlush, OnlyMade
    <2>4. local' \in [Entity -> Write]
      BY <1>4 DEF IInv, TypeOK
    <2> QED BY <1>1, <1>3, <1>4, <2>1, <2>2, <2>3, <2>4, EngineStep DEF Made
  <1> QED BY <1>5, <1>6

LEMMA FlushResumesKeeps == ASSUME IInv, FlushResumes PROVE IInv'
  <1> DEFINE c == Recounted("flush")
  <1>1. "flush" \in Waiter
    BY DEF Waiter
  <1>2. eng.pc = "ended" /\ ctl.flushing /\ ctl.timer = 0
    BY DEF FlushResumes, Resumes, IInv, OneFlush, TimerOnlyWhenUseful
  <1>3. c \in CtlType /\ c.flushing /\ c.timer = 0 /\ eng \in EngType
    BY <1>1, <1>2, CountOK DEF IInv, TypeOK
  <1>4. /\ asked' \in [Waiter -> [on : BOOLEAN, who : User \cup {None}]]
        /\ ~asked'["flush"].on
    BY <1>1 DEF FlushResumes, Resumes, IInv, TypeOK, Quiet
  <1>5. UNCHANGED <<device, session, server, history, spent>> /\ gaveUp' \in BOOLEAN
    BY DEF FlushResumes, Resumes
  <1>6. \/ /\ ctl' = [c EXCEPT !.needs = FALSE] /\ eng' = StartEngine /\ session \in User
        \/ ctl' = Finish(c) /\ eng' = Off
    BY DEF FlushResumes, IInv, TypeOK
  <1> HIDE DEF c
  <1>7. /\ ctl' \in CtlType /\ eng' \in EngType
        /\ ctl'.flushing <=> eng'.pc # "idle"
        /\ ctl'.timer # 0 => ctl'.online /\ session # None /\ ~ctl'.flushing
        /\ eng'.pc \in {"idle", "peek"} /\ (eng'.pc = "peek" => eng'.user \in User)
        /\ eng'.batch = {} /\ eng'.todo = {} /\ eng'.results = {}
    <2>1. CASE ctl' = [c EXCEPT !.needs = FALSE] /\ eng' = StartEngine /\ session \in User
      BY <2>1, <1>3, StartOK DEF CtlType
    <2>2. CASE ctl' = Finish(c) /\ eng' = Off
      BY <2>2, <1>3, FinishOK, OffOK DEF Useful
    <2> QED BY <1>6, <2>1, <2>2
  <1>8. TypeOK'
    BY <1>4, <1>5, <1>7 DEF IInv, TypeOK, device, server, history
  <1>9. OnlyMade'
    BY <1>5, <1>7 DEF IInv, OnlyMade, Made, device, server, history
  <1>10. OneFlush' /\ TimerOnlyWhenUseful'
    BY <1>4, <1>5, <1>7 DEF OneFlush, TimerOnlyWhenUseful
  <1>11. Answering' /\ NoLostWrite'
    BY <1>5, <1>7 DEF IInv, Answering, NoLostWrite, device, server, history
  <1> QED BY <1>8, <1>9, <1>10, <1>11 DEF IInv

----------------------------------------------------------------------------
(* The theorems *)

LEMMA InitIInv == Init => IInv
  <1> SUFFICES ASSUME Init PROVE IInv
    OBVIOUS
  <1> USE DEF Init
  <1>1. ctl \in CtlType /\ ~ctl.flushing /\ ctl.timer = 0
    BY DEF StartCtl, CtlType, Delay
  <1>2. 0 \in Write /\ 0 \in Nat /\ 1 \in Nat /\ 0 \in 0..MaxFaults /\ 0 \in 0..MaxMoves
        /\ 0 \in 0..MaxKills
    BY DEF Write
  <1>3. srv \in SrvType /\ \A o \in Op : srv.log[o] = None
    BY <1>2 DEF SrvType
  <1>4. asked \in [Waiter -> [on : BOOLEAN, who : User \cup {None}]] /\ ~asked["flush"].on
    BY DEF Quiet, Waiter
  <1>5. TypeOK
    BY <1>1, <1>2, <1>3, <1>4, OffOK DEF TypeOK
  <1>6. OnlyMade /\ OneFlush /\ TimerOnlyWhenUseful /\ Answering
    BY <1>1, <1>3, <1>4, OffOK DEF OnlyMade, Made, OneFlush, TimerOnlyWhenUseful, Answering
  <1>7. NoLostWrite
    BY DEF NoLostWrite
  <1> QED BY <1>5, <1>6, <1>7 DEF IInv

LEMMA StepIInv == IInv /\ [Next]_vars => IInv'
  <1> SUFFICES ASSUME IInv, [Next]_vars PROVE IInv'
    OBVIOUS
  <1>1. CASE Engine
    BY <1>1, PeekKeeps, SendKeeps, ApplyResultKeeps, RemovePendingKeeps, ApplyDeltaKeeps,
       MarkKeeps, FlushResumesKeeps DEF Engine
  <1>2. CASE App
    BY <1>2, WriteResumesKeeps, ReconcileResumesKeeps, RefreshResumesKeeps, TimerFiresKeeps
       DEF App
  <1>3. CASE Serve \/ Respond
    BY <1>3, ServeKeeps, RespondKeeps
  <1>4. CASE Environment
    <2>1. CASE \E e \in Entity : LocalWrite(e) \/ RemoteWrite(e)
      BY <2>1, LocalWriteKeeps, RemoteWriteKeeps
    <2>2. CASE Resume \/ RadioDown \/ RadioUp \/ RadioStillUp
      BY <2>2, ResumeKeeps, RadioDownKeeps, RadioUpKeeps, RadioStillUpKeeps
    <2>3. CASE (\E u \in User : Login(u)) \/ AuthNotifies \/ Logout \/ Kill
      BY <2>3, LoginKeeps, AuthNotifiesKeeps, LogoutKeeps, KillKeeps
    <2>4. CASE (\E kind \in Faults : Fail(kind)) \/ (\E w \in wire : Late(w))
      BY <2>4, FailKeeps, LateKeeps
    <2> QED BY <1>4, <2>1, <2>2, <2>3, <2>4 DEF Environment
  <1>5. CASE UNCHANGED vars
    BY <1>5 DEF vars, IInv, TypeOK, OnlyMade, Made, OneFlush, TimerOnlyWhenUseful,
                Answering, NoLostWrite
  <1> QED BY <1>1, <1>2, <1>3, <1>4, <1>5 DEF Next

\* The types of the device, the POST in flight and the server hold for every
\* number of users, entities, writes, failures and deaths of the app.
THEOREM ClientTypeCorrect == Spec => []TypeOK
  BY InitIInv, StepIInv, PTL DEF Spec, IInv

\* A write of the device is queued until the server has a verdict for it: sync
\* never drops one, however flushes, failures and deaths interleave.
THEOREM WritesAreKept == Spec => []NoLostWrite
  BY InitIInv, StepIInv, PTL DEF Spec, IInv

\* A retry timer of the controller always has a radio and a session to use, and
\* never runs beside a flush.
THEOREM TimersAreUseful == Spec => []TimerOnlyWhenUseful
  BY InitIInv, StepIInv, PTL DEF Spec, IInv

----------------------------------------------------------------------------
(* Convergence, when no flush goes on across a change of session *)

\* A POST leaves with the token of the user whose queue it carries.
OneSession == eng.pc \in {"wait", "apply", "delta", "mark"} => eng.sender = eng.user

\* Operations are numbered without gaps, each is its owner's, and so are the rows.
Numbered ==
    /\ \A o \in Op : made[o] # None <=> o < NextOp
    /\ \A o \in Op : made[o] # None => by[o] = Owner[made[o]]
    /\ \A o \in Op : srv.log[o] # None => made[o] # None /\ srv.log[o].by = by[o]
    /\ \A e \in Entity : srv.owner[e] # None => srv.owner[e] = Owner[e]
    /\ \A o \in eng.batch : by[o] = eng.user
    /\ \A r \in eng.results : r.op \in eng.batch
    /\ eng.pc = "wait" =>
          \A o \in eng.batch : o \in eng.todo \/ \E r \in eng.results : r.op = o
    /\ eng.todo \subseteq eng.batch
    /\ eng.pc \notin {"wait", "apply"} => eng.results = {}
    /\ \A w \in wire : \A o \in w.todo : by[o] = w.sender

\* The server may have, or come to have, a verdict of it that the device awaits.
OnItsWay(o) == srv.log[o] # None \/ \E w \in wire : o \in w.todo

\* The next batch of a user has all of these, and so has the one in flight.
Repeated ==
    /\ \A o \in pending : OnItsWay(o) => o \in Batch(by[o])
    /\ eng.pc \in {"send", "wait", "apply"} =>
          /\ eng.batch \subseteq Batch(eng.user)
          /\ \A o \in pending : (OnItsWay(o) /\ by[o] = eng.user) => o \in eng.batch
    /\ eng.pc \in {"delta", "mark"} =>
          \A o \in pending : OnItsWay(o) => by[o] # eng.user

\* Server times on the device: what was read, by whom, is in the past.
Clocked ==
    /\ \A e \in Entity : srv.upd[e] <= srv.time
    /\ \A e \in Entity : srv.upd[e] > 0 => srv.row[e] # 0 /\ srv.owner[e] # None
    /\ \A u \in User : seen[u].last <= srv.time
    /\ \A u \in User : since[u] # None =>
          seen[u].first <= since[u] /\ since[u] <= seen[u].last
    /\ \A u \in User : since[u] = None => seen[u].first = 0 /\ seen[u].last = 0
    /\ eng.pc \in {"send", "wait", "apply", "delta", "mark"} => eng.since = since[eng.user]
    /\ eng.pc \in {"wait", "apply", "delta", "mark"} =>
          eng.at <= srv.time /\ seen[eng.user].first <= eng.at
    /\ eng.pc \in {"apply", "delta", "mark"} =>
          /\ eng.at <= eng.read /\ eng.read <= srv.time
          /\ \A u \in User : seen[u].last <= eng.read

\* A verdict shows the row, unless the row has changed since the last pull.
Shows(v, e) ==
    /\ v.rec # 0
    /\ v.rec = srv.row[e] \/ seen[Owner[e]].last < srv.upd[e]

Verdicts ==
    /\ \A o \in pending : (srv.log[o] # None /\ srv.log[o].verdict.status # "rejected")
          => Shows(srv.log[o].verdict, made[o])
    /\ \A r \in eng.results : /\ srv.log[r.op] # None
                              /\ r.status = srv.log[r.op].verdict.status
                              /\ r.status # "rejected" => Shows(r, made[r.op])

\* An edit of the entity that is still queued, and one not in the batch in flight.
Dirty(e)  == \E o \in pending : made[o] = e
Edited(e) == \E o \in pending : made[o] = e /\ o \notin eng.batch

Read(e) == seen[Owner[e]].first < srv.upd[e] /\ srv.upd[e] <= seen[Owner[e]].last

\* What was pulled is on the device, or will be when the queue is empty.
Pulled == \A e \in Entity : (Accepted(e) /\ Read(e)) => local[e] = srv.row[e] \/ Dirty(e)

\* So it is once the results are applied, ...
ResultsTell ==
    eng.pc = "apply" =>
        \A e \in Entity :
            (Accepted(e) /\ Read(e) /\ \E o \in eng.batch : made[o] = e)
               => \/ local[e] = srv.row[e] \/ Edited(e)
                  \/ \E r \in eng.results : made[r.op] = e

\* ... and the delta has what changed since the mark,
DeltaTells ==
    eng.pc \in {"apply", "delta"} =>
        \A e \in Entity : srv.upd[e] <= eng.read =>
            /\ eng.delta[e] # 0 => eng.delta[e] = srv.row[e]
            /\ (Owner[e] = eng.user /\ eng.since # None /\ eng.since < srv.upd[e])
                  => eng.delta[e] = srv.row[e]

\* ... so that it may be marked as pulled.
MarkTells ==
    eng.pc = "mark" =>
        \A e \in Entity :
            (/\ Accepted(e) /\ Owner[e] = eng.user /\ eng.since # None
             /\ seen[eng.user].first < srv.upd[e] /\ srv.upd[e] <= eng.read)
               => local[e] = srv.row[e] \/ Dirty(e)

ConvInv ==
    /\ IInv /\ Numbered /\ Repeated /\ Clocked
    /\ Verdicts /\ Pulled /\ ResultsTell /\ DeltaTells /\ MarkTells

----------------------------------------------------------------------------
(* Steps that move no data *)

Resting(q) == q.pc \in {"idle", "peek", "ended"} /\ q.batch = {} /\ q.todo = {} /\ q.results = {}

\* The next batch depends on the queue alone.
LEMMA BatchKept ==
    ASSUME UNCHANGED <<pending, by>>, NEW u
    PROVE  Batch(u)' = Batch(u)
  BY DEF Batch, Queue

\* What an abandoned POST leaves on its way was in the batch.
LEMMA AbandonedIsRepeated ==
    ASSUME ConvInv, OneSession, Abandon, UNCHANGED <<srv, by>>, NEW o \in pending, OnItsWay(o)'
    PROVE  OnItsWay(o) \/ (o \in eng.batch /\ by[o] = eng.user /\ eng.pc = "wait")
  <1>1. CASE srv.log[o] # None
    BY <1>1 DEF OnItsWay
  <1>2. ASSUME NEW w \in wire', o \in w.todo PROVE OnItsWay(o) \/ o \in eng.todo
    <2>1. w \in wire \/ w.todo = eng.todo
      BY <1>2 DEF Abandon
    <2> QED BY <1>2, <2>1 DEF OnItsWay
  <1>3. o \in eng.todo => o \in eng.batch /\ by[o] = eng.user /\ eng.pc = "wait"
    BY DEF ConvInv, Numbered, IInv, OneFlush
  <1> QED BY <1>1, <1>2, <1>3 DEF OnItsWay

\* A step that leaves the data alone and the engine alone or at rest.
LEMMA CalmStep ==
    ASSUME ConvInv, IInv', UNCHANGED <<pending, local, since, srv, made, by, seen>>,
           \/ wire' = wire /\ (eng' = eng \/ Resting(eng'))
           \/ OneSession /\ Abandon /\ Resting(eng')
    PROVE  ConvInv'
  <1>1. \A w \in wire' : \A o \in w.todo : by[o] = w.sender
    <2>1. CASE wire' = wire
      BY <2>1 DEF ConvInv, Numbered
    <2>2. CASE OneSession /\ Abandon
      <3>1. \A o \in eng.todo : by[o] = eng.sender
        BY <2>2 DEF ConvInv, Numbered, IInv, OneFlush, OneSession
      <3>2. ASSUME NEW w \in wire' PROVE w \in wire \/ (w.todo = eng.todo /\ w.sender = eng.sender)
        BY <2>2 DEF Abandon
      <3> QED BY <3>1, <3>2 DEF ConvInv, Numbered
    <2> QED BY <2>1, <2>2
  <1>2. NextOp' = NextOp
    BY DEF NextOp
  <1>3. Numbered'
    BY <1>1, <1>2 DEF ConvInv, Numbered, Resting
  <1>4. \A o \in pending : OnItsWay(o)' => o \in Batch(by[o])
    <2> SUFFICES ASSUME NEW o \in pending, OnItsWay(o)' PROVE o \in Batch(by[o])
      OBVIOUS
    <2>1. CASE OnItsWay(o)
      BY <2>1 DEF ConvInv, Repeated
    <2>2. CASE wire' = wire
      BY <2>1, <2>2 DEF OnItsWay
    <2>3. CASE OneSession /\ Abandon
      BY <2>1, <2>3, AbandonedIsRepeated DEF ConvInv, Repeated
    <2> QED BY <2>2, <2>3
  <1>5. Repeated'
    <2>1. \A u : Batch(u)' = Batch(u)
      BY BatchKept
    <2>2. CASE eng' = eng /\ wire' = wire
      BY <1>4, <2>1, <2>2 DEF ConvInv, Repeated, OnItsWay
    <2>3. CASE Resting(eng')
      BY <1>4, <2>1, <2>3 DEF Repeated, Resting
    <2> QED BY <2>2, <2>3
  <1>6. Clocked' /\ Verdicts'
    BY DEF ConvInv, Clocked, Verdicts, Shows, Resting
  <1>7. Pulled' /\ ResultsTell' /\ DeltaTells' /\ MarkTells'
    BY DEF ConvInv, Pulled, ResultsTell, DeltaTells, MarkTells, Resting, Read, Dirty, Edited,
           Accepted
  <1> QED BY <1>3, <1>5, <1>6, <1>7 DEF ConvInv

\* A flush that ends leaves nothing in hand.
LEMMA EndRests ==
    ASSUME NEW outcome, End(outcome)
    PROVE  Resting(eng')
  BY OffOK DEF End, Resting, Off

\* A callback of the controller leaves the engine alone or starts it.
LEMMA BecameRests ==
    ASSUME NEW c, Became(c)
    PROVE  eng' = eng \/ Resting(eng')
  BY DEF Became, StartEngine, Off, Resting

\* The controller moves no data, whatever wakes it.
LEMMA CalmController ==
    ASSUME ConvInv, IInv', App \/ Resume \/ RadioDown \/ RadioUp \/ RadioStillUp
                           \/ (\E u \in User : Login(u)) \/ AuthNotifies \/ Logout
    PROVE  ConvInv'
  <1>1. UNCHANGED <<pending, local, since, srv, wire, made, by, seen>>
    BY DEF App, WriteResumes, ReconcileResumes, RefreshResumes, TimerFires, Resumes, Resume,
           RadioDown, RadioUp, RadioStillUp, Login, AuthNotifies, Logout, device, server, history
  <1>2. eng' = eng \/ Resting(eng')
    BY BecameRests
       DEF App, WriteResumes, ReconcileResumes, RefreshResumes, TimerFires, Resume,
           RadioDown, RadioUp, RadioStillUp, Login, AuthNotifies, Logout
  <1> QED BY <1>1, <1>2, CalmStep

\* Nor does the end of a flush, or the start of the next round.
LEMMA CalmFlush ==
    ASSUME ConvInv, IInv', FlushResumes
    PROVE  ConvInv'
  <1>1. UNCHANGED <<pending, local, since, srv, wire, made, by, seen>>
    BY DEF FlushResumes, Resumes, device, server, history
  <1>2. eng' = StartEngine \/ eng' = Off
    BY DEF FlushResumes
  <1>3. Resting(StartEngine) /\ Resting(Off)
    BY DEF StartEngine, Off, Resting
  <1>4. Resting(eng')
    BY <1>2, <1>3
  <1> QED BY <1>1, <1>4, CalmStep

\* Nor a death or a failed POST: what it abandons is still repeated.
LEMMA CalmFaults ==
    ASSUME ConvInv, IInv', OneSession, Kill \/ \E kind \in Faults : Fail(kind)
    PROVE  ConvInv'
  <1>1. UNCHANGED <<pending, local, since, srv, made, by, seen>> /\ Abandon
    BY DEF Kill, Fail, device, history
  <1>2. Resting(eng')
    BY EndRests, OffOK DEF Kill, Fail, Off, Resting
  <1> QED BY <1>1, <1>2, CalmStep

----------------------------------------------------------------------------
(* Steps of the engine that only read *)

\* The types the arithmetic needs.
LEMMA EngAt ==
    ASSUME ConvInv
    PROVE  eng \in EngType /\ srv \in SrvType /\ srv.time \in Nat
  BY DEF ConvInv, IInv, TypeOK, SrvType

\* The next batch has every operation the server may know of.
LEMMA ConvPeek ==
    ASSUME ConvInv, IInv', Peek
    PROVE  ConvInv'
  <1> DEFINE u == eng.user
             b == Batch(u)
             q == [eng EXCEPT !.pc = "send", !.rounds = @ + 1, !.batch = b, !.since = since[u]]
  <1>1. UNCHANGED <<pending, local, since, srv, wire, made, by, seen>> /\ eng.pc = "peek"
    BY DEF Peek, device, EngineOnly, server, InEngine
  <1>2. (\E outcome : End(outcome)) \/ eng' = q
    BY DEF Peek
  <1>3. CASE \E outcome : End(outcome)
    BY <1>1, <1>3, EndRests, CalmStep
  <1>4. CASE eng' = q
    <2>1. /\ eng'.pc = "send" /\ eng'.batch = b /\ eng'.since = since[u] /\ eng'.user = u
          /\ eng'.todo = eng.todo /\ eng'.results = eng.results
      BY <1>4, EngAt DEF EngType
    <2>2. eng.todo = {} /\ eng.results = {} /\ u \in User
      BY <1>1 DEF ConvInv, IInv, OneFlush, Numbered
    <2>3. \A v : Batch(v)' = Batch(v)
      BY <1>1, BatchKept
    <2>4. NextOp' = NextOp
      BY <1>1 DEF NextOp
    <2>5. b \subseteq pending /\ \A o \in b : by[o] = u
      BY DEF Batch, Queue
    <2> HIDE DEF b, q
    <2>6. Numbered'
      BY <1>1, <2>1, <2>2, <2>4, <2>5 DEF ConvInv, Numbered
    <2>7. \A o : OnItsWay(o)' = OnItsWay(o)
      BY <1>1 DEF OnItsWay
    <2>8. Repeated'
      BY <1>1, <2>1, <2>3, <2>7 DEF ConvInv, Repeated, b
    <2>9. Clocked' /\ Verdicts'
      BY <1>1, <2>1, <2>2 DEF ConvInv, Clocked, Verdicts, Shows
    <2>10. Pulled' /\ ResultsTell' /\ DeltaTells' /\ MarkTells'
      BY <1>1, <2>1 DEF ConvInv, Pulled, ResultsTell, DeltaTells, MarkTells, Read, Dirty, Accepted
    <2> QED BY <2>6, <2>8, <2>9, <2>10 DEF ConvInv
  <1> QED BY <1>2, <1>3, <1>4

\* The POST leaves with the batch and without answers.
LEMMA ConvSend ==
    ASSUME ConvInv, IInv', Send
    PROVE  ConvInv'
  <1> DEFINE q == [eng EXCEPT !.pc = "wait", !.sender = session, !.todo = eng.batch,
                              !.at = srv.time, !.results = {}]
  <1>1. UNCHANGED <<pending, local, since, srv, wire, made, by, seen>> /\ eng.pc = "send"
    BY DEF Send, device, EngineOnly, server, InEngine
  <1>2. (\E outcome : End(outcome)) \/ eng' = q
    BY DEF Send
  <1>3. CASE \E outcome : End(outcome)
    BY <1>1, <1>3, EndRests, CalmStep
  <1>4. CASE eng' = q
    <2>1. /\ eng'.pc = "wait" /\ eng'.batch = eng.batch /\ eng'.since = eng.since
          /\ eng'.user = eng.user /\ eng'.todo = eng.batch /\ eng'.results = {}
          /\ eng'.at = srv.time
      BY <1>4, EngAt DEF EngType
    <2> HIDE DEF q
    <2>2. eng.user \in User
      BY <1>1 DEF ConvInv, IInv, OneFlush
    <2>3. \A v : Batch(v)' = Batch(v)
      BY <1>1, BatchKept
    <2>4. NextOp' = NextOp
      BY <1>1 DEF NextOp
    <2>5. Numbered'
      BY <1>1, <2>1, <2>4 DEF ConvInv, Numbered
    <2>6. \A o : OnItsWay(o)' = OnItsWay(o)
      BY <1>1 DEF OnItsWay
    <2>7. Repeated'
      BY <1>1, <2>1, <2>3, <2>6 DEF ConvInv, Repeated
    <2>8. seen[eng.user].first <= srv.time
      <3>1. /\ seen[eng.user] \in [first : Nat, last : Nat]
            /\ since[eng.user] \in Nat \cup {None}
        BY <2>2 DEF ConvInv, IInv, TypeOK
      <3>2. CASE since[eng.user] # None
        BY <2>2, <3>1, <3>2, EngAt DEF ConvInv, Clocked
      <3>3. CASE since[eng.user] = None
        BY <2>2, <3>1, <3>3, EngAt DEF ConvInv, Clocked
      <3> QED BY <3>2, <3>3
    <2>9. Clocked'
      BY <1>1, <2>1, <2>8, EngAt DEF ConvInv, Clocked
    <2>10. Verdicts'
      BY <1>1, <2>1 DEF ConvInv, Verdicts, Shows
    <2>11. Pulled' /\ ResultsTell' /\ DeltaTells' /\ MarkTells'
      BY <1>1, <2>1 DEF ConvInv, Pulled, ResultsTell, DeltaTells, MarkTells, Read, Dirty, Accepted
    <2> QED BY <2>5, <2>7, <2>9, <2>10, <2>11 DEF ConvInv
  <1> QED BY <1>2, <1>3, <1>4

\* The answer leaves with the delta: every row of the user that changed since the mark.
LEMMA ConvRespond ==
    ASSUME ConvInv, IInv', OneSession, Respond
    PROVE  ConvInv'
  <1> DEFINE d == [e \in Entity |->
                     IF eng.since # None /\ srv.owner[e] = eng.sender /\ srv.upd[e] > eng.since
                     THEN srv.row[e] ELSE 0]
  <1>1. /\ UNCHANGED <<pending, local, since, srv, wire, made, by, seen>>
        /\ eng.pc = "wait" /\ eng.todo = {}
        /\ eng' = [eng EXCEPT !.pc = "apply", !.read = srv.time, !.delta = d]
    BY DEF Respond, device, server, history, InEngine
  <1>2. \A e \in Entity : d[e] = IF /\ eng.since # None /\ srv.owner[e] = eng.sender
                                    /\ srv.upd[e] > eng.since
                                 THEN srv.row[e] ELSE 0
    OBVIOUS
  <1> HIDE DEF d
  <1>3. /\ eng'.pc = "apply" /\ eng'.batch = eng.batch /\ eng'.since = eng.since
        /\ eng'.user = eng.user /\ eng'.todo = {} /\ eng'.results = eng.results
        /\ eng'.at = eng.at /\ eng'.read = srv.time /\ eng'.delta = d
    BY <1>1, EngAt DEF EngType
  <1>4. eng.user \in User /\ eng.sender = eng.user
    BY <1>1 DEF ConvInv, IInv, OneFlush, OneSession
  <1>5. \A v : Batch(v)' = Batch(v)
    BY <1>1, BatchKept
  <1>6. NextOp' = NextOp
    BY <1>1 DEF NextOp
  <1>7. Numbered'
    BY <1>1, <1>3, <1>6 DEF ConvInv, Numbered
  <1>8. \A o : OnItsWay(o)' = OnItsWay(o)
    BY <1>1 DEF OnItsWay
  <1>9. Repeated'
    BY <1>1, <1>3, <1>5, <1>8 DEF ConvInv, Repeated
  <1>10. Clocked'
    BY <1>1, <1>3, <1>4, EngAt DEF ConvInv, Clocked
  <1>11. Verdicts'
    BY <1>1, <1>3 DEF ConvInv, Verdicts, Shows
  <1>12. Pulled' /\ MarkTells'
    BY <1>1, <1>3 DEF ConvInv, Pulled, MarkTells, Read, Dirty, Accepted
  <1>13. \A o \in eng.batch : \E r \in eng.results : r.op = o
    BY <1>1 DEF ConvInv, Numbered
  <1>14. ResultsTell'
    <2>1. eng.batch \subseteq Op
      BY EngAt DEF EngType
    <2> QED BY <1>1, <1>3, <1>13, <2>1 DEF ResultsTell
  <1>15. DeltaTells'
    <2> SUFFICES ASSUME NEW e \in Entity
                 PROVE  /\ d[e] # 0 => d[e] = srv.row[e]
                        /\ (Owner[e] = eng.user /\ eng.since # None /\ eng.since < srv.upd[e])
                              => d[e] = srv.row[e]
      BY <1>1, <1>3 DEF DeltaTells
    <2>1. d[e] # 0 => d[e] = srv.row[e]
      BY <1>2
    <2>2. ASSUME Owner[e] = eng.user, eng.since # None, eng.since < srv.upd[e]
          PROVE  d[e] = srv.row[e]
      <3>1. eng.since \in Nat /\ srv.upd[e] \in Nat
        BY <2>2, EngAt DEF EngType, SrvType
      <3>2. srv.upd[e] > 0
        BY <2>2, <3>1
      <3>3. srv.owner[e] = eng.sender
        BY <1>4, <2>2, <3>2 DEF ConvInv, Clocked, Numbered
      <3> QED BY <1>2, <2>2, <3>1, <3>3
    <2> QED BY <2>1, <2>2
  <1> QED BY <1>7, <1>9, <1>10, <1>11, <1>12, <1>14, <1>15 DEF ConvInv

----------------------------------------------------------------------------
(* What the server makes of an operation *)

\* A row stays as it is, or it changes at a later time.
RowKept(e)  == /\ srv'.row[e] = srv.row[e] /\ srv'.upd[e] = srv.upd[e]
               /\ srv'.owner[e] = srv.owner[e]
RowMoved(e) == /\ srv.time < srv'.time /\ srv'.upd[e] = srv'.time
               /\ srv'.row[e] # 0 /\ srv'.owner[e] = Owner[e]

ServerMoves ==
    /\ srv.time <= srv'.time
    /\ \A e \in Entity : RowKept(e) \/ RowMoved(e)
    /\ \A o \in Op : srv.log[o] # None => srv'.log[o] = srv.log[o]

\* The server settles o with the verdict v of a user whose operation it is.
Settles(o, v) ==
    /\ ServerMoves
    /\ \A p \in Op : p # o => srv'.log[p] = srv.log[p]
    /\ srv'.log[o] # None /\ srv'.log[o].by = by[o]
    /\ srv'.log[o].verdict = v
    /\ srv.log[o] = None =>
          (v.status # "rejected" => v.rec # 0 /\ v.rec = srv'.row[made[o]])

\* applyOne, by its effect.
LEMMA SettleSettles ==
    ASSUME ConvInv, NEW o \in Op, made[o] \in Entity, NEW u \in User, by[o] = u, Settle(o, u)
    PROVE  Settles(o, Answer(o, u))
  <1> DEFINE e == made[o]
             v == Answer(o, u)
             mine == srv.row[e] = 0 \/ srv.owner[e] = u
             x == [by |-> u, verdict |-> v]
             logged == [srv EXCEPT !.log[o] = x]
             moved == [logged EXCEPT !.row[e] = o, !.owner[e] = u,
                                     !.upd[e] = srv.time + 1, !.time = srv.time + 1]
  <1>1. /\ srv \in SrvType /\ srv.time \in Nat /\ e \in Entity /\ o \in Nat /\ o # 0
        /\ srv.row[e] \in Nat
    BY EngAt DEF Op, SrvType, Write
  <1>2. CASE srv.log[o] # None
    <2>1. srv' = srv
      BY <1>2 DEF Settle
    <2>2. srv.log[o].by = u /\ v = srv.log[o].verdict
      BY <1>2 DEF ConvInv, Numbered, Answer
    <2>3. ServerMoves
      BY <1>1, <2>1 DEF ServerMoves, RowKept
    <2> QED BY <1>2, <2>1, <2>2, <2>3 DEF Settles
  <1>3. CASE srv.log[o] = None
    <2>1. /\ v.status = "applied" => v.rec = o
          /\ v.status # "rejected" => v.rec # 0 /\ (v.status = "applied" \/ v.rec = srv.row[e])
      BY <1>1, <1>3 DEF Answer
    <2>2. srv' = IF v.status = "applied" THEN moved ELSE logged
      BY <1>3 DEF Settle
    <2>3. Owner[e] = u /\ x # None /\ x.by = u /\ x.verdict = v
      <3>1. x # None
        <4>1. v \in Verdict
          BY SettleOK DEF ConvInv
        <4> HIDE DEF v
        <4> QED BY <4>1 DEF Logged
      <3>2. x.by = u /\ x.verdict = v
        <4> HIDE DEF v
        <4> QED OBVIOUS
      <3>3. Owner[e] = u
        <4>1. made[o] # None
          BY <1>1
        <4> QED BY <4>1 DEF ConvInv, Numbered
      <3> QED BY <3>1, <3>2, <3>3
    <2> HIDE DEF x, v
    <2>4. /\ logged.log = [srv.log EXCEPT ![o] = x]
          /\ logged.row = srv.row /\ logged.upd = srv.upd /\ logged.owner = srv.owner
          /\ logged.time = srv.time
      BY <1>1 DEF SrvType
    <2>5. /\ moved.log = [srv.log EXCEPT ![o] = x]
          /\ moved.row = [srv.row EXCEPT ![e] = o]
          /\ moved.upd = [srv.upd EXCEPT ![e] = srv.time + 1]
          /\ moved.owner = [srv.owner EXCEPT ![e] = u]
          /\ moved.time = srv.time + 1
      BY <1>1 DEF SrvType
    <2> HIDE DEF logged, moved
    <2>6. \A p \in Op : srv'.log[p] = IF p = o THEN x ELSE srv.log[p]
      BY <1>1, <2>2, <2>4, <2>5 DEF SrvType
    <2>7. \A f \in Entity : RowKept(f) \/ RowMoved(f)
      <3>1. CASE v.status = "applied"
        <4>1. RowMoved(e) /\ \A f \in Entity \ {e} : RowKept(f)
          BY <1>1, <2>2, <2>3, <2>5, <3>1 DEF RowMoved, RowKept, SrvType
        <4> QED BY <4>1
      <3>2. CASE v.status # "applied"
        BY <1>1, <2>2, <2>4, <3>2 DEF RowKept
      <3> QED BY <3>1, <3>2
    <2>8. srv.time <= srv'.time
      BY <1>1, <2>2, <2>4, <2>5
    <2>9. v.status # "rejected" => v.rec # 0 /\ v.rec = srv'.row[e]
      <3>1. CASE v.status = "applied"
        BY <1>1, <2>1, <2>2, <2>5, <3>1 DEF SrvType
      <3>2. CASE v.status # "applied"
        BY <2>1, <2>2, <2>4, <3>2
      <3> QED BY <3>1, <3>2
    <2>10. \A p \in Op : /\ p # o => srv'.log[p] = srv.log[p]
                         /\ srv.log[p] # None => srv'.log[p] = srv.log[p]
      BY <1>3, <2>6
    <2>11. srv'.log[o] = x
      BY <2>6
    <2>12. ServerMoves
      BY <2>7, <2>8, <2>10 DEF ServerMoves
    <2>13. /\ srv'.log[o] # None /\ srv'.log[o].by = by[o]
           /\ srv'.log[o].verdict = v
      BY <2>3, <2>11
    <2> HIDE DEF e
    <2> QED BY <2>9, <2>10, <2>12, <2>13 DEF Settles, e, v
  <1> QED BY <1>2, <1>3

\* Times are numbers.
LEMMA NumbersOK ==
    ASSUME ConvInv
    PROVE  /\ \A u \in User : /\ seen[u] \in [first : Nat, last : Nat]
                              /\ since[u] \in Nat \cup {None}
           /\ \A e \in Entity : srv.upd[e] \in Nat /\ Owner[e] \in User
           /\ srv.time \in Nat /\ eng.at \in Nat /\ eng.read \in Nat
  BY DEF ConvInv, IInv, TypeOK, SrvType, EngType

\* Every operation that was made keeps its entity and its user.
MadeKept == \A p \in Op : made[p] # None => made'[p] = made[p] /\ by'[p] = by[p]

\* What is not rejected now was not rejected before.
LEMMA AcceptedBefore ==
    ASSUME ServerMoves, MadeKept, NEW e \in Entity, Accepted(e)'
    PROVE  Accepted(e)
  <1> SUFFICES ASSUME NEW o \in Op, made[o] = e, srv.log[o] # None
               PROVE  srv.log[o].verdict.status # "rejected"
    BY DEF Accepted
  <1>1. made'[o] = e /\ srv'.log[o] = srv.log[o]
    BY DEF MadeKept, ServerMoves
  <1> QED BY <1>1 DEF Accepted

\* A row that moves moves past what was read.
LEMMA ReadIsKept ==
    ASSUME ConvInv, IInv', ServerMoves, seen' = seen, NEW e \in Entity, Read(e)'
    PROVE  Read(e) /\ RowKept(e)
  <1>1. srv'.time \in Nat
    BY DEF IInv, TypeOK, SrvType
  <1>2. srv'.upd[e] <= seen[Owner[e]].last /\ seen[Owner[e]].last <= srv.time
    BY NumbersOK DEF Read, ConvInv, Clocked
  <1>3. ~RowMoved(e)
    BY <1>1, <1>2, NumbersOK DEF RowMoved
  <1>4. RowKept(e)
    BY <1>3 DEF ServerMoves
  <1> QED BY <1>4 DEF Read, RowKept

ShowsNext(v, e) ==
    /\ v.rec # 0
    /\ v.rec = srv'.row[e] \/ seen'[Owner[e]].last < srv'.upd[e]

\* A verdict goes on showing the row, or the row is later than the last pull.
LEMMA ShowsStill ==
    ASSUME ConvInv, IInv', ServerMoves, seen' = seen, NEW e \in Entity, NEW v, Shows(v, e)
    PROVE  ShowsNext(v, e)
  <1>1. CASE RowKept(e)
    BY <1>1 DEF Shows, ShowsNext, RowKept
  <1>2. CASE RowMoved(e)
    <2>1. srv'.time \in Nat
      BY DEF IInv, TypeOK, SrvType
    <2>2. seen[Owner[e]].last <= srv.time
      BY NumbersOK DEF ConvInv, Clocked
    <2>3. seen[Owner[e]].last < srv'.upd[e]
      BY <1>2, <2>1, <2>2, NumbersOK DEF RowMoved
    <2> QED BY <2>3 DEF Shows, ShowsNext
  <1> QED BY <1>1, <1>2 DEF ServerMoves

\* The POST in flight is the same, but for what of it is answered.
SamePost ==
    /\ eng'.pc = eng.pc /\ eng'.user = eng.user /\ eng'.batch = eng.batch
    /\ eng'.since = eng.since /\ eng'.at = eng.at /\ eng'.read = eng.read
    /\ eng'.delta = eng.delta
    /\ eng.pc = "apply" => eng'.results = eng.results

\* A step of the server keeps what the device has.
LEMMA RowsStep ==
    ASSUME ConvInv, IInv', ServerMoves, MadeKept, SamePost,
           UNCHANGED <<pending, local, since, seen>>
    PROVE  Pulled' /\ ResultsTell' /\ DeltaTells' /\ MarkTells'
  <1>1. \A o \in pending : made'[o] = made[o]
    BY DEF ConvInv, IInv, TypeOK, OnlyMade, Made, MadeKept
  <1>2. eng.pc \notin {"idle", "peek", "ended"} => \A o \in eng.batch : made'[o] = made[o]
    BY DEF ConvInv, IInv, TypeOK, EngType, OnlyMade, Made, MadeKept
  <1>3. \A e \in Entity : Dirty(e)' = Dirty(e)
    BY <1>1 DEF Dirty
  <1>4. Pulled'
    <2> SUFFICES ASSUME NEW e \in Entity, Accepted(e)', Read(e)'
                 PROVE  (local[e] = srv.row[e] \/ Dirty(e))'
      BY DEF Pulled
    <2>1. Accepted(e) /\ Read(e) /\ RowKept(e)
      BY AcceptedBefore, ReadIsKept
    <2> QED BY <2>1, <1>3 DEF ConvInv, Pulled, RowKept
  <1>5. ResultsTell'
    <2> SUFFICES ASSUME eng.pc = "apply", NEW e \in Entity, Accepted(e)', Read(e)',
                        NEW o \in eng.batch, made'[o] = e
                 PROVE  (\/ local[e] = srv.row[e] \/ Edited(e)
                         \/ \E r \in eng.results : made[r.op] = e)'
      BY DEF ResultsTell, SamePost
    <2>1. Accepted(e) /\ Read(e) /\ RowKept(e) /\ made[o] = e
      BY <1>2, AcceptedBefore, ReadIsKept
    <2>2. \/ local[e] = srv.row[e] \/ Edited(e)
          \/ \E r \in eng.results : made[r.op] = e
      BY <2>1 DEF ConvInv, ResultsTell
    <2>3. Edited(e)' = Edited(e)
      BY <1>1 DEF Edited, SamePost
    <2>4. \A r \in eng.results : made'[r.op] = made[r.op]
      BY <1>2 DEF ConvInv, Numbered
    <2> QED BY <2>1, <2>2, <2>3, <2>4 DEF RowKept, SamePost
  <1>6. ASSUME NEW e \in Entity, eng.pc \in {"apply", "delta", "mark"}, srv'.upd[e] <= eng.read
        PROVE  RowKept(e)
    <2>1. srv'.time \in Nat
      BY DEF IInv, TypeOK, SrvType
    <2>2. eng.read <= srv.time
      BY <1>6 DEF ConvInv, Clocked
    <2>3. ~RowMoved(e)
      BY <1>6, <2>1, <2>2, NumbersOK DEF RowMoved
    <2> QED BY <2>3 DEF ServerMoves
  <1>7. DeltaTells'
    <2> SUFFICES ASSUME eng.pc \in {"apply", "delta"}, NEW e \in Entity, srv'.upd[e] <= eng.read
                 PROVE  /\ eng.delta[e] # 0 => eng.delta[e] = srv'.row[e]
                        /\ (Owner[e] = eng.user /\ eng.since # None /\ eng.since < srv'.upd[e])
                              => eng.delta[e] = srv'.row[e]
      BY DEF DeltaTells, SamePost
    <2>1. RowKept(e)
      BY <1>6
    <2> QED BY <2>1 DEF ConvInv, DeltaTells, RowKept
  <1>8. MarkTells'
    <2> SUFFICES ASSUME eng.pc = "mark", NEW e \in Entity, Accepted(e)', Owner[e] = eng.user,
                        eng.since # None, seen[eng.user].first < srv'.upd[e],
                        srv'.upd[e] <= eng.read
                 PROVE  (local[e] = srv.row[e] \/ Dirty(e))'
      BY DEF MarkTells, SamePost
    <2>1. Accepted(e) /\ RowKept(e)
      BY <1>6, AcceptedBefore
    <2> QED BY <2>1, <1>3 DEF ConvInv, MarkTells, RowKept
  <1> QED BY <1>4, <1>5, <1>7, <1>8

\* A step of the server keeps the order of times.
LEMMA ClockStep ==
    ASSUME ConvInv, IInv', ServerMoves, SamePost, UNCHANGED <<since, seen>>
    PROVE  Clocked'
  <1>1. srv'.time \in Nat /\ srv.time <= srv'.time
    BY DEF ServerMoves, IInv, TypeOK, SrvType
  <1>2. ASSUME NEW e \in Entity
        PROVE  /\ srv'.upd[e] <= srv'.time
               /\ srv'.upd[e] > 0 => srv'.row[e] # 0 /\ srv'.owner[e] # None
    <2>1. CASE RowKept(e)
      BY <1>1, <2>1, NumbersOK DEF RowKept, ConvInv, Clocked
    <2>2. CASE RowMoved(e)
      BY <1>1, <2>2, NumbersOK DEF RowMoved
    <2> QED BY <2>1, <2>2 DEF ServerMoves
  <1>3. \A u \in User : seen[u].last <= srv'.time
    BY <1>1, NumbersOK DEF ConvInv, Clocked
  <1>4. eng.pc \in {"wait", "apply", "delta", "mark"} => eng.at <= srv'.time
    BY <1>1, NumbersOK DEF ConvInv, Clocked
  <1>5. eng.pc \in {"apply", "delta", "mark"} => eng.read <= srv'.time
    BY <1>1, NumbersOK DEF ConvInv, Clocked
  <1> QED BY <1>2, <1>3, <1>4, <1>5 DEF ConvInv, Clocked, SamePost

\* An operation in flight in the batch of its user.
Sent(o) == o \in eng.batch /\ by[o] = eng.user /\ eng.pc = "wait"

\* A step of the server puts nothing new on its way that was not sent.
LEMMA RepeatedStep ==
    ASSUME ConvInv, SamePost, pending' = pending,
           \A o \in pending : by'[o] = by[o],
           \A o \in pending : OnItsWay(o)' => OnItsWay(o) \/ Sent(o)
    PROVE  Repeated'
  <1>1. \A u : Queue(u)' = Queue(u)
    BY DEF Queue
  <1>2. \A u : Batch(u)' = Batch(u)
    BY <1>1 DEF Batch
  <1>3. \A o \in pending : OnItsWay(o)' => o \in Batch(by[o])
    BY DEF ConvInv, Repeated, Sent
  <1>4. eng.pc \in {"send", "wait", "apply"} =>
          /\ eng.batch \subseteq Batch(eng.user)
          /\ \A o \in pending : (OnItsWay(o)' /\ by[o] = eng.user) => o \in eng.batch
    BY DEF ConvInv, Repeated, Sent
  <1>5. eng.pc \in {"delta", "mark"} => \A o \in pending : OnItsWay(o)' => by[o] # eng.user
    BY DEF ConvInv, Repeated, Sent
  <1> QED BY <1>2, <1>3, <1>4, <1>5 DEF Repeated, SamePost

\* What the server settles is a verdict the device may rely on.
LEMMA VerdictsStep ==
    ASSUME ConvInv, IInv', NEW o \in Op, NEW v, Settles(o, v), UNCHANGED <<pending, made, seen>>,
           \A r \in eng'.results : r \in eng.results \/ (r = v /\ r.op = o /\ o \in pending)
    PROVE  Verdicts'
  <1>1. \A p \in pending : p \in Op /\ made[p] \in Entity
    BY DEF ConvInv, IInv, TypeOK, OnlyMade, Made
  <1>2. \A r \in eng.results : r.op \in Op /\ made[r.op] \in Entity
    BY DEF ConvInv, IInv, TypeOK, EngType, Verdict, OnlyMade
  <1>3. ServerMoves
    BY DEF Settles
  <1>4. ASSUME NEW p \in pending, srv'.log[p] # None, srv'.log[p].verdict.status # "rejected"
        PROVE  ShowsNext(srv'.log[p].verdict, made[p])
    <2>1. CASE srv.log[p] # None
      <3>1. srv'.log[p] = srv.log[p]
        BY <1>1, <1>3, <2>1 DEF ServerMoves
      <3>2. Shows(srv.log[p].verdict, made[p])
        BY <1>4, <2>1, <3>1 DEF ConvInv, Verdicts
      <3>3. ShowsNext(srv.log[p].verdict, made[p])
        BY <1>1, <1>3, <3>2, ShowsStill
      <3> QED BY <3>1, <3>3
    <2>2. CASE srv.log[p] = None
      <3>1. p = o
        BY <1>1, <1>4, <2>2 DEF Settles
      <3>2. v.rec # 0 /\ v.rec = srv'.row[made[p]] /\ srv'.log[p].verdict = v
        BY <1>4, <2>2, <3>1 DEF Settles
      <3> QED BY <3>2 DEF ShowsNext
    <2> QED BY <2>1, <2>2
  <1>5. ASSUME NEW r \in eng.results
        PROVE  /\ srv'.log[r.op] # None
               /\ r.status = srv'.log[r.op].verdict.status
               /\ r.status # "rejected" => ShowsNext(r, made[r.op])
    <2>1. /\ srv.log[r.op] # None /\ r.status = srv.log[r.op].verdict.status
          /\ r.status # "rejected" => Shows(r, made[r.op])
      BY DEF ConvInv, Verdicts
    <2>2. srv'.log[r.op] = srv.log[r.op]
      BY <1>2, <1>3, <2>1 DEF ServerMoves
    <2> QED BY <2>1, <2>2, <1>2, <1>3, ShowsStill
  <1>6. ASSUME o \in pending
        PROVE  /\ srv'.log[o] # None
               /\ v.status = srv'.log[o].verdict.status
               /\ v.status # "rejected" => ShowsNext(v, made[o])
    <2>1. srv'.log[o] # None /\ srv'.log[o].verdict = v
      BY DEF Settles
    <2>2. v.status # "rejected" => ShowsNext(srv'.log[o].verdict, made[o])
      BY <1>4, <1>6, <2>1
    <2>3. v.status # "rejected" => ShowsNext(v, made[o])
      BY <2>1, <2>2
    <2> QED BY <2>1, <2>3
  <1>7. ASSUME NEW r \in eng'.results
        PROVE  /\ srv'.log[r.op] # None
               /\ r.status = srv'.log[r.op].verdict.status
               /\ r.status # "rejected" => ShowsNext(r, made[r.op])
    BY <1>5, <1>6
  <1>8. \A p \in pending : (srv'.log[p] # None /\ srv'.log[p].verdict.status # "rejected")
          => ShowsNext(srv'.log[p].verdict, made[p])
    BY <1>4
  <1> QED BY <1>7, <1>8 DEF Verdicts, Shows, ShowsNext

\* The server's own part of Numbered.
LEMMA SettledIsNumbered ==
    ASSUME ConvInv, NEW o \in Op, made[o] \in Entity, NEW v, Settles(o, v),
           UNCHANGED <<made, by>>
    PROVE  /\ \A p \in Op : srv'.log[p] # None => made[p] # None /\ srv'.log[p].by = by[p]
           /\ \A e \in Entity : srv'.owner[e] # None => srv'.owner[e] = Owner[e]
           /\ NextOp' = NextOp /\ MadeKept /\ ServerMoves
  <1>1. \A p \in Op : srv'.log[p] # None => made[p] # None /\ srv'.log[p].by = by[p]
    BY DEF Settles, ConvInv, Numbered
  <1>2. ServerMoves
    BY DEF Settles
  <1>3. \A e \in Entity : srv'.owner[e] # None => srv'.owner[e] = Owner[e]
    BY <1>2 DEF ServerMoves, RowKept, RowMoved, ConvInv, Numbered
  <1> QED BY <1>1, <1>2, <1>3 DEF NextOp, MadeKept

\* The server answers an operation of the POST in flight.
LEMMA ConvServe ==
    ASSUME ConvInv, IInv', OneSession, Serve
    PROVE  ConvInv'
  <1>1. /\ UNCHANGED <<pending, local, since, wire, made, by, seen>>
        /\ eng.pc = "wait"
    BY DEF Serve, device, history, InEngine
  <1>2. PICK o \in eng.todo :
          /\ Settle(o, eng.sender)
          /\ eng' = [eng EXCEPT !.todo = @ \ {o}, !.results = @ \cup {Answer(o, eng.sender)}]
    BY DEF Serve
  <1> DEFINE v == Answer(o, eng.sender)
  <1>3. /\ o \in Op /\ made[o] \in Entity /\ eng.sender \in User /\ eng.sender = eng.user
        /\ by[o] = eng.user /\ o \in eng.batch
    BY <1>1 DEF ConvInv, IInv, TypeOK, EngType, OnlyMade, Made, OneFlush, OneSession, Numbered
  <1>4. Settles(o, v)
    BY <1>2, <1>3, SettleSettles
  <1>5. v.op = o
    BY <1>2, <1>3, SettleOK DEF ConvInv
  <1>6. /\ eng'.todo = eng.todo \ {o} /\ eng'.results = eng.results \cup {v} /\ SamePost
        /\ eng'.sender = eng.sender
    BY <1>1, <1>2, EngAt DEF EngType, SamePost
  <1> HIDE DEF v
  <1>7. o \in pending
    BY <1>1, <1>3 DEF ConvInv, Repeated, Batch, Queue
  <1>8. Verdicts'
    BY <1>1, <1>3, <1>4, <1>5, <1>6, <1>7, VerdictsStep
  <1>9. ServerMoves /\ MadeKept /\ NextOp' = NextOp
    BY <1>1, <1>3, <1>4, SettledIsNumbered
  <1>10. Numbered'
    <2>1. /\ \A p \in Op : srv'.log[p] # None => made[p] # None /\ srv'.log[p].by = by[p]
          /\ \A e \in Entity : srv'.owner[e] # None => srv'.owner[e] = Owner[e]
      BY <1>1, <1>3, <1>4, SettledIsNumbered
    <2>2. /\ \A r \in eng'.results : r.op \in eng.batch
          /\ \A p \in eng.batch : p \in eng'.todo \/ \E r \in eng'.results : r.op = p
      BY <1>1, <1>3, <1>5, <1>6 DEF ConvInv, Numbered
    <2>3. eng'.pc = "wait" /\ eng'.batch = eng.batch /\ eng'.user = eng.user
          /\ eng'.todo \subseteq eng.todo
      BY <1>1, <1>6 DEF SamePost
    <2> QED BY <1>1, <1>9, <2>1, <2>2, <2>3 DEF ConvInv, Numbered
  <1>11. \A p \in pending : OnItsWay(p)' => OnItsWay(p) \/ Sent(p)
    <2> SUFFICES ASSUME NEW p \in pending, OnItsWay(p)', p # o PROVE OnItsWay(p)
      BY <1>1, <1>3 DEF Sent
    <2>1. p \in Op
      BY DEF ConvInv, IInv, TypeOK
    <2>2. srv'.log[p] = srv.log[p]
      BY <1>4, <2>1 DEF Settles
    <2> QED BY <1>1, <2>2 DEF OnItsWay
  <1>12. Repeated'
    BY <1>1, <1>6, <1>11, RepeatedStep
  <1>13. Clocked' /\ Pulled' /\ ResultsTell' /\ DeltaTells' /\ MarkTells'
    BY <1>1, <1>6, <1>9, ClockStep, RowsStep
  <1> QED BY <1>8, <1>10, <1>12, <1>13 DEF ConvInv

\* The server settles an operation of a POST nobody waits for.
LEMMA ConvLate ==
    ASSUME ConvInv, IInv', NEW w \in wire, Late(w)
    PROVE  ConvInv'
  <1>1. UNCHANGED <<pending, local, since, eng, made, by, seen>>
    BY DEF Late, device, history
  <1>2. PICK o \in w.todo :
          /\ Settle(o, w.sender)
          /\ wire' = (wire \ {w}) \cup (IF w.todo = {o} THEN {}
                                        ELSE {[w EXCEPT !.todo = @ \ {o}]})
    BY DEF Late
  <1> DEFINE v == Answer(o, w.sender)
  <1>3. /\ w \in [todo : SUBSET Op, sender : User] /\ o \in Op /\ made[o] \in Entity
        /\ by[o] = w.sender
    BY DEF ConvInv, IInv, TypeOK, OnlyMade, Made, Numbered
  <1>4. Settles(o, v)
    BY <1>2, <1>3, SettleSettles
  <1> HIDE DEF v
  <1>5. SamePost
    BY <1>1 DEF SamePost
  <1>6. Verdicts'
    BY <1>1, <1>3, <1>4, VerdictsStep
  <1>7. ServerMoves /\ MadeKept /\ NextOp' = NextOp
    BY <1>1, <1>3, <1>4, SettledIsNumbered
  <1>8. ASSUME NEW x \in wire' PROVE \E y \in wire : x.todo \subseteq y.todo /\ x.sender = y.sender
    BY <1>2, <1>3
  <1>9. Numbered'
    <2>1. /\ \A p \in Op : srv'.log[p] # None => made[p] # None /\ srv'.log[p].by = by[p]
          /\ \A e \in Entity : srv'.owner[e] # None => srv'.owner[e] = Owner[e]
      BY <1>1, <1>3, <1>4, SettledIsNumbered
    <2>2. \A x \in wire' : \A p \in x.todo : by[p] = x.sender
      BY <1>8 DEF ConvInv, Numbered
    <2> QED BY <1>1, <1>7, <2>1, <2>2 DEF ConvInv, Numbered
  <1>10. \A p \in pending : OnItsWay(p)' => OnItsWay(p)
    <2> SUFFICES ASSUME NEW p \in pending, OnItsWay(p)' PROVE OnItsWay(p)
      OBVIOUS
    <2>1. p \in Op
      BY DEF ConvInv, IInv, TypeOK
    <2>2. CASE p = o
      BY <2>2 DEF OnItsWay
    <2>3. CASE p # o /\ srv'.log[p] # None
      BY <1>4, <2>1, <2>3 DEF Settles, OnItsWay
    <2>4. CASE \E x \in wire' : p \in x.todo
      BY <1>8, <2>4 DEF OnItsWay
    <2> QED BY <2>2, <2>3, <2>4 DEF OnItsWay
  <1>11. Repeated'
    BY <1>1, <1>5, <1>10, RepeatedStep
  <1>12. Clocked' /\ Pulled' /\ ResultsTell' /\ DeltaTells' /\ MarkTells'
    BY <1>1, <1>5, <1>7, ClockStep, RowsStep
  <1> QED BY <1>6, <1>9, <1>11, <1>12 DEF ConvInv

----------------------------------------------------------------------------
(* The device applies an answer *)

\* What is queued, sent or answered was made.
LEMMA InBatch ==
    ASSUME ConvInv
    PROVE  /\ \A o \in pending : o \in Op /\ made[o] \in Entity /\ made[o] # None
           /\ eng.pc \in {"send", "wait", "apply"} => \A o \in eng.batch : o \in pending
           /\ \A r \in eng.results : /\ r.op \in Op /\ made[r.op] \in Entity
                                     /\ r.op \in eng.batch
           /\ \A o \in eng.batch : o \in Op /\ made[o] \in Entity /\ by[o] = eng.user
           /\ local \in [Entity -> Write]
  <1>1. \A o \in pending : o \in Op /\ made[o] \in Entity /\ made[o] # None
    BY DEF ConvInv, IInv, TypeOK, OnlyMade, Made
  <1>2. eng.pc \in {"send", "wait", "apply"} => \A o \in eng.batch : o \in pending
    BY DEF ConvInv, Repeated, Batch, Queue
  <1>3. \A r \in eng.results : r.op \in Op /\ made[r.op] \in Entity /\ r.op \in eng.batch
    BY DEF ConvInv, IInv, TypeOK, EngType, Verdict, OnlyMade, Numbered
  <1>4. \A o \in eng.batch : o \in Op /\ made[o] \in Entity /\ by[o] = eng.user
    BY DEF ConvInv, IInv, TypeOK, EngType, OnlyMade, Made, Numbered
  <1>5. local \in [Entity -> Write]
    BY DEF ConvInv, IInv, TypeOK
  <1> QED BY <1>1, <1>2, <1>3, <1>4, <1>5

\* A result shows the row, or the delta to come does; the entity is still queued.
LEMMA ConvApplyResult ==
    ASSUME ConvInv, IInv', ApplyResult
    PROVE  ConvInv'
  <1>1. UNCHANGED <<pending, since, srv, wire, made, by, seen>> /\ eng.pc = "apply"
    BY DEF ApplyResult, EngineOnly, server, InEngine
  <1>2. PICK r \in eng.results :
          /\ local' = IF r.rec # 0 \/ r.status = "rejected"
                      THEN [local EXCEPT ![made[r.op]] = r.rec] ELSE local
          /\ eng' = [eng EXCEPT !.results = @ \ {r}]
    BY DEF ApplyResult
  <1> DEFINE x == made[r.op]
  <1>3. /\ eng'.pc = "apply" /\ eng'.batch = eng.batch /\ eng'.since = eng.since
        /\ eng'.user = eng.user /\ eng'.todo = eng.todo /\ eng'.results = eng.results \ {r}
        /\ eng'.at = eng.at /\ eng'.read = eng.read /\ eng'.delta = eng.delta
    BY <1>1, <1>2, EngAt DEF EngType
  <1>4. /\ x \in Entity /\ r.op \in pending /\ r.op \in Op /\ r.op \in eng.batch
    BY <1>1, InBatch
  <1>5. /\ \A e \in Entity : e # x => local'[e] = local[e]
        /\ r.rec # 0 => local'[x] = r.rec
    BY <1>2, <1>4, InBatch
  <1>6. /\ srv.log[r.op] # None /\ r.status = srv.log[r.op].verdict.status
        /\ r.status # "rejected" => Shows(r, x)
    BY DEF ConvInv, Verdicts
  <1>7. \A o : OnItsWay(o)' = OnItsWay(o)
    BY <1>1 DEF OnItsWay
  <1>8. \A u : Batch(u)' = Batch(u)
    BY <1>1, BatchKept
  <1>9. NextOp' = NextOp
    BY <1>1 DEF NextOp
  <1>10. Numbered'
    BY <1>1, <1>3, <1>9 DEF ConvInv, Numbered
  <1>11. Repeated'
    BY <1>1, <1>3, <1>7, <1>8 DEF ConvInv, Repeated
  <1>12. Clocked'
    BY <1>1, <1>3 DEF ConvInv, Clocked
  <1>13. Verdicts'
    BY <1>1, <1>3 DEF ConvInv, Verdicts, Shows
  <1>14. Pulled'
    <2>1. Dirty(x)
      BY <1>4 DEF Dirty
    <2> HIDE DEF x
    <2> QED BY <1>1, <1>5, <2>1 DEF ConvInv, Pulled, Read, Accepted, Dirty
  <1>15. ResultsTell'
    <2> SUFFICES ASSUME NEW e \in Entity, Accepted(e), Read(e), NEW o \in eng.batch, made[o] = e
                 PROVE  \/ local'[e] = srv.row[e] \/ Edited(e)
                        \/ \E q \in eng.results \ {r} : made[q.op] = e
      BY <1>1, <1>3 DEF ResultsTell, Accepted, Read, Edited
    <2>1. CASE e = x
      <3>1. r.status # "rejected"
        BY <1>4, <1>6, <2>1 DEF Accepted
      <3>2. r.rec # 0 /\ (r.rec = srv.row[x] \/ seen[Owner[x]].last < srv.upd[x])
        BY <1>6, <3>1 DEF Shows
      <3>3. r.rec = srv.row[x]
        BY <1>4, <2>1, <3>2, NumbersOK DEF Read
      <3> QED BY <1>5, <2>1, <3>2, <3>3
    <2>2. CASE e # x
      <3>1. \/ local[e] = srv.row[e] \/ Edited(e)
            \/ \E q \in eng.results : made[q.op] = e
        BY <1>1 DEF ConvInv, ResultsTell
      <3> QED BY <1>5, <2>2, <3>1
    <2> QED BY <2>1, <2>2
  <1>16. DeltaTells' /\ MarkTells'
    BY <1>1, <1>3 DEF ConvInv, DeltaTells, MarkTells
  <1> QED BY <1>10, <1>11, <1>12, <1>13, <1>14, <1>15, <1>16 DEF ConvInv

\* What leaves the queue left its verdict; what was queued meanwhile stays.
LEMMA ConvRemovePending ==
    ASSUME ConvInv, IInv', RemovePending
    PROVE  ConvInv'
  <1>1. /\ UNCHANGED <<local, since, srv, wire, made, by, seen>>
        /\ eng.pc = "apply" /\ eng.results = {} /\ pending' = pending \ eng.batch
        /\ eng' = [eng EXCEPT !.pc = "delta"]
    BY DEF RemovePending, EngineOnly, server, InEngine
  <1>2. /\ eng'.pc = "delta" /\ eng'.batch = eng.batch /\ eng'.since = eng.since
        /\ eng'.user = eng.user /\ eng'.todo = eng.todo /\ eng'.results = {}
        /\ eng'.at = eng.at /\ eng'.read = eng.read /\ eng'.delta = eng.delta
    BY <1>1, EngAt DEF EngType
  <1>3. \A o : OnItsWay(o)' = OnItsWay(o)
    BY <1>1 DEF OnItsWay
  <1>4. NextOp' = NextOp
    BY <1>1 DEF NextOp
  <1>5. Numbered'
    BY <1>1, <1>2, <1>4 DEF ConvInv, Numbered
  <1>6. \A o \in pending' : OnItsWay(o) => by[o] # eng.user
    BY <1>1 DEF ConvInv, Repeated
  <1>7. \A u : u # eng.user => Batch(u)' = Batch(u)
    <2> SUFFICES ASSUME NEW u, u # eng.user PROVE Batch(u)' = Batch(u)
      OBVIOUS
    <2>1. Queue(u)' = Queue(u)
      BY <1>1, InBatch DEF Queue
    <2> QED BY <2>1 DEF Batch
  <1>8. Repeated'
    BY <1>1, <1>2, <1>3, <1>6, <1>7 DEF ConvInv, Repeated
  <1>9. Clocked' /\ Verdicts'
    BY <1>1, <1>2 DEF ConvInv, Clocked, Verdicts, Shows
  <1>10. Pulled'
    <2> SUFFICES ASSUME NEW e \in Entity, Accepted(e), Read(e)
                 PROVE  local[e] = srv.row[e] \/ \E o \in pending \ eng.batch : made[o] = e
      BY <1>1 DEF Pulled, Accepted, Read, Dirty
    <2>1. local[e] = srv.row[e] \/ Dirty(e)
      BY DEF ConvInv, Pulled
    <2>2. ASSUME NEW o \in eng.batch, made[o] = e
          PROVE  local[e] = srv.row[e] \/ Edited(e)
      BY <1>1, <2>2 DEF ConvInv, ResultsTell
    <2> QED BY <2>1, <2>2 DEF Dirty, Edited
  <1>11. ResultsTell' /\ DeltaTells' /\ MarkTells'
    BY <1>1, <1>2 DEF ConvInv, ResultsTell, DeltaTells, MarkTells
  <1> QED BY <1>5, <1>8, <1>9, <1>10, <1>11 DEF ConvInv

\* The delta shows the rows that changed since the mark; the others were shown before.
LEMMA ConvApplyDelta ==
    ASSUME ConvInv, IInv', ApplyDelta
    PROVE  ConvInv'
  <1>1. /\ UNCHANGED <<pending, since, srv, wire, made, by, seen>>
        /\ eng.pc = "delta" /\ eng' = [eng EXCEPT !.pc = "mark"]
        /\ \A e \in Entity : local'[e] = IF eng.delta[e] # 0 THEN eng.delta[e] ELSE local[e]
    BY DEF ApplyDelta, EngineOnly, server, InEngine
  <1>2. /\ eng'.pc = "mark" /\ eng'.batch = eng.batch /\ eng'.since = eng.since
        /\ eng'.user = eng.user /\ eng'.todo = eng.todo /\ eng'.results = eng.results
        /\ eng'.at = eng.at /\ eng'.read = eng.read
    BY <1>1, EngAt DEF EngType
  <1>3. \A o : OnItsWay(o)' = OnItsWay(o)
    BY <1>1 DEF OnItsWay
  <1>4. \A u : Batch(u)' = Batch(u)
    BY <1>1, BatchKept
  <1>5. NextOp' = NextOp
    BY <1>1 DEF NextOp
  <1>6. Numbered'
    BY <1>1, <1>2, <1>5 DEF ConvInv, Numbered
  <1>7. Repeated'
    BY <1>1, <1>2, <1>3, <1>4 DEF ConvInv, Repeated
  <1>8. Clocked' /\ Verdicts'
    BY <1>1, <1>2 DEF ConvInv, Clocked, Verdicts, Shows
  <1>9. ASSUME NEW e \in Entity, Accepted(e), Read(e)
        PROVE  local'[e] = srv.row[e] \/ Dirty(e)
    <2>1. srv.upd[e] <= eng.read
      <3>1. seen[Owner[e]].last <= eng.read
        BY <1>1, NumbersOK DEF ConvInv, Clocked
      <3> QED BY <1>9, <3>1, NumbersOK DEF Read
    <2>2. eng.delta[e] # 0 => eng.delta[e] = srv.row[e]
      BY <1>1, <2>1 DEF ConvInv, DeltaTells
    <2>3. local[e] = srv.row[e] \/ Dirty(e)
      BY <1>9 DEF ConvInv, Pulled
    <2> QED BY <1>1, <2>2, <2>3
  <1>10. Pulled'
    BY <1>1, <1>9 DEF Pulled, Accepted, Read, Dirty
  <1>11. MarkTells'
    <2> SUFFICES ASSUME NEW e \in Entity, Accepted(e), Owner[e] = eng.user, eng.since # None,
                        seen[eng.user].first < srv.upd[e], srv.upd[e] <= eng.read
                 PROVE  local'[e] = srv.row[e] \/ Dirty(e)
      BY <1>1, <1>2 DEF MarkTells, Accepted, Dirty
    <2>1. eng.user \in User /\ eng.since = since[eng.user] /\ eng.since \in Nat
      BY <1>1, NumbersOK DEF ConvInv, Clocked
    <2>2. CASE eng.since < srv.upd[e]
      <3>1. eng.delta[e] = srv.row[e]
        BY <1>1, <2>2 DEF ConvInv, DeltaTells
      <3>2. srv.row[e] # 0
        BY <2>1, <2>2, NumbersOK DEF ConvInv, Clocked
      <3> QED BY <1>1, <3>1, <3>2
    <2>3. CASE srv.upd[e] <= eng.since
      <3>1. eng.since <= seen[eng.user].last
        BY <2>1 DEF ConvInv, Clocked
      <3>2. Read(e)
        BY <2>1, <2>3, <3>1, NumbersOK DEF Read
      <3> QED BY <1>9, <3>2
    <2> QED BY <2>1, <2>2, <2>3, NumbersOK
  <1>12. ResultsTell' /\ DeltaTells'
    BY <1>2 DEF ResultsTell, DeltaTells
  <1> QED BY <1>6, <1>7, <1>8, <1>10, <1>11, <1>12 DEF ConvInv

\* The mark moves no further than what was read.
LEMMA ConvMark ==
    ASSUME ConvInv, IInv', Mark
    PROVE  ConvInv'
  <1> DEFINE u == eng.user
             h == IF eng.since = None THEN [first |-> eng.at, last |-> eng.at]
                  ELSE [seen[u] EXCEPT !.last = eng.read]
             q == [eng EXCEPT !.pc = "peek", !.pulled = TRUE]
  <1>1. /\ UNCHANGED <<pending, local, srv, wire, made, by>> /\ eng.pc = "mark"
        /\ since' = [since EXCEPT ![u] = eng.at] /\ seen' = [seen EXCEPT ![u] = h]
    BY DEF Mark, EngineOnly, server, InEngine
  <1>2. u \in User /\ u # None
    BY <1>1 DEF ConvInv, IInv, OneFlush
  <1>3. /\ \A v \in User : v # u => since'[v] = since[v] /\ seen'[v] = seen[v]
        /\ since'[u] = eng.at /\ seen'[u] = h
    <2>1. since \in [User -> Nat \cup {None}] /\ seen \in [User -> [first : Nat, last : Nat]]
      BY DEF ConvInv, IInv, TypeOK
    <2> HIDE DEF u, h
    <2> QED BY <1>1, <1>2, <2>1
  <1>4. /\ eng.since = None => h.first = eng.at /\ h.last = eng.at
        /\ eng.since # None => h.first = seen[u].first /\ h.last = eng.read
    BY <1>2, NumbersOK
  <1>5. eng'.pc \in {"idle", "peek", "ended"} /\ eng'.todo = {} /\ eng'.results = {}
        /\ (eng'.batch = {} \/ (eng'.batch = eng.batch /\ eng'.user = eng.user))
    <2>1. (\E outcome : End(outcome)) \/ eng' = q
      BY DEF Mark
    <2>2. eng.todo = {} /\ eng.results = {}
      BY <1>1 DEF ConvInv, IInv, OneFlush, Numbered
    <2>3. CASE \E outcome : End(outcome)
      BY <2>3, EndRests DEF Resting
    <2>4. CASE eng' = q
      BY <2>2, <2>4, EngAt DEF EngType
    <2> QED BY <2>1, <2>3, <2>4
  <1> HIDE DEF u, h, q
  <1>6. \A o : OnItsWay(o)' = OnItsWay(o)
    BY <1>1 DEF OnItsWay
  <1>7. \A v : Batch(v)' = Batch(v)
    BY <1>1, BatchKept
  <1>8. NextOp' = NextOp
    BY <1>1 DEF NextOp
  <1>9. Numbered'
    <2>1. \A o \in eng'.batch : by[o] = eng'.user
      BY <1>5 DEF ConvInv, Numbered
    <2> QED BY <1>1, <1>5, <1>8, <2>1 DEF ConvInv, Numbered
  <1>10. Repeated'
    BY <1>1, <1>5, <1>6, <1>7 DEF ConvInv, Repeated
  <1>11. /\ eng.at <= srv.time /\ eng.at <= eng.read /\ eng.read <= srv.time
         /\ seen[u].first <= eng.at
    BY <1>1 DEF ConvInv, Clocked, u
  <1>12. Clocked'
    <2>1. seen'[u].last <= srv.time
      BY <1>3, <1>4, <1>11
    <2>2. seen'[u].first <= since'[u] /\ since'[u] <= seen'[u].last /\ since'[u] # None
      BY <1>3, <1>4, <1>11, NumbersOK
    <2>3. \A v \in User : seen'[v].last <= srv.time
      BY <1>3, <2>1 DEF ConvInv, Clocked
    <2>4. \A v \in User : since'[v] # None =>
             seen'[v].first <= since'[v] /\ since'[v] <= seen'[v].last
      BY <1>3, <2>2 DEF ConvInv, Clocked
    <2>5. \A v \in User : since'[v] = None => seen'[v].first = 0 /\ seen'[v].last = 0
      BY <1>3, <2>2 DEF ConvInv, Clocked
    <2>6. eng'.pc \notin {"send", "wait", "apply", "delta", "mark"}
      BY <1>5
    <2> QED BY <1>1, <2>3, <2>4, <2>5, <2>6 DEF ConvInv, Clocked
  <1>13. Verdicts'
    <2> SUFFICES ASSUME NEW o \in pending, srv.log[o] # None,
                        srv.log[o].verdict.status # "rejected"
                 PROVE  /\ srv.log[o].verdict.rec # 0
                        /\ \/ srv.log[o].verdict.rec = srv.row[made[o]]
                           \/ seen'[Owner[made[o]]].last < srv.upd[made[o]]
      BY <1>1, <1>5 DEF Verdicts, Shows
    <2>1. by[o] # u
      BY <1>1 DEF ConvInv, Repeated, OnItsWay, u
    <2>2. made[o] \in Entity /\ by[o] = Owner[made[o]]
      BY InBatch DEF ConvInv, Numbered
    <2>3. Shows(srv.log[o].verdict, made[o])
      BY DEF ConvInv, Verdicts
    <2>4. seen'[Owner[made[o]]] = seen[Owner[made[o]]]
      BY <1>3, <2>1, <2>2, NumbersOK
    <2> QED BY <2>3, <2>4 DEF Shows
  <1>14. Pulled'
    <2> SUFFICES ASSUME NEW e \in Entity, Accepted(e), seen'[Owner[e]].first < srv.upd[e],
                        srv.upd[e] <= seen'[Owner[e]].last
                 PROVE  local[e] = srv.row[e] \/ Dirty(e)
      BY <1>1 DEF Pulled, Accepted, Read, Dirty
    <2>1. CASE Owner[e] # u
      <3>1. Read(e)
        BY <1>3, <2>1, NumbersOK DEF Read
      <3> QED BY <3>1 DEF ConvInv, Pulled
    <2>2. CASE Owner[e] = u
      <3>1. eng.since # None
        BY <1>3, <1>4, <2>2, NumbersOK
      <3> QED BY <1>1, <1>3, <1>4, <2>2, <3>1 DEF ConvInv, MarkTells, u
    <2> QED BY <2>1, <2>2
  <1>15. ResultsTell' /\ DeltaTells' /\ MarkTells'
    BY <1>5 DEF ResultsTell, DeltaTells, MarkTells
  <1> QED BY <1>9, <1>10, <1>12, <1>13, <1>14, <1>15 DEF ConvInv

----------------------------------------------------------------------------
(* A new operation *)

\* What both writes have in common: operation n is made, and it is the next.
Makes(n, e) ==
    /\ n = NextOp /\ n \in Op
    /\ made' = [made EXCEPT ![n] = e] /\ by' = [by EXCEPT ![n] = Owner[e]]

\* The next number is new everywhere.
LEMMA MakesOK ==
    ASSUME ConvInv, NEW e \in Entity, NEW n, Makes(n, e)
    PROVE  /\ n \in Op /\ made[n] = None /\ srv.log[n] = None /\ MadeKept
           /\ made'[n] = e /\ by'[n] = Owner[e]
           /\ \A o \in Op : o # n => made'[o] = made[o] /\ by'[o] = by[o]
           /\ n \notin pending /\ n \notin eng.batch
           /\ \A w \in wire : n \notin w.todo
           /\ \A o \in Op : made[o] # None => o < n
           /\ \A o \in Op : made'[o] # None <=> o < NextOp'
  <1> DEFINE S == {o \in Op : made[o] # None}
             T == {o \in Op : made'[o] # None}
  <1>1. /\ made \in [Op -> Entity \cup {None}] /\ by \in [Op -> User \cup {None}]
        /\ n \in Op /\ n = NextOp /\ Op \subseteq Nat
    BY DEF ConvInv, IInv, TypeOK, Makes, Op
  <1>2. \A o \in Op : made[o] # None <=> o < n
    BY <1>1 DEF ConvInv, Numbered
  <1>3. made[n] = None
    BY <1>1, <1>2
  <1>4. srv.log[n] = None /\ n \notin pending /\ n \notin eng.batch
    BY <1>1, <1>3, InBatch DEF ConvInv, Numbered
  <1>5. \A w \in wire : n \notin w.todo
    BY <1>3 DEF ConvInv, IInv, OnlyMade, Made
  <1>6. /\ made'[n] = e /\ by'[n] = Owner[e]
        /\ \A o \in Op : o # n => made'[o] = made[o] /\ by'[o] = by[o]
    BY <1>1 DEF Makes
  <1>7. MadeKept
    BY <1>3, <1>6 DEF MadeKept
  <1>8. T = S \cup {n} /\ n \notin S
    BY <1>1, <1>3, <1>6
  <1>9. IsFiniteSet(Op)
    BY FS_Interval DEF Op
  <1>10. IsFiniteSet(S)
    BY <1>9, FS_Subset
  <1>11. Cardinality(T) = Cardinality(S) + 1 /\ Cardinality(S) \in Nat
    <2> HIDE DEF S, T
    <2> QED BY <1>8, <1>10, FS_AddElement, FS_CardinalityType
  <1>12. NextOp' = n + 1
    <2>1. NextOp = Cardinality(S) + 1 /\ NextOp' = Cardinality(T) + 1
      BY DEF NextOp
    <2> HIDE DEF S, T
    <2> QED BY <1>1, <1>11, <2>1
  <1>13. \A o \in Op : made'[o] # None <=> o < NextOp'
    <2> SUFFICES ASSUME NEW o \in Op PROVE made'[o] # None <=> o < n + 1
      BY <1>12
    <2>1. CASE o = n
      BY <1>1, <1>6, <2>1
    <2>2. CASE o # n
      BY <1>1, <1>2, <1>6, <2>2
    <2> QED BY <2>1, <2>2
  <1> QED BY <1>1, <1>2, <1>3, <1>4, <1>5, <1>6, <1>7, <1>13

\* An edit makes the entity dirty, and waits behind what is queued.
LEMMA ConvLocalWrite ==
    ASSUME ConvInv, IInv', NEW e \in Entity, LocalWrite(e)
    PROVE  ConvInv'
  <1> DEFINE n == NextOp
  <1>1. /\ UNCHANGED <<since, eng, srv, wire, seen>>
        /\ local' = [local EXCEPT ![e] = n] /\ pending' = pending \cup {n} /\ Makes(n, e)
    BY DEF LocalWrite, server, Makes
  <1> HIDE DEF n
  <1>2. /\ n \in Op /\ made[n] = None /\ srv.log[n] = None /\ MadeKept
        /\ made'[n] = e /\ by'[n] = Owner[e]
        /\ \A o \in Op : o # n => made'[o] = made[o] /\ by'[o] = by[o]
        /\ n \notin pending /\ n \notin eng.batch
        /\ \A w \in wire : n \notin w.todo
        /\ \A o \in Op : made[o] # None => o < n
        /\ \A o \in Op : made'[o] # None <=> o < NextOp'
    BY <1>1, MakesOK
  <1>3. \A o \in pending : made'[o] = made[o] /\ by'[o] = by[o] /\ o < n /\ o # n /\ o \in Op
    BY <1>2, InBatch
  <1>4. \A f \in Entity : f # e => local'[f] = local[f]
    BY <1>1, InBatch
  <1>5. \A o : OnItsWay(o)' = OnItsWay(o)
    BY <1>1 DEF OnItsWay
  <1>6. ~OnItsWay(n)
    BY <1>2 DEF OnItsWay
  <1>7. Numbered'
    <2>1. \A o \in Op : made'[o] # None => by'[o] = Owner[made'[o]]
      BY <1>2 DEF ConvInv, Numbered
    <2>2. \A o \in Op : srv.log[o] # None => made'[o] # None /\ srv.log[o].by = by'[o]
      BY <1>2 DEF ConvInv, Numbered
    <2>3. \A o \in eng.batch : by'[o] = eng.user
      BY <1>2, InBatch DEF ConvInv, Numbered
    <2>4. \A w \in wire : \A o \in w.todo : by'[o] = w.sender
      <3>1. \A w \in wire : w.todo \subseteq Op
        BY DEF ConvInv, IInv, TypeOK
      <3> QED BY <1>2, <3>1 DEF ConvInv, Numbered
    <2> QED BY <1>1, <1>2, <2>1, <2>2, <2>3, <2>4 DEF ConvInv, Numbered
  <1>8. \A u : Batch(u) \subseteq Batch(u)'
    <2> SUFFICES ASSUME NEW u, NEW o \in Batch(u) PROVE o \in Batch(u)'
      OBVIOUS
    <2>1. o \in pending /\ by[o] = u /\ Cardinality({p \in Queue(u) : p < o}) < BatchLimit
      BY DEF Batch, Queue
    <2>2. o \in Queue(u)'
      BY <1>1, <1>3, <2>1 DEF Queue
    <2>3. {p \in Queue(u)' : p < o} = {p \in Queue(u) : p < o}
      <3>1. o < n /\ o \in Nat /\ n \in Nat
        BY <1>2, <1>3, <2>1 DEF Op
      <3>2. ~(n < o)
        BY <3>1
      <3>3. \A p : (p \in Queue(u)' /\ p # n) <=> p \in Queue(u)
        BY <1>1, <1>3 DEF Queue
      <3> QED BY <3>2, <3>3
    <2> QED BY <2>1, <2>2, <2>3 DEF Batch
  <1>9. Repeated'
    <2>1. ASSUME NEW o \in pending', OnItsWay(o)
          PROVE  o \in pending /\ o \in Batch(by[o]) /\ by'[o] = by[o]
      BY <1>1, <1>3, <1>6, <2>1 DEF ConvInv, Repeated
    <2>2. \A o \in pending' : OnItsWay(o)' => (o \in Batch(by[o]))'
      BY <1>5, <1>8, <2>1
    <2>3. eng.pc \in {"send", "wait", "apply"} =>
            /\ eng.batch \subseteq Batch(eng.user)'
            /\ \A o \in pending' : (OnItsWay(o)' /\ by'[o] = eng.user) => o \in eng.batch
      <3>1. ASSUME eng.pc \in {"send", "wait", "apply"}
            PROVE  /\ eng.batch \subseteq Batch(eng.user)
                   /\ \A o \in pending : (OnItsWay(o) /\ by[o] = eng.user) => o \in eng.batch
        BY <3>1 DEF ConvInv, Repeated
      <3>2. Batch(eng.user) \subseteq Batch(eng.user)'
        BY <1>1, <1>8
      <3> QED BY <1>5, <2>1, <3>1, <3>2
    <2>4. eng.pc \in {"delta", "mark"} =>
            \A o \in pending' : OnItsWay(o)' => by'[o] # eng.user
      BY <1>5, <2>1 DEF ConvInv, Repeated
    <2> QED BY <1>1, <2>2, <2>3, <2>4 DEF Repeated
  <1>10. Clocked'
    BY <1>1 DEF ConvInv, Clocked
  <1>11. Verdicts'
    <2>1. \A r \in eng.results : made'[r.op] = made[r.op]
      BY <1>2, InBatch
    <2> QED BY <1>1, <1>2, <1>3, <2>1 DEF ConvInv, Verdicts, Shows
  <1>12. \A f \in Entity : Accepted(f)' => Accepted(f)
    BY <1>1, <1>2 DEF Accepted, MadeKept
  <1>13. \A f \in Entity : Read(f)' = Read(f)
    BY <1>1 DEF Read
  <1>14. \A f \in Entity : (local[f] = srv.row[f] \/ Dirty(f))
                              => (local[f] = srv.row[f] \/ Dirty(f))'
    <2>1. Dirty(e)'
      BY <1>1, <1>2 DEF Dirty
    <2>2. \A f \in Entity : Dirty(f) => Dirty(f)'
      BY <1>1, <1>3 DEF Dirty
    <2> QED BY <1>1, <1>4, <2>1, <2>2
  <1>15. Pulled'
    BY <1>12, <1>13, <1>14 DEF ConvInv, Pulled
  <1>16. ResultsTell'
    <2> SUFFICES ASSUME eng.pc = "apply", NEW f \in Entity, Accepted(f)', Read(f)',
                        NEW o \in eng.batch, made'[o] = f
                 PROVE  (\/ local[f] = srv.row[f] \/ Edited(f)
                         \/ \E r \in eng.results : made[r.op] = f)'
      BY <1>1 DEF ResultsTell
    <2>1. CASE f = e
      BY <1>1, <1>2, <2>1 DEF Edited
    <2>2. CASE f # e
      <3>1. made[o] = f
        BY <1>2, InBatch
      <3>2. \/ local[f] = srv.row[f] \/ Edited(f)
            \/ \E r \in eng.results : made[r.op] = f
        BY <1>12, <1>13, <3>1 DEF ConvInv, ResultsTell
      <3>3. Edited(f) => Edited(f)'
        BY <1>1, <1>3 DEF Edited
      <3>4. \A r \in eng.results : made'[r.op] = made[r.op]
        BY <1>2, InBatch
      <3> QED BY <1>1, <1>4, <2>2, <3>2, <3>3, <3>4
    <2> QED BY <2>1, <2>2
  <1>17. DeltaTells'
    BY <1>1 DEF ConvInv, DeltaTells
  <1>18. MarkTells'
    BY <1>1, <1>12, <1>14 DEF ConvInv, MarkTells
  <1> QED BY <1>7, <1>9, <1>10, <1>11, <1>15, <1>16, <1>17, <1>18 DEF ConvInv

\* Another device's write changes one row, later than anything this device read.
LEMMA ConvRemoteWrite ==
    ASSUME ConvInv, IInv', NEW e \in Entity, RemoteWrite(e)
    PROVE  ConvInv'
  <1> DEFINE n == NextOp
             x == [by |-> Owner[e],
                   verdict |-> [op |-> n, status |-> "applied", rec |-> n]]
             moved == [srv EXCEPT !.log[n] = x, !.row[e] = n, !.owner[e] = Owner[e],
                                  !.upd[e] = srv.time + 1, !.time = srv.time + 1]
  <1>1. /\ UNCHANGED <<pending, local, since, eng, wire, seen>>
        /\ Makes(n, e) /\ srv' = moved
    BY DEF RemoteWrite, device, Makes
  <1>2. x.by = Owner[e] /\ x.verdict.rec = n
    OBVIOUS
  <1> HIDE DEF n, x
  <1>3. /\ n \in Op /\ made[n] = None /\ srv.log[n] = None /\ MadeKept
        /\ made'[n] = e /\ by'[n] = Owner[e]
        /\ \A o \in Op : o # n => made'[o] = made[o] /\ by'[o] = by[o]
        /\ n \notin pending /\ n \notin eng.batch
        /\ \A w \in wire : n \notin w.todo
        /\ \A o \in Op : made'[o] # None <=> o < NextOp'
    BY <1>1, MakesOK
  <1>4. srv \in SrvType /\ srv.time \in Nat /\ n # 0
    BY <1>3, EngAt DEF Op
  <1>5. /\ moved.log = [srv.log EXCEPT ![n] = x]
        /\ moved.row = [srv.row EXCEPT ![e] = n]
        /\ moved.upd = [srv.upd EXCEPT ![e] = srv.time + 1]
        /\ moved.owner = [srv.owner EXCEPT ![e] = Owner[e]]
        /\ moved.time = srv.time + 1
    BY <1>4 DEF SrvType
  <1> HIDE DEF moved
  <1>6. \A o \in Op : srv'.log[o] = IF o = n THEN x ELSE srv.log[o]
    BY <1>1, <1>3, <1>4, <1>5 DEF SrvType
  <1>7. RowMoved(e) /\ \A f \in Entity \ {e} : RowKept(f)
    BY <1>1, <1>4, <1>5 DEF RowMoved, RowKept, SrvType
  <1>8. ServerMoves
    <2>1. srv.time <= srv'.time
      BY <1>1, <1>4, <1>5
    <2>2. \A o \in Op : srv.log[o] # None => srv'.log[o] = srv.log[o]
      BY <1>3, <1>6
    <2>3. \A f \in Entity : RowKept(f) \/ RowMoved(f)
      BY <1>7
    <2> QED BY <2>1, <2>2, <2>3 DEF ServerMoves
  <1>9. SamePost
    BY <1>1 DEF SamePost
  <1>10. \A o \in pending : made'[o] = made[o] /\ by'[o] = by[o] /\ o # n /\ o \in Op
    BY <1>3, InBatch
  <1>11. Numbered'
    <2>1. \A o \in Op : made'[o] # None => by'[o] = Owner[made'[o]]
      BY <1>3 DEF ConvInv, Numbered
    <2>2. \A o \in Op : srv'.log[o] # None => made'[o] # None /\ srv'.log[o].by = by'[o]
      BY <1>2, <1>3, <1>6 DEF ConvInv, Numbered
    <2>3. \A o \in eng.batch : by'[o] = eng.user
      BY <1>3, InBatch DEF ConvInv, Numbered
    <2>4. \A w \in wire : \A o \in w.todo : by'[o] = w.sender
      <3>1. \A w \in wire : w.todo \subseteq Op
        BY DEF ConvInv, IInv, TypeOK
      <3> QED BY <1>3, <3>1 DEF ConvInv, Numbered
    <2>5. \A f \in Entity : srv'.owner[f] # None => srv'.owner[f] = Owner[f]
      BY <1>7 DEF RowKept, RowMoved, ConvInv, Numbered
    <2> QED BY <1>1, <1>3, <2>1, <2>2, <2>3, <2>4, <2>5 DEF ConvInv, Numbered
  <1>12. Verdicts'
    <2>1. \A o \in pending : (srv'.log[o] # None /\ srv'.log[o].verdict.status # "rejected")
             => ShowsNext(srv'.log[o].verdict, made[o])
      <3> SUFFICES ASSUME NEW o \in pending, srv'.log[o] # None,
                          srv'.log[o].verdict.status # "rejected"
                   PROVE  ShowsNext(srv'.log[o].verdict, made[o])
        OBVIOUS
      <3>1. srv'.log[o] = srv.log[o]
        BY <1>6, <1>10
      <3>2. Shows(srv.log[o].verdict, made[o])
        BY <3>1 DEF ConvInv, Verdicts
      <3>3. ShowsNext(srv.log[o].verdict, made[o])
        BY <1>1, <1>8, <3>2, InBatch, ShowsStill
      <3> QED BY <3>1, <3>3
    <2>2. ASSUME NEW r \in eng.results
          PROVE  /\ srv'.log[r.op] # None
                 /\ r.status = srv'.log[r.op].verdict.status
                 /\ r.status # "rejected" => ShowsNext(r, made[r.op])
                 /\ made'[r.op] = made[r.op]
      <3>1. r.op \in Op /\ made[r.op] \in Entity /\ r.op # n
        BY <1>3, InBatch
      <3>2. /\ srv.log[r.op] # None /\ r.status = srv.log[r.op].verdict.status
            /\ r.status # "rejected" => Shows(r, made[r.op])
        BY DEF ConvInv, Verdicts
      <3>3. srv'.log[r.op] = srv.log[r.op]
        BY <1>6, <3>1
      <3>4. r.status # "rejected" => ShowsNext(r, made[r.op])
        BY <1>1, <1>8, <3>1, <3>2, ShowsStill
      <3> QED BY <1>3, <3>1, <3>2, <3>3, <3>4
    <2> QED BY <1>1, <1>10, <2>1, <2>2 DEF Verdicts, Shows, ShowsNext
  <1>13. Repeated'
    <2>1. \A o \in pending : OnItsWay(o)' => OnItsWay(o)
      BY <1>1, <1>6, <1>10 DEF OnItsWay
    <2> QED BY <1>1, <1>9, <1>10, <2>1, RepeatedStep
  <1>14. Clocked' /\ Pulled' /\ ResultsTell' /\ DeltaTells' /\ MarkTells'
    BY <1>1, <1>3, <1>8, <1>9, ClockStep, RowsStep
  <1> QED BY <1>11, <1>12, <1>13, <1>14 DEF ConvInv

----------------------------------------------------------------------------
(* The theorem *)

\* It holds at the start.
LEMMA ConvInit == Init => ConvInv
  <1> SUFFICES ASSUME Init PROVE ConvInv
    OBVIOUS
  <1>1. IInv
    BY InitIInv
  <1>2. /\ pending = {} /\ wire = {} /\ eng.pc = "idle" /\ eng.batch = {} /\ eng.todo = {}
        /\ eng.results = {}
    BY DEF Init, Off
  <1>3. /\ \A e \in Entity : local[e] = 0 /\ srv.row[e] = 0 /\ srv.upd[e] = 0
                             /\ srv.owner[e] = None
        /\ \A o \in Op : srv.log[o] = None /\ made[o] = None
        /\ \A u \in User : since[u] = None /\ seen[u].first = 0 /\ seen[u].last = 0
        /\ srv.time = 1
    BY DEF Init
  <1>4. NextOp = 1
    <2>1. {o \in Op : made[o] # None} = {}
      BY <1>3
    <2>2. Cardinality({}) = 0
      BY FS_EmptySet
    <2>3. NextOp = Cardinality({}) + 1
      BY <2>1 DEF NextOp
    <2> QED BY <2>2, <2>3
  <1>5. Numbered
    <2>1. \A o \in Op : ~(o < 1)
      BY DEF Op
    <2> QED BY <1>2, <1>3, <1>4, <2>1 DEF Numbered
  <1>6. Repeated /\ Verdicts
    BY <1>2 DEF Repeated, Verdicts
  <1>7. Clocked
    BY <1>2, <1>3 DEF Clocked
  <1>8. Pulled /\ ResultsTell /\ DeltaTells /\ MarkTells
    BY <1>2, <1>3 DEF Pulled, ResultsTell, DeltaTells, MarkTells
  <1> QED BY <1>1, <1>5, <1>6, <1>7, <1>8 DEF ConvInv

\* Every step within one session keeps it.
LEMMA StepConvInv == ConvInv /\ OneSession /\ [Next]_vars => ConvInv'
  <1> SUFFICES ASSUME ConvInv, OneSession, [Next]_vars PROVE ConvInv'
    OBVIOUS
  <1>1. IInv'
    BY StepIInv DEF ConvInv
  <1>2. CASE App \/ Resume \/ RadioDown \/ RadioUp \/ RadioStillUp
             \/ (\E u \in User : Login(u)) \/ AuthNotifies \/ Logout
    BY <1>1, <1>2, CalmController
  <1>3. CASE FlushResumes
    BY <1>1, <1>3, CalmFlush
  <1>4. CASE Kill \/ \E kind \in Faults : Fail(kind)
    BY <1>1, <1>4, CalmFaults
  <1>5. CASE Peek
    BY <1>1, <1>5, ConvPeek
  <1>6. CASE Send
    BY <1>1, <1>6, ConvSend
  <1>7. CASE ApplyResult
    BY <1>1, <1>7, ConvApplyResult
  <1>8. CASE RemovePending
    BY <1>1, <1>8, ConvRemovePending
  <1>9. CASE ApplyDelta
    BY <1>1, <1>9, ConvApplyDelta
  <1>10. CASE Mark
    BY <1>1, <1>10, ConvMark
  <1>11. CASE Serve
    BY <1>1, <1>11, ConvServe
  <1>12. CASE Respond
    BY <1>1, <1>12, ConvRespond
  <1>13. CASE \E w \in wire : Late(w)
    BY <1>1, <1>13, ConvLate
  <1>14. CASE \E e \in Entity : LocalWrite(e) \/ RemoteWrite(e)
    BY <1>1, <1>14, ConvLocalWrite, ConvRemoteWrite
  <1>15. CASE UNCHANGED vars
    BY <1>1, <1>15, CalmStep DEF vars
  <1> QED BY <1>2, <1>3, <1>4, <1>5, <1>6, <1>7, <1>8, <1>9, <1>10, <1>11, <1>12, <1>13,
             <1>14, <1>15 DEF Next, Engine, Environment

\* With an empty queue nothing is dirty.
LEMMA PulledIsConverged == ConvInv => Converged
  <1> SUFFICES ASSUME ConvInv, NEW u \in User, NEW e \in Entity, AtRest(u), Owner[e] = u,
                      Accepted(e), seen[u].first < srv.upd[e], srv.upd[e] <= seen[u].last
               PROVE  local[e] = srv.row[e]
    BY DEF Converged
  <1>1. local[e] = srv.row[e] \/ Dirty(e)
    BY DEF ConvInv, Pulled, Read
  <1>2. ASSUME NEW o \in pending, made[o] = e PROVE FALSE
    <2>1. by[o] = u
      BY <1>2, InBatch DEF ConvInv, Numbered
    <2> QED BY <2>1 DEF AtRest, Queue
  <1> QED BY <1>1, <1>2 DEF Dirty

\* At rest the device shows every row the server changed between the first pull
\* and the last, however results, deltas, edits, lost answers and deaths of the
\* app were interleaved, as long as a flush is not carried over to another
\* session: the POST leaves with the token of the session of that moment
\* (sync_engine.dart), and with another one the answer is another user's.
THEOREM DeviceConverges == (Spec /\ []OneSession) => []Converged
  <1>1. ConvInv /\ OneSession /\ [Next]_vars => ConvInv'
    BY StepConvInv
  <1> QED BY <1>1, ConvInit, PulledIsConverged, PTL DEF Spec

\* With one account there is no other token to send.
LEMMA OneAccountOneSession ==
    ASSUME \A u, v \in User : u = v
    PROVE  IInv => OneSession
  BY DEF IInv, OneFlush, OneSession

\* A device that only ever serves one account converges without more: a logout and
\* a login in the middle of a flush change nothing, the token is the same user's.
THEOREM OneAccountConverges ==
    ASSUME \A u, v \in User : u = v
    PROVE  Spec => []Converged
  <1>1. IInv => OneSession
    BY OneAccountOneSession
  <1>2. ConvInv /\ [Next]_vars => ConvInv'
    BY <1>1, StepConvInv DEF ConvInv
  <1> QED BY <1>2, ConvInit, PulledIsConverged, PTL DEF Spec

=============================================================================
