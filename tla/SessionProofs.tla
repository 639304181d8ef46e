---------------------------- MODULE SessionProofs ----------------------------
(***************************************************************************)
(* What the sessions guarantee for any number of devices, requests, tokens   *)
(* and failures.  The first half: nobody waits for a refresh that nobody is   *)
(* doing, and while nothing overlaps or is cut short one token at most can be *)
(* exchanged.  The second: while nothing is lost, cut or late a device that   *)
(* is signed in holds a token the server exchanges, and one that signed out   *)
(* holds none.                                                               *)
(***************************************************************************)
EXTENDS Session, FiniteSetTheorems, TLAPS

(***************************************************************************)
(* RefreshIsUnderWay is not inductive: an answer must find the thread that   *)
(* waits for it, and no second answer may come to it.                        *)
(***************************************************************************)
Holding == {"rotating", "store", "clear"}
Awaits  == [login |-> "entering", refresh |-> "rotating", logout |-> "leaving"]
Apart   == ThreadPc \ (Holding \cup {"entering", "leaving"})

Waiting ==
    /\ \A r \in Req : req[r].pc = "free" => req[r].from = Nobody
    /\ \A p \in Thread : thr[p].pc \in Holding => flight[Dev(p)] = p
    /\ \A d \in Device : flight[d] # Nobody =>
          Dev(flight[d]) = d /\ thr[flight[d]].pc \in Holding
    /\ \A p \in Thread : thr[p].pc = "rotating" => \E r \in Req : req[r].from = p
    /\ \A r \in Req : req[r].from # Nobody => thr[req[r].from].pc = Awaits[req[r].kind]
    /\ \A r, s \in Req : req[r].from = req[s].from /\ req[r].from # Nobody => r = s

(***************************************************************************)
(* The bound on tokens is kept: every request that may still make one was    *)
(* counted when it was posted.                                               *)
(***************************************************************************)
Owing   == {"auth", "take", "user", "prev", "drop", "record"}
Owers   == {r \in Req : req[r].pc \in Owing}
Counted ==
    /\ minted + Cardinality(Owers) <= MaxToken
    /\ \A r \in Owers : req[r].kind # "logout"

(***************************************************************************)
(* Nor is AloneOneLive: what issue and logout know of the tokens between     *)
(* their calls of the key-value store, when they are alone.                  *)
(***************************************************************************)
Settles(q, tokens, s) ==
    /\ q.pc # "index" => tokens \subseteq {s}
    /\ q.pc = "drop" => tokens \subseteq {q.prev}
    /\ q.pc \in {"record", "unindex"} => tokens = {}
    /\ q.pc = "index" => tokens \subseteq {q.new}
    /\ q.pc = "current" => q.tok \notin tokens

Alone ==
    "cut" \notin mishaps =>
        /\ \A r, s \in Busy : r = s
        /\ Busy = {} => rec \subseteq {sess}
        /\ \A r \in Busy : Settles(req[r], rec, sess)

IInv == TypeOK /\ Waiting /\ Counted /\ Alone

USE SessionAssumption

----------------------------------------------------------------------------
(* Threads, requests and their counts *)

LEMMA Threads ==
    /\ Nobody \notin Thread
    /\ \A p \in Thread : Dev(p) \in Device /\ p[2] \in {"ui", "sync"}
    /\ \A d \in Device : Ui(d) \in Thread /\ Dev(Ui(d)) = d
  BY DEF Thread, Dev, Ui, Nobody

LEMMA FreeType == Free \in Request /\ Free.pc = "free" /\ Free.from = Nobody
  BY DEF Free, Request, ServerPc

LEMMA RestType == Rest \in Local /\ Rest.pc = "idle"
  BY DEF Rest, At0, Local, ThreadPc

LEMMA At0Type ==
    ASSUME NEW pc \in ThreadPc, NEW t \in Token \cup {NoToken}
    PROVE  At0(pc, t) \in Local /\ At0(pc, t).pc = pc
  BY DEF At0, Local

LEMMA Slot ==
    ASSUME TypeOK, NEW r \in Req, NEW q \in Request, req' = [req EXCEPT ![r] = q]
    PROVE  /\ req' \in [Req -> Request]
           /\ req'[r] = q
           /\ \A s \in Req \ {r} : req'[s] = req[s]
  BY DEF TypeOK

LEMMA Turned ==
    ASSUME TypeOK, NEW p \in Thread, NEW l \in Local, thr' = [thr EXCEPT ![p] = l]
    PROVE  /\ thr' \in [Thread -> Local]
           /\ thr'[p] = l
           /\ \A o \in Thread \ {p} : thr'[o] = thr[o]
  BY DEF TypeOK

LEMMA OwersFinite ==
    /\ IsFiniteSet(Owers) /\ Cardinality(Owers) \in Nat
  <1>1. Owers \in SUBSET Req
    BY DEF Owers
  <1> QED BY <1>1, FS_Subset, FS_CardinalityType

\* How many requests may still make a token, after one of them moved.
LEMMA OwersCount ==
    ASSUME NEW r \in Req, \A s \in Req \ {r} : req'[s] = req[s]
    PROVE  /\ Cardinality(Owers) \in Nat /\ Cardinality(Owers') \in Nat
           /\ Cardinality(Owers') = Cardinality(Owers)
                  + (IF req'[r].pc \in Owing THEN 1 ELSE 0)
                  - (IF req[r].pc \in Owing THEN 1 ELSE 0)
  <1>1. IsFiniteSet(Owers) /\ Cardinality(Owers) \in Nat
    BY OwersFinite
  <1>2. r \in Owers <=> req[r].pc \in Owing
    BY DEF Owers
  <1>3. Owers' = IF req'[r].pc \in Owing THEN Owers \cup {r} ELSE Owers \ {r}
    BY DEF Owers
  <1>4. Cardinality(Owers \cup {r}) = IF r \in Owers THEN Cardinality(Owers)
                                      ELSE Cardinality(Owers) + 1
    BY <1>1, FS_AddElement
  <1>5. Cardinality(Owers \ {r}) = IF r \in Owers THEN Cardinality(Owers) - 1
                                   ELSE Cardinality(Owers)
    BY <1>1, FS_RemoveElement
  <1>6. Cardinality(Owers') \in Nat
    <2>1. Owers' \in SUBSET Req
      BY DEF Owers
    <2> QED BY <2>1, FS_Subset, FS_CardinalityType
  <1> QED BY <1>1, <1>2, <1>3, <1>4, <1>5, <1>6

\* A request that is to make a token finds room for it.
LEMMA RoomLeft ==
    ASSUME IInv, NEW r \in Req, req[r].pc \in Owing
    PROVE  minted + 1 \in Token /\ minted \in Nat
  <1>1. IsFiniteSet(Owers) /\ Cardinality(Owers) \in Nat
    BY OwersFinite
  <1>2. r \in Owers
    BY DEF Owers
  <1>3. Cardinality(Owers) # 0
    BY <1>1, <1>2, FS_EmptySet
  <1>4. minted \in Nat /\ MaxToken \in Nat /\ minted + Cardinality(Owers) <= MaxToken
    BY DEF IInv, TypeOK, Counted
  <1> QED BY <1>1, <1>3, <1>4 DEF Token

----------------------------------------------------------------------------
(* What a step leaves alone *)

\* Nobody's place changes when threads keep away from refreshing, entering and leaving.
LEMMA WaitingKept ==
    ASSUME TypeOK, Waiting, UNCHANGED <<req, flight>>,
           NEW p \in Thread, NEW l \in Local, thr' = [thr EXCEPT ![p] = l],
           thr[p].pc \in Apart, l.pc \in Apart
    PROVE  Waiting'
  <1>1. thr'[p] = l /\ \A o \in Thread \ {p} : thr'[o] = thr[o]
    BY Turned
  <1>2. \A o \in Thread : thr'[o].pc = thr[o].pc
                          \/ (thr'[o].pc \in Apart /\ thr[o].pc \in Apart)
    BY <1>1
  <1>3. \A o \in Thread : thr'[o].pc \in Holding => thr'[o].pc = thr[o].pc
    BY <1>2 DEF Apart
  <1>4. \A o \in Thread : thr[o].pc \in Holding \cup {"entering", "leaving"} =>
                             thr'[o].pc = thr[o].pc
    BY <1>2 DEF Apart
  <1>5. \A r \in Req : req[r].from \in Thread \cup {Nobody}
                       /\ req[r].kind \in {"login", "refresh", "logout"}
    BY DEF TypeOK, Request
  <1>6. \A d \in Device : flight[d] \in Thread \cup {Nobody}
    BY DEF TypeOK
  <1>7. \A k \in {"login", "refresh", "logout"} : Awaits[k] \in Holding \cup {"entering", "leaving"}
    BY DEF Awaits, Holding
  <1>8. \A o \in Thread : thr'[o].pc = "rotating" => thr[o].pc = "rotating"
    BY <1>3 DEF Holding
  <1>9. \A d \in Device : flight[d] # Nobody =>
           Dev(flight[d]) = d /\ thr'[flight[d]].pc \in Holding
    BY <1>4, <1>6 DEF Waiting
  <1>10. \A r \in Req : req[r].from # Nobody => thr'[req[r].from].pc = Awaits[req[r].kind]
    BY <1>4, <1>5, <1>7 DEF Waiting
  <1> QED BY <1>3, <1>8, <1>9, <1>10 DEF Waiting

LEMMA CountedKept ==
    ASSUME Counted, minted' = minted,
           \A r \in Req : req'[r].pc = req[r].pc /\ req'[r].kind = req[r].kind
    PROVE  Counted'
  <1>1. Owers' = Owers /\ \A r \in Owers : r \in Req
    BY DEF Owers
  <1> QED BY <1>1 DEF Counted

LEMMA AloneKept ==
    ASSUME Alone, UNCHANGED <<rec, sess>>, mishaps \subseteq mishaps',
           \A r \in Req : /\ req'[r].pc = req[r].pc /\ req'[r].prev = req[r].prev
                          /\ req'[r].new = req[r].new /\ req'[r].tok = req[r].tok
    PROVE  Alone'
  <1>1. Busy' = Busy /\ \A r \in Busy : r \in Req
    BY DEF Busy
  <1>2. \A r \in Req : Settles(req[r], rec, sess) => Settles(req'[r], rec', sess')
    BY DEF Settles
  <1> QED BY <1>1, <1>2 DEF Alone

\* A thread that is far from refreshing, entering and leaving, moves.
LEMMA ThreadMoves ==
    ASSUME IInv, NEW p \in Thread, NEW l \in Local, thr' = [thr EXCEPT ![p] = l],
           thr[p].pc \in Apart, l.pc \in Apart,
           UNCHANGED <<rec, sess, minted, verified, req, flight>>,
           mishaps \subseteq mishaps', mishaps' \subseteq Mishap, faults' \in 0..MaxFaults,
           store' \in [Device -> Token \cup {NoToken}], phase' \in [Device -> Phase]
    PROVE  IInv'
  <1>1. TypeOK'
    BY Turned DEF IInv, TypeOK
  <1>2. Waiting'
    BY WaitingKept DEF IInv
  <1>3. Counted' /\ Alone'
    BY CountedKept, AloneKept DEF IInv
  <1> QED BY <1>1, <1>2, <1>3 DEF IInv

----------------------------------------------------------------------------
(* The threads of a device *)

\* The type of what every thread's step leaves alone.
LEMMA Kept ==
    ASSUME TypeOK
    PROVE  /\ store \in [Device -> Token \cup {NoToken}] /\ phase \in [Device -> Phase]
           /\ mishaps \subseteq Mishap /\ faults \in 0..MaxFaults
           /\ thr \in [Thread -> Local] /\ flight \in [Device -> Thread \cup {Nobody}]
           /\ NoToken \in Token \cup {NoToken}
  BY DEF TypeOK

LEMMA GoIs ==
    ASSUME TypeOK, NEW p \in Thread, NEW pc \in ThreadPc, Go(p, pc)
    PROVE  \E l \in Local : thr' = [thr EXCEPT ![p] = l] /\ l.pc = pc
  <1> DEFINE l == [thr[p] EXCEPT !.pc = pc]
  <1>1. thr[p] \in Local
    BY DEF TypeOK
  <1>2. l \in Local /\ l.pc = pc
    BY <1>1 DEF Local
  <1>3. thr' = [thr EXCEPT ![p] = l]
    BY DEF Go, TypeOK
  <1> QED BY <1>2, <1>3

LEMMA EndCallIs ==
    ASSUME TypeOK, NEW p \in Thread, NEW outcome \in {"ok", "net", "api"}, EndCall(p, outcome)
    PROVE  /\ \E l \in Local : thr' = [thr EXCEPT ![p] = l] /\ l.pc \in {"idle", "latest", "giveup"}
           /\ phase' \in [Device -> Phase]
  <1>1. Rest \in Local /\ Rest.pc = "idle"
    BY RestType
  <1>2. At0("latest", NoToken) \in Local /\ At0("latest", NoToken).pc = "latest"
        /\ At0("giveup", NoToken) \in Local /\ At0("giveup", NoToken).pc = "giveup"
    <2>1. "latest" \in ThreadPc /\ "giveup" \in ThreadPc /\ NoToken \in Token \cup {NoToken}
      BY DEF ThreadPc
    <2> QED BY <2>1, At0Type
  <1>3. CASE p[2] = "sync"
    BY <1>1, <1>3, Kept DEF EndCall
  <1>4. CASE p[2] # "sync"
    <2>1. phase' \in [Device -> Phase]
      BY <1>4, Kept DEF EndCall, Phase
    <2>2. CASE outcome = "ok"
      BY <1>2, <1>4, <2>1, <2>2 DEF EndCall
    <2>3. CASE outcome = "net"
      BY <1>1, <1>4, <2>1, <2>3 DEF EndCall
    <2>4. CASE outcome = "api"
      BY <1>2, <1>4, <2>1, <2>4 DEF EndCall
    <2> QED BY <2>2, <2>3, <2>4
  <1> QED BY <1>3, <1>4

LEMMA RefreshedIs ==
    ASSUME TypeOK, NEW p \in Thread, NEW b \in BOOLEAN, Refreshed(p, b)
    PROVE  /\ \E l \in Local : /\ thr' = [thr EXCEPT ![p] = l]
                               /\ l.pc \in {"idle", "latest", "giveup", "send", "fresh"}
           /\ phase' \in [Device -> Phase]
  <1>1. thr[p] \in Local /\ thr[p].due \in {"before", "after"}
    BY DEF TypeOK, Local
  <1>2. CASE thr[p].due = "before"
    <2> DEFINE l == [thr[p] EXCEPT !.pc = "send", !.tok = NoToken]
    <2>1. l \in Local /\ l.pc = "send"
      BY <1>1 DEF Local, ThreadPc
    <2>2. thr' = [thr EXCEPT ![p] = l] /\ phase' = phase
      BY <1>2, Kept DEF Refreshed
    <2> QED BY <2>1, <2>2, Kept
  <1>3. CASE thr[p].due = "after" /\ b
    <2> DEFINE l == [At0("fresh", NoToken) EXCEPT !.retry = FALSE]
    <2>1. l \in Local /\ l.pc = "fresh"
      BY DEF At0, Local, ThreadPc
    <2>2. thr' = [thr EXCEPT ![p] = l] /\ phase' = phase
      BY <1>3 DEF Refreshed
    <2> QED BY <2>1, <2>2, Kept
  <1>4. CASE thr[p].due = "after" /\ ~b
    <2>1. EndCall(p, "api")
      BY <1>4 DEF Refreshed
    <2> QED BY <2>1, EndCallIs
  <1> QED BY <1>1, <1>2, <1>3, <1>4

LEMMA SyncStartStep ==
    ASSUME IInv, NEW p \in Thread, SyncStart(p)
    PROVE  IInv'
  <1>1. "fresh" \in ThreadPc /\ "fresh" \in Apart /\ thr[p].pc \in Apart
    BY DEF SyncStart, In, ThreadPc, Apart, Holding
  <1>2. At0("fresh", NoToken) \in Local /\ At0("fresh", NoToken).pc = "fresh"
    BY <1>1, At0Type
  <1> QED BY <1>1, <1>2, Kept, ThreadMoves DEF SyncStart, server, IInv

LEMMA FreshStep ==
    ASSUME IInv, NEW p \in Thread, Fresh(p)
    PROVE  IInv'
  <1>1. thr[p].pc \in Apart /\ {"send", "turn"} \subseteq Apart \cap ThreadPc
    BY DEF Fresh, In, ThreadPc, Apart, Holding
  <1>2. PICK l \in Local : thr' = [thr EXCEPT ![p] = l] /\ l.pc \in {"send", "turn"}
    <2>1. CASE Go(p, "send")
      BY <1>1, <2>1, GoIs DEF IInv
    <2>2. CASE thr' = [thr EXCEPT ![p].pc = "turn", ![p].due = "before"]
      <3> DEFINE l == [thr[p] EXCEPT !.pc = "turn", !.due = "before"]
      <3>1. thr[p] \in Local
        BY DEF IInv, TypeOK
      <3>2. l \in Local /\ l.pc = "turn"
        BY <3>1 DEF Local, ThreadPc
      <3>3. thr' = [thr EXCEPT ![p] = l]
        BY <2>2 DEF IInv, TypeOK
      <3> QED BY <3>2, <3>3
    <2> QED BY <2>1, <2>2 DEF Fresh
  <1> QED BY <1>1, <1>2, Kept, ThreadMoves DEF Fresh, server, IInv

LEMMA WaitStep ==
    ASSUME IInv, NEW p \in Thread, Wait(p)
    PROVE  IInv'
  <1>1. thr[p].pc \in Apart /\ {"idle", "latest", "giveup", "send", "fresh"} \subseteq Apart
    BY DEF Wait, In, ThreadPc, Apart, Holding
  <1>2. (store[Dev(p)] # NoToken) \in BOOLEAN /\ Refreshed(p, store[Dev(p)] # NoToken)
    BY DEF Wait
  <1>3. phase' \in [Device -> Phase]
        /\ \E l \in Local : /\ thr' = [thr EXCEPT ![p] = l]
                            /\ l.pc \in {"idle", "latest", "giveup", "send", "fresh"}
    BY <1>2, RefreshedIs DEF IInv
  <1> QED BY <1>1, <1>3, Kept, ThreadMoves DEF Wait, server, IInv

LEMMA SendStep ==
    ASSUME IInv, NEW p \in Thread, Send(p)
    PROVE  IInv'
  <1>1. thr[p].pc \in Apart /\ {"idle", "latest", "giveup", "turn"} \subseteq Apart
    BY DEF Send, In, ThreadPc, Apart, Holding
  <1>2. phase' \in [Device -> Phase]
        /\ \E l \in Local : /\ thr' = [thr EXCEPT ![p] = l]
                            /\ l.pc \in {"idle", "latest", "giveup", "turn"}
    <2>1. CASE \E outcome \in {"ok", "net", "api"} : EndCall(p, outcome)
      BY <2>1, EndCallIs DEF IInv
    <2>2. CASE thr' = [thr EXCEPT ![p].pc = "turn", ![p].due = "after"] /\ UNCHANGED phase
      <3> DEFINE l == [thr[p] EXCEPT !.pc = "turn", !.due = "after"]
      <3>1. thr[p] \in Local
        BY DEF IInv, TypeOK
      <3>2. l \in Local /\ l.pc = "turn"
        BY <3>1 DEF Local, ThreadPc
      <3>3. thr' = [thr EXCEPT ![p] = l]
        BY <2>2 DEF IInv, TypeOK
      <3> QED BY <2>2, <3>2, <3>3, Kept DEF IInv
    <2> QED BY <2>1, <2>2 DEF Send
  <1> QED BY <1>1, <1>2, Kept, ThreadMoves DEF Send, server, IInv

\* A step of the screens that neither calls nor refreshes.
LEMMA UiMoves ==
    ASSUME IInv, NEW d \in Device, NEW l \in Local, thr' = [thr EXCEPT ![Ui(d)] = l],
           thr[Ui(d)].pc \in {"idle", "latest", "back", "giveup", "wipe", "save", "load"},
           l.pc \in {"idle", "fresh", "back", "load", "wipe"},
           NEW t \in Token \cup {NoToken}, store' = store \/ store' = [store EXCEPT ![d] = t],
           NEW f \in Phase, phase' = phase \/ phase' = [phase EXCEPT ![d] = f],
           mishaps \subseteq mishaps', mishaps' \subseteq Mishap,
           UNCHANGED <<rec, sess, minted, verified, req, flight, faults>>
    PROVE  IInv'
  <1>1. Ui(d) \in Thread
    BY Threads
  <1>2. thr[Ui(d)].pc \in Apart /\ l.pc \in Apart
    BY DEF Apart, ThreadPc, Holding
  <1>3. store' \in [Device -> Token \cup {NoToken}] /\ phase' \in [Device -> Phase]
        /\ faults' \in 0..MaxFaults
    BY Kept DEF IInv
  <1> QED BY <1>1, <1>2, <1>3, ThreadMoves

LEMMA UiSteps ==
    ASSUME IInv, NEW d \in Device, UiStep(d)
    PROVE  IInv'
  <1>1. /\ Rest \in Local /\ Rest.pc = "idle"
        /\ \A pc \in ThreadPc, t \in Token \cup {NoToken} : At0(pc, t) \in Local /\ At0(pc, t).pc = pc
        /\ {"fresh", "back", "load", "wipe", "idle"} \subseteq ThreadPc
        /\ {"guest", "signedIn"} \subseteq Phase
    BY RestType, At0Type DEF ThreadPc, Phase
  <1>2. Ui(d) \in Thread /\ thr[Ui(d)] \in Local
        /\ thr[Ui(d)].tok \in Token \cup {NoToken} /\ store[d] \in Token \cup {NoToken}
        /\ mishaps \subseteq Mishap /\ NoToken \in Token \cup {NoToken}
        /\ thr = [thr EXCEPT ![Ui(d)] = thr[Ui(d)]]
    BY Threads DEF IInv, TypeOK, Local
  <1>3. CASE Restore(d)
    <2>1. /\ thr[Ui(d)].pc = "idle"
          /\ UNCHANGED <<rec, sess, minted, verified, req, store, flight, mishaps, faults>>
      BY <1>3 DEF Restore, In, server
    <2>2. CASE store[d] = NoToken
      <3>1. phase' = [phase EXCEPT ![d] = "guest"] /\ thr' = [thr EXCEPT ![Ui(d)] = thr[Ui(d)]]
        BY <1>2, <1>3, <2>2 DEF Restore
      <3> QED BY <1>1, <1>2, <2>1, <3>1, UiMoves
    <2>3. CASE store[d] # NoToken
      <3>1. phase' = phase /\ thr' = [thr EXCEPT ![Ui(d)] = At0("fresh", NoToken)]
        BY <1>3, <2>3 DEF Restore
      <3> QED BY <1>1, <1>2, <2>1, <3>1, UiMoves
    <2> QED BY <2>2, <2>3
  <1>4. CASE Latest(d)
    <2>1. /\ thr[Ui(d)].pc = "latest"
          /\ UNCHANGED <<rec, sess, minted, verified, req, store, flight, mishaps, faults>>
      BY <1>4 DEF Latest, In, server
    <2>2. CASE store[d] = NoToken
      <3>1. phase' = [phase EXCEPT ![d] = "guest"] /\ thr' = [thr EXCEPT ![Ui(d)] = Rest]
        BY <1>4, <2>2 DEF Latest
      <3> QED BY <1>1, <1>2, <2>1, <3>1, UiMoves
    <2>3. CASE store[d] # NoToken
      <3>1. phase' = phase
        BY <1>4, <2>3 DEF Latest
      <3>2. thr' = [thr EXCEPT ![Ui(d)] = At0("back", store[d])]
        BY <1>4, <2>3 DEF Latest
      <3>3. At0("back", store[d]) \in Local /\ At0("back", store[d]).pc = "back"
        BY <1>1, <1>2
      <3> QED BY <1>1, <1>2, <2>1, <3>1, <3>2, <3>3, UiMoves
    <2> QED BY <2>2, <2>3
  <1>5. CASE WriteBack(d)
    <2>1. /\ thr[Ui(d)].pc = "back"
          /\ UNCHANGED <<rec, sess, minted, verified, req, flight, faults>>
          /\ mishaps \subseteq mishaps' /\ mishaps' \subseteq Mishap
          /\ store' = [store EXCEPT ![d] = thr[Ui(d)].tok]
          /\ phase' = [phase EXCEPT ![d] = "signedIn"]
          /\ thr' = [thr EXCEPT ![Ui(d)] = Rest]
      BY <1>2, <1>5 DEF WriteBack, In, server, Mishap
    <2> QED BY <1>1, <1>2, <2>1, UiMoves
  <1>6. CASE Leave(d)
    <2>1. /\ thr[Ui(d)].pc \in {"giveup", "wipe"}
          /\ UNCHANGED <<rec, sess, minted, verified, req, flight, faults>>
          /\ mishaps \subseteq mishaps' /\ mishaps' \subseteq Mishap
          /\ store' = [store EXCEPT ![d] = NoToken]
          /\ phase' = [phase EXCEPT ![d] = "guest"]
          /\ thr' = [thr EXCEPT ![Ui(d)] = Rest]
      BY <1>2, <1>6 DEF Leave, server, Mishap
    <2> QED BY <1>1, <1>2, <2>1, UiMoves
  <1>7. CASE Save(d)
    <2>1. /\ thr[Ui(d)].pc = "save"
          /\ UNCHANGED <<rec, sess, minted, verified, req, phase, flight, mishaps, faults>>
          /\ store' = [store EXCEPT ![d] = thr[Ui(d)].tok]
      BY <1>7 DEF Save, In, server
    <2>2. PICK l \in Local : thr' = [thr EXCEPT ![Ui(d)] = l] /\ l.pc = "load"
      BY <1>1, <1>2, <1>7, GoIs DEF Save, IInv
    <2> QED BY <1>1, <1>2, <2>1, <2>2, UiMoves
  <1>8. CASE Load(d)
    <2>1. /\ thr[Ui(d)].pc = "load"
          /\ UNCHANGED <<rec, sess, minted, verified, req, store, flight, mishaps, faults>>
          /\ phase' = phase \/ phase' = [phase EXCEPT ![d] = "signedIn"]
          /\ thr' = [thr EXCEPT ![Ui(d)] = Rest]
      BY <1>8 DEF Load, In, server
    <2> QED BY <1>1, <1>2, <2>1, UiMoves
  <1> QED BY <1>3, <1>4, <1>5, <1>6, <1>7, <1>8 DEF UiStep

LEMMA LeavePendingStep ==
    ASSUME IInv, NEW d \in Device, LeavePending(d)
    PROVE  IInv'
  <1>1. Ui(d) \in Thread /\ thr[Ui(d)] \in Local /\ thr' = [thr EXCEPT ![Ui(d)] = thr[Ui(d)]]
        /\ thr[Ui(d)].pc = "idle"
    BY Threads DEF LeavePending, In, IInv, TypeOK
  <1>2. "guest" \in Phase /\ NoToken \in Token \cup {NoToken} /\ mishaps \subseteq Mishap
    BY DEF Phase, IInv, TypeOK
  <1> QED BY <1>1, <1>2, UiMoves DEF LeavePending, server

----------------------------------------------------------------------------
(* The end of a refresh *)

LEMMA ReleaseStep ==
    ASSUME IInv, NEW p \in Thread, NEW b \in BOOLEAN, thr[p].pc \in {"store", "clear"},
           Release(p), Refreshed(p, b),
           UNCHANGED <<rec, sess, minted, verified, req, mishaps, faults>>,
           store' \in [Device -> Token \cup {NoToken}]
    PROVE  IInv'
  <1> DEFINE d == Dev(p)
  <1>1. PICK l \in Local : /\ thr' = [thr EXCEPT ![p] = l]
                           /\ l.pc \in {"idle", "latest", "giveup", "send", "fresh"}
    BY RefreshedIs DEF IInv
  <1>2. phase' \in [Device -> Phase]
    BY RefreshedIs DEF IInv
  <1>3. /\ thr' \in [Thread -> Local] /\ thr'[p] = l
        /\ \A o \in Thread \ {p} : thr'[o] = thr[o]
    BY <1>1, Turned DEF IInv
  <1>4. d \in Device /\ Nobody \notin Thread
    BY Threads
  <1>5. flight[d] = p
    BY DEF IInv, Waiting, Holding
  <1>6. /\ flight' \in [Device -> Thread \cup {Nobody}] /\ flight'[d] = Nobody
        /\ \A e \in Device \ {d} : flight'[e] = flight[e]
    BY <1>4 DEF Release, IInv, TypeOK
  <1>7. TypeOK'
    BY <1>2, <1>3, <1>6 DEF IInv, TypeOK
  <1>8. Waiting'
    <2>1. l.pc \notin Holding
      BY <1>1 DEF Holding
    <2>2. \A o \in Thread : thr'[o].pc \in Holding => flight'[Dev(o)] = o
      <3> SUFFICES ASSUME NEW o \in Thread, thr'[o].pc \in Holding
                   PROVE  flight'[Dev(o)] = o
        OBVIOUS
      <3>1. o # p /\ thr[o].pc \in Holding /\ Dev(o) \in Device
        BY <1>3, <2>1, Threads
      <3>2. flight[Dev(o)] = o
        BY <3>1 DEF IInv, Waiting
      <3> QED BY <1>5, <1>6, <3>1, <3>2
    <2>3. \A e \in Device : flight'[e] # Nobody =>
             Dev(flight'[e]) = e /\ thr'[flight'[e]].pc \in Holding
      <3> SUFFICES ASSUME NEW e \in Device, flight'[e] # Nobody
                   PROVE  Dev(flight'[e]) = e /\ thr'[flight'[e]].pc \in Holding
        OBVIOUS
      <3>1. e # d /\ flight'[e] = flight[e] /\ flight[e] \in Thread
        BY <1>6 DEF IInv, TypeOK
      <3>2. Dev(flight[e]) = e /\ thr[flight[e]].pc \in Holding
        BY <3>1 DEF IInv, Waiting
      <3> QED BY <1>3, <3>1, <3>2
    <2>4. \A o \in Thread : thr'[o].pc = "rotating" => \E r \in Req : req'[r].from = o
      BY <1>3, <2>1 DEF IInv, Waiting, Holding
    <2>5. \A r \in Req : req'[r].from # Nobody => thr'[req'[r].from].pc = Awaits[req'[r].kind]
      <3> SUFFICES ASSUME NEW r \in Req, req[r].from # Nobody
                   PROVE  thr'[req[r].from].pc = Awaits[req[r].kind]
        OBVIOUS
      <3>1. req[r].from \in Thread /\ req[r].kind \in {"login", "refresh", "logout"}
        BY DEF IInv, TypeOK, Request
      <3>2. thr[req[r].from].pc = Awaits[req[r].kind]
        BY DEF IInv, Waiting
      <3>3. Awaits[req[r].kind] \notin {"store", "clear"}
        BY <3>1 DEF Awaits
      <3> QED BY <1>3, <3>1, <3>2, <3>3
    <2>6. req' = req
      OBVIOUS
    <2> QED BY <2>2, <2>3, <2>4, <2>5, <2>6 DEF IInv, Waiting
  <1>9. Counted' /\ Alone'
    BY CountedKept, AloneKept DEF IInv
  <1> QED BY <1>7, <1>8, <1>9 DEF IInv

LEMMA StoreStep ==
    ASSUME IInv, NEW p \in Thread, Store(p) \/ Clear(p)
    PROVE  IInv'
  <1>1. thr[p].tok \in Token \cup {NoToken} /\ NoToken \in Token \cup {NoToken}
        /\ Dev(p) \in Device
    BY Threads DEF IInv, TypeOK, Local
  <1>2. store' \in [Device -> Token \cup {NoToken}]
    BY <1>1, Kept DEF Store, Clear, IInv
  <1>3. CASE Store(p)
    BY <1>2, <1>3, ReleaseStep DEF Store, In, server
  <1>4. CASE Clear(p)
    BY <1>2, <1>4, ReleaseStep DEF Clear, In, server
  <1> QED BY <1>3, <1>4

----------------------------------------------------------------------------
(* A request is posted *)

\* A thread of this kind of request waits for it, and has no other under way.
LEMMA Posted ==
    ASSUME IInv, NEW p \in Thread, NEW kind \in {"login", "refresh", "logout"},
           NEW pc \in {"auth", "take", "revoke"}, kind = "logout" <=> pc = "revoke",
           NEW t \in Token \cup {NoToken}, Post(p, kind, t, pc),
           NEW l \in Local, thr' = [thr EXCEPT ![p] = l],
           thr[p].pc \in Apart, l.pc = Awaits[kind],
           flight' = IF kind = "refresh" THEN [flight EXCEPT ![Dev(p)] = p] ELSE flight,
           kind = "refresh" => flight[Dev(p)] = Nobody,
           mishaps \cup Overlaps \subseteq mishaps', mishaps' \subseteq Mishap,
           UNCHANGED <<rec, sess, minted, verified, store, phase, faults>>
    PROVE  IInv'
  <1> DEFINE q == [Free EXCEPT !.pc = pc, !.kind = kind, !.tok = t, !.from = p]
  <1>1. PICK r \in Req :
          /\ req[r].pc = "free"
          /\ \/ kind = "logout"
             \/ minted + Cardinality({s \in Busy : req[s].kind # "logout"}) < MaxToken
          /\ req' = [req EXCEPT ![r] = q]
    BY DEF Post, On
  <1>2. /\ q \in Request /\ q.pc = pc /\ q.kind = kind /\ q.tok = t /\ q.from = p
    BY DEF Free, Request, ServerPc
  <1> HIDE DEF q
  <1>3. /\ req' \in [Req -> Request] /\ req'[r] = q
        /\ \A s \in Req \ {r} : req'[s] = req[s]
    BY <1>1, <1>2, Slot DEF IInv
  <1>4. /\ thr' \in [Thread -> Local] /\ thr'[p] = l
        /\ \A o \in Thread \ {p} : thr'[o] = thr[o]
    BY Turned DEF IInv
  <1>5. p # Nobody /\ Dev(p) \in Device
    BY Threads
  <1>6. req[r].from = Nobody
    BY <1>1 DEF IInv, Waiting
  <1>7. \A s \in Req : req[s].from # p
    <2> SUFFICES ASSUME NEW s \in Req, req[s].from = p
                 PROVE  FALSE
      OBVIOUS
    <2>1. thr[p].pc = Awaits[req[s].kind] /\ req[s].kind \in {"login", "refresh", "logout"}
      BY <1>5 DEF IInv, Waiting, TypeOK, Request
    <2> QED BY <2>1 DEF Awaits, Apart, Holding
  <1>8. TypeOK'
    <2>1. flight' \in [Device -> Thread \cup {Nobody}]
      BY <1>5 DEF IInv, TypeOK
    <2> QED BY <1>3, <1>4, <2>1 DEF IInv, TypeOK
  <1>9. Waiting'
    <2>1. \A s \in Req : req'[s].pc = "free" => req'[s].from = Nobody
      BY <1>2, <1>3 DEF IInv, Waiting
    <2>2. thr[p].pc \notin Holding
      BY DEF Apart, Holding
    <2>3. l.pc \in Holding <=> kind = "refresh"
      BY DEF Awaits, Holding
    <2>4. \A o \in Thread : thr'[o].pc \in Holding => flight'[Dev(o)] = o
      <3> SUFFICES ASSUME NEW o \in Thread, thr'[o].pc \in Holding
                   PROVE  flight'[Dev(o)] = o
        OBVIOUS
      <3>1. CASE o = p
        BY <1>4, <1>5, <2>3, <3>1 DEF IInv, TypeOK
      <3>2. CASE o # p
        <4>1. flight[Dev(o)] = o /\ Dev(o) \in Device /\ o # Nobody
          BY <1>4, <3>2, Threads DEF IInv, Waiting
        <4> QED BY <1>5, <4>1 DEF IInv, TypeOK
      <3> QED BY <3>1, <3>2
    <2>5. \A e \in Device : flight'[e] # Nobody =>
             Dev(flight'[e]) = e /\ thr'[flight'[e]].pc \in Holding
      <3> SUFFICES ASSUME NEW e \in Device, flight'[e] # Nobody
                   PROVE  Dev(flight'[e]) = e /\ thr'[flight'[e]].pc \in Holding
        OBVIOUS
      <3>1. flight'[e] = flight[e] \/ (kind = "refresh" /\ e = Dev(p) /\ flight'[e] = p)
        BY <1>5 DEF IInv, TypeOK
      <3>2. CASE flight'[e] = flight[e]
        <4>1. flight[e] \in Thread /\ Dev(flight[e]) = e /\ thr[flight[e]].pc \in Holding
          BY <3>2 DEF IInv, TypeOK, Waiting
        <4> QED BY <1>4, <2>2, <3>2, <4>1
      <3>3. CASE kind = "refresh" /\ e = Dev(p) /\ flight'[e] = p
        BY <1>4, <2>3, <3>3
      <3> QED BY <3>1, <3>2, <3>3
    <2>6. \A o \in Thread : thr'[o].pc = "rotating" => \E s \in Req : req'[s].from = o
      <3> SUFFICES ASSUME NEW o \in Thread, thr'[o].pc = "rotating"
                   PROVE  \E s \in Req : req'[s].from = o
        OBVIOUS
      <3>1. CASE o = p
        BY <1>2, <1>3, <3>1
      <3>2. CASE o # p
        <4>1. PICK s \in Req : req[s].from = o
          BY <1>4, <3>2 DEF IInv, Waiting
        <4>2. s # r
          BY <1>6, <4>1, Threads
        <4> QED BY <1>3, <4>1, <4>2
      <3> QED BY <3>1, <3>2
    <2>7. \A s \in Req : req'[s].from # Nobody => thr'[req'[s].from].pc = Awaits[req'[s].kind]
      <3> SUFFICES ASSUME NEW s \in Req, req'[s].from # Nobody
                   PROVE  thr'[req'[s].from].pc = Awaits[req'[s].kind]
        OBVIOUS
      <3>1. CASE s = r
        BY <1>2, <1>3, <1>4, <3>1
      <3>2. CASE s # r
        <4>1. req'[s] = req[s] /\ req[s].from # p /\ req[s].from \in Thread
          BY <1>3, <1>7, <3>2 DEF IInv, TypeOK, Request
        <4> QED BY <1>4, <4>1 DEF IInv, Waiting
      <3> QED BY <3>1, <3>2
    <2>8. \A s, u \in Req : req'[s].from = req'[u].from /\ req'[s].from # Nobody => s = u
      BY <1>2, <1>3, <1>7 DEF IInv, Waiting
    <2> QED BY <2>1, <2>4, <2>5, <2>6, <2>7, <2>8 DEF Waiting
  <1>10. Counted'
    <2>1. /\ Cardinality(Owers) \in Nat /\ Cardinality(Owers') \in Nat
          /\ Cardinality(Owers') = Cardinality(Owers) + (IF pc \in Owing THEN 1 ELSE 0)
                 - (IF req[r].pc \in Owing THEN 1 ELSE 0)
      BY <1>2, <1>3, OwersCount
    <2>2. req[r].pc \notin Owing /\ (pc \in Owing <=> kind # "logout")
      BY <1>1 DEF Owing
    <2>3. minted \in Nat /\ MaxToken \in Nat /\ minted + Cardinality(Owers) <= MaxToken
      BY DEF IInv, TypeOK, Counted
    <2>4. minted + Cardinality(Owers') <= MaxToken
      <3>1. CASE kind = "logout"
        BY <2>1, <2>2, <2>3, <3>1
      <3>2. CASE kind # "logout"
        <4> DEFINE B == {s \in Busy : req[s].kind # "logout"}
        <4>1. B \in SUBSET Req
          BY DEF Busy
        <4>2. IsFiniteSet(B) /\ Cardinality(B) \in Nat
          BY <4>1, FS_Subset, FS_CardinalityType
        <4>3. Owers \in SUBSET B
          BY DEF Owers, Owing, Busy, IInv, Counted
        <4>4. Cardinality(Owers) <= Cardinality(B)
          BY <4>2, <4>3, FS_Subset
        <4>5. minted + Cardinality(B) < MaxToken
          BY <1>1, <3>2
        <4> QED BY <2>1, <2>2, <2>3, <3>2, <4>2, <4>4, <4>5
      <3> QED BY <3>1, <3>2
    <2>5. \A s \in Owers' : req'[s].kind # "logout"
      BY <1>2, <1>3, <2>2 DEF Owers, IInv, Counted
    <2> QED BY <2>4, <2>5 DEF Counted
  <1>11. Alone'
    <2> SUFFICES ASSUME "cut" \notin mishaps'
                 PROVE  /\ \A s, u \in Busy' : s = u
                        /\ Busy' = {} => rec \subseteq {sess}
                        /\ \A s \in Busy' : Settles(req'[s], rec, sess)
      BY DEF Alone, Settles
    <2>1. Busy = {} /\ "cut" \notin mishaps
      BY DEF Overlaps
    <2>2. rec \subseteq {sess}
      BY <2>1 DEF IInv, Alone
    <2>3. Busy' = {r}
      BY <1>2, <1>3, <2>1 DEF Busy
    <2>4. Settles(q, rec, sess)
      BY <1>2, <2>2 DEF Settles
    <2> QED BY <1>3, <2>2, <2>3, <2>4
  <1> QED BY <1>8, <1>9, <1>10, <1>11 DEF IInv

LEMMA TurnStep ==
    ASSUME IInv, NEW p \in Thread, Turn(p)
    PROVE  IInv'
  <1> DEFINE d == Dev(p)
  <1>1. /\ thr[p].pc = "turn" /\ d \in Device
        /\ UNCHANGED <<rec, sess, minted, verified, store, faults>>
    BY Threads DEF Turn, In, server
  <1>2. thr[p].pc \in Apart /\ {"wait", "idle", "latest", "giveup", "send", "fresh"} \subseteq Apart
        /\ {"wait", "rotating"} \subseteq ThreadPc
    BY <1>1 DEF Apart, ThreadPc, Holding
  <1>3. CASE Go(p, "wait") /\ UNCHANGED <<req, flight, phase, mishaps>>
    <2>1. PICK l \in Local : thr' = [thr EXCEPT ![p] = l] /\ l.pc = "wait"
      BY <1>2, <1>3, GoIs DEF IInv
    <2> QED BY <1>1, <1>2, <1>3, <2>1, Kept, ThreadMoves DEF IInv
  <1>4. CASE /\ flight[d] = Nobody /\ store[d] # NoToken
             /\ flight' = [flight EXCEPT ![d] = p]
             /\ Post(p, "refresh", store[d], "take")
             /\ mishaps' = mishaps \cup Overlaps
             /\ Go(p, "rotating")
             /\ UNCHANGED phase
    <2>1. PICK l \in Local : thr' = [thr EXCEPT ![p] = l] /\ l.pc = "rotating"
      BY <1>2, <1>4, GoIs DEF IInv
    <2>2. store[d] \in Token \cup {NoToken} /\ mishaps' \subseteq Mishap
      BY <1>1, <1>4 DEF IInv, TypeOK, Overlaps, Mishap
    <2>3. Awaits["refresh"] = "rotating"
      BY DEF Awaits
    <2> QED BY <1>1, <1>2, <1>4, <2>1, <2>2, <2>3, Posted
  <1>5. CASE Refreshed(p, FALSE) /\ UNCHANGED <<req, flight, mishaps>>
    <2>1. phase' \in [Device -> Phase]
          /\ \E l \in Local : /\ thr' = [thr EXCEPT ![p] = l]
                              /\ l.pc \in {"idle", "latest", "giveup", "send", "fresh"}
      BY <1>5, RefreshedIs DEF IInv
    <2> QED BY <1>1, <1>2, <1>5, <2>1, Kept, ThreadMoves DEF IInv
  <1> QED BY <1>3, <1>4, <1>5 DEF Turn

LEMMA LoginStep ==
    ASSUME IInv, NEW d \in Device, Login(d)
    PROVE  IInv'
  <1>1. /\ Ui(d) \in Thread /\ thr[Ui(d)].pc = "idle"
        /\ Post(Ui(d), "login", NoToken, "auth") /\ Go(Ui(d), "entering")
        /\ UNCHANGED <<rec, sess, minted, verified, store, phase, flight, faults>>
        /\ mishaps \cup Overlaps \subseteq mishaps' /\ mishaps' \subseteq Mishap
    BY Threads DEF Login, In, server, Overlaps, Mishap, IInv, TypeOK
  <1>2. thr[Ui(d)].pc \in Apart /\ "entering" \in ThreadPc
        /\ Awaits["login"] = "entering" /\ NoToken \in Token \cup {NoToken}
    BY <1>1 DEF Apart, ThreadPc, Holding, Awaits
  <1>3. PICK l \in Local : thr' = [thr EXCEPT ![Ui(d)] = l] /\ l.pc = "entering"
    BY <1>1, <1>2, GoIs DEF IInv
  <1> QED BY <1>1, <1>2, <1>3, Posted

LEMMA LogoutStep ==
    ASSUME IInv, NEW d \in Device, Logout(d)
    PROVE  IInv'
  <1>1. /\ Ui(d) \in Thread /\ thr[Ui(d)].pc = "idle" /\ store[d] \in Token \cup {NoToken}
        /\ UNCHANGED <<rec, sess, minted, verified, store, phase, flight, faults>>
    BY Threads DEF Logout, In, server, IInv, TypeOK
  <1>2. thr[Ui(d)].pc \in Apart /\ {"leaving", "wipe"} \subseteq ThreadPc
        /\ Awaits["logout"] = "leaving" /\ "signedIn" \in Phase /\ NoToken \in Token \cup {NoToken}
    BY <1>1 DEF Apart, ThreadPc, Holding, Awaits, Phase
  <1>3. CASE store[d] = NoToken
    <2>1. Go(Ui(d), "wipe") /\ UNCHANGED <<req, mishaps>>
      BY <1>3 DEF Logout
    <2>2. PICK l \in Local : thr' = [thr EXCEPT ![Ui(d)] = l] /\ l.pc = "wipe"
      BY <1>1, <1>2, <2>1, GoIs DEF IInv
    <2>3. mishaps \subseteq Mishap
      BY DEF IInv, TypeOK
    <2> QED BY <1>1, <1>2, <2>1, <2>2, <2>3, UiMoves
  <1>4. CASE store[d] # NoToken
    <2>1. /\ Post(Ui(d), "logout", store[d], "revoke") /\ Go(Ui(d), "leaving")
          /\ mishaps \cup Overlaps \subseteq mishaps' /\ mishaps' \subseteq Mishap
      BY <1>4 DEF Logout, Overlaps, Mishap, IInv, TypeOK
    <2>2. PICK l \in Local : thr' = [thr EXCEPT ![Ui(d)] = l] /\ l.pc = "leaving"
      BY <1>1, <1>2, <2>1, GoIs DEF IInv
    <2> QED BY <1>1, <1>2, <2>1, <2>2, Posted
  <1> QED BY <1>3, <1>4

----------------------------------------------------------------------------
(* The server *)

LEMMA Budget ==
    ASSUME NEW m \in Nat, NEW n \in Nat, NEW c \in Nat, NEW e \in Nat, NEW i \in Nat, NEW j \in Nat,
           n + i <= m + j, e = c + i - j, m + c <= MaxToken
    PROVE  n + e <= MaxToken
  OBVIOUS

\* A step of a request that is under way: nobody's place changes.
LEMMA Serves ==
    ASSUME IInv, NEW r \in Req, NEW q \in Request, req' = [req EXCEPT ![r] = q],
           req[r].pc # "free", q.pc # "free", q.from = req[r].from, q.kind = req[r].kind,
           minted' \in Nat,
           minted' + (IF q.pc \in Owing THEN 1 ELSE 0)
               <= minted + (IF req[r].pc \in Owing THEN 1 ELSE 0),
           q.pc \in Owing => req[r].pc \in Owing,
           rec' \subseteq Token, sess' \in Token \cup {NoToken},
           mishaps \subseteq mishaps', mishaps' \subseteq Mishap, faults' \in 0..MaxFaults,
           UNCHANGED <<verified, store, phase, thr, flight>>,
           "cut" \notin mishaps' => Settles(q, rec', sess')
    PROVE  IInv'
  <1>1. /\ req' \in [Req -> Request] /\ req'[r] = q
        /\ \A s \in Req \ {r} : req'[s] = req[s]
    BY Slot DEF IInv
  <1>2. Counted' /\ minted' \in 0..MaxToken
    <2>1. /\ Cardinality(Owers) \in Nat /\ Cardinality(Owers') \in Nat
          /\ Cardinality(Owers') = Cardinality(Owers) + (IF q.pc \in Owing THEN 1 ELSE 0)
                 - (IF req[r].pc \in Owing THEN 1 ELSE 0)
      BY <1>1, OwersCount
    <2>2. minted \in Nat /\ MaxToken \in Nat /\ minted + Cardinality(Owers) <= MaxToken
      BY DEF IInv, TypeOK, Counted
    <2>3. minted' + Cardinality(Owers') <= MaxToken
      <3> DEFINE i == IF q.pc \in Owing THEN 1 ELSE 0
                 j == IF req[r].pc \in Owing THEN 1 ELSE 0
      <3>1. i \in Nat /\ j \in Nat /\ minted' + i <= minted + j
        OBVIOUS
      <3>2. Cardinality(Owers') = Cardinality(Owers) + i - j
        BY <2>1
      <3> HIDE DEF i, j
      <3> QED BY <2>1, <2>2, <3>1, <3>2, Budget
    <2>4. \A s \in Owers' : req'[s].kind # "logout"
      BY <1>1 DEF Owers, IInv, Counted
    <2> QED BY <2>1, <2>2, <2>3, <2>4 DEF Counted
  <1>3. TypeOK'
    BY <1>1, <1>2 DEF IInv, TypeOK
  <1>4. Waiting'
    <2>1. \A s \in Req : req'[s].from = req[s].from /\ req'[s].kind = req[s].kind
      BY <1>1
    <2>2. \A s \in Req : req'[s].pc = "free" => req'[s].from = Nobody
      BY <1>1 DEF IInv, Waiting
    <2> QED BY <2>1, <2>2 DEF IInv, Waiting
  <1>5. Alone'
    <2> SUFFICES ASSUME "cut" \notin mishaps'
                 PROVE  /\ \A s, u \in Busy' : s = u
                        /\ Busy' = {} => rec' \subseteq {sess'}
                        /\ \A s \in Busy' : Settles(req'[s], rec', sess')
      BY DEF Alone, Settles
    <2>1. r \in Busy /\ Busy' = Busy
      BY <1>1 DEF Busy
    <2>2. \A s \in Busy : s = r
      BY <2>1 DEF IInv, Alone
    <2> QED BY <1>1, <2>1, <2>2
  <1> QED BY <1>2, <1>3, <1>4, <1>5 DEF IInv

\* What a request knows when it is alone.
LEMMA Knows ==
    ASSUME IInv, NEW r \in Req, req[r].pc # "free", "cut" \notin mishaps
    PROVE  Settles(req[r], rec, sess)
  <1>1. r \in Busy
    BY DEF Busy
  <1> QED BY <1>1 DEF IInv, Alone

LEMMA StepIs ==
    ASSUME TypeOK, NEW r \in Req, NEW pc \in ServerPc, Step(r, pc)
    PROVE  \E q \in Request :
           /\ req' = [req EXCEPT ![r] = q]
           /\ q.pc = pc /\ q.from = req[r].from /\ q.kind = req[r].kind /\ q.tok = req[r].tok
           /\ q.prev = req[r].prev /\ q.new = req[r].new
  <1> DEFINE q == [req[r] EXCEPT !.pc = pc]
  <1>1. req[r] \in Request
    BY DEF TypeOK
  <1>2. /\ q \in Request /\ q.pc = pc /\ q.from = req[r].from /\ q.kind = req[r].kind
        /\ q.tok = req[r].tok /\ q.prev = req[r].prev /\ q.new = req[r].new
    BY <1>1 DEF Request
  <1>3. req' = [req EXCEPT ![r] = q]
    BY DEF Step, TypeOK
  <1> QED BY <1>2, <1>3

LEMMA ReplyIs ==
    ASSUME TypeOK, NEW r \in Req, NEW b \in BOOLEAN, Reply(r, b)
    PROVE  \E q \in Request :
           /\ req' = [req EXCEPT ![r] = q]
           /\ q.pc = "answer" /\ q.from = req[r].from /\ q.kind = req[r].kind
  <1> DEFINE q == [req[r] EXCEPT !.pc = "answer", !.ok = b, !.tok = NoToken, !.prev = NoToken]
  <1>1. req[r] \in Request
    BY DEF TypeOK
  <1>2. q \in Request /\ q.pc = "answer" /\ q.from = req[r].from /\ q.kind = req[r].kind
    BY <1>1 DEF Request, ServerPc
  <1>3. req' = [req EXCEPT ![r] = q]
    BY DEF Reply, TypeOK
  <1> QED BY <1>2, <1>3

\* A request is answered.
LEMMA Replies ==
    ASSUME IInv, NEW r \in Req, NEW b \in BOOLEAN, Reply(r, b), req[r].pc # "free",
           rec' \subseteq Token, sess' \in Token \cup {NoToken}, minted' = minted,
           mishaps \subseteq mishaps', mishaps' \subseteq Mishap, faults' \in 0..MaxFaults,
           UNCHANGED <<verified, store, phase, thr, flight>>,
           "cut" \notin mishaps' => rec' \subseteq {sess'}
    PROVE  IInv'
  <1>1. PICK q \in Request :
          /\ req' = [req EXCEPT ![r] = q]
          /\ q.pc = "answer" /\ q.from = req[r].from /\ q.kind = req[r].kind
    BY ReplyIs DEF IInv
  <1>2. q.pc \notin Owing
    BY <1>1 DEF Owing
  <1>3. minted \in Nat
    BY DEF IInv, TypeOK
  <1>4. "cut" \notin mishaps' => Settles(q, rec', sess')
    BY <1>1 DEF Settles
  <1>5. q.pc # "free"
    BY <1>1
  <1>6. minted' \in Nat /\ minted' + (IF q.pc \in Owing THEN 1 ELSE 0)
           <= minted + (IF req[r].pc \in Owing THEN 1 ELSE 0)
    BY <1>2, <1>3
  <1> QED BY <1>1, <1>2, <1>4, <1>5, <1>6, Serves

\* A request goes on to its next call, with the tokens as they were or fewer of them.
LEMMA Proceeds ==
    ASSUME IInv, NEW r \in Req, NEW pc \in ServerPc, Step(r, pc),
           req[r].pc # "free", pc # "free", pc \in Owing => req[r].pc \in Owing,
           rec' \subseteq Token, sess' = sess, minted' = minted,
           UNCHANGED <<verified, store, phase, thr, flight, mishaps, faults>>,
           \A q \in Request : /\ "cut" \notin mishaps /\ q.pc = pc
                              /\ q.tok = req[r].tok /\ q.prev = req[r].prev /\ q.new = req[r].new
                              => Settles(q, rec', sess)
    PROVE  IInv'
  <1>1. PICK q \in Request :
          /\ req' = [req EXCEPT ![r] = q]
          /\ q.pc = pc /\ q.from = req[r].from /\ q.kind = req[r].kind /\ q.tok = req[r].tok
          /\ q.prev = req[r].prev /\ q.new = req[r].new
    BY StepIs DEF IInv
  <1>2. minted \in Nat /\ sess \in Token \cup {NoToken}
        /\ mishaps \subseteq Mishap /\ faults \in 0..MaxFaults
    BY DEF IInv, TypeOK
  <1>3. "cut" \notin mishaps' => Settles(q, rec', sess')
    BY <1>1
  <1>4. minted' + (IF q.pc \in Owing THEN 1 ELSE 0)
           <= minted + (IF req[r].pc \in Owing THEN 1 ELSE 0)
    BY <1>1, <1>2
  <1> QED BY <1>1, <1>2, <1>3, <1>4, Serves

LEMMA LoginSteps ==
    ASSUME IInv, NEW r \in Req, Auth(r) \/ Take(r) \/ CheckUser(r)
    PROVE  IInv'
  <1>1. /\ req[r].pc \in {"auth", "take", "user"}
        /\ rec' \subseteq rec
        /\ UNCHANGED <<sess, minted, verified, store, phase, thr, flight, mishaps, faults>>
        /\ Step(r, "prev") \/ Step(r, "user") \/ Reply(r, FALSE)
    BY DEF Auth, Take, CheckUser, On, server, device
  <1>2. {"prev", "user"} \subseteq ServerPc \cap Owing /\ req[r].pc \in Owing
    BY <1>1 DEF ServerPc, Owing
  <1>3. rec' \subseteq Token /\ sess \in Token \cup {NoToken} /\ mishaps \subseteq Mishap
        /\ faults \in 0..MaxFaults
    BY <1>1 DEF IInv, TypeOK
  <1>4. "cut" \notin mishaps => rec' \subseteq {sess}
    BY <1>1, Knows DEF Settles
  <1>5. ASSUME NEW pc \in {"prev", "user"}, Step(r, pc)
        PROVE  IInv'
    <2>1. \A q \in Request : "cut" \notin mishaps /\ q.pc = pc => Settles(q, rec', sess)
      BY <1>4 DEF Settles
    <2> QED BY <1>1, <1>2, <1>3, <1>5, <2>1, Proceeds
  <1>6. CASE Reply(r, FALSE)
    BY <1>1, <1>3, <1>4, <1>6, Replies
  <1> QED BY <1>1, <1>5, <1>6

LEMMA PreviousStep ==
    ASSUME IInv, NEW r \in Req, Previous(r)
    PROVE  IInv'
  <1> DEFINE pc == IF sess = NoToken THEN "record" ELSE "drop"
             q  == [req[r] EXCEPT !.pc = pc, !.prev = sess]
  <1>1. /\ req[r].pc = "prev"
        /\ UNCHANGED <<rec, sess, minted, verified, store, phase, thr, flight, mishaps, faults>>
    BY DEF Previous, On, server, device
  <1>2. /\ req[r] \in Request /\ sess \in Token \cup {NoToken} /\ rec \subseteq Token
        /\ minted \in Nat /\ mishaps \subseteq Mishap /\ faults \in 0..MaxFaults
    BY DEF IInv, TypeOK
  <1>3. /\ q \in Request /\ q.pc = pc /\ q.prev = sess
        /\ q.from = req[r].from /\ q.kind = req[r].kind
    BY <1>2 DEF Request, ServerPc
  <1>4. req' = [req EXCEPT ![r] = q]
    BY DEF Previous, IInv, TypeOK
  <1>5. "cut" \notin mishaps => Settles(q, rec, sess)
    <2> SUFFICES ASSUME "cut" \notin mishaps
                 PROVE  Settles(q, rec, sess)
      OBVIOUS
    <2>1. rec \subseteq {sess}
      BY <1>1, Knows DEF Settles
    <2>2. sess = NoToken => rec = {}
      BY <1>2, <2>1 DEF Token, NoToken
    <2> QED BY <1>3, <2>1, <2>2 DEF Settles
  <1>6. q.pc \in Owing /\ req[r].pc \in Owing /\ q.pc # "free"
    BY <1>1, <1>3 DEF Owing
  <1> HIDE DEF q
  <1>7. minted' + (IF q.pc \in Owing THEN 1 ELSE 0)
           <= minted + (IF req[r].pc \in Owing THEN 1 ELSE 0)
    BY <1>1, <1>2, <1>6
  <1> QED BY <1>1, <1>2, <1>3, <1>4, <1>5, <1>6, <1>7, Serves

LEMMA DropStep ==
    ASSUME IInv, NEW r \in Req, Drop(r)
    PROVE  IInv'
  <1>1. /\ req[r].pc = "drop" /\ rec' = rec \ {req[r].prev} /\ Step(r, "record")
        /\ UNCHANGED <<sess, minted, verified, store, phase, thr, flight, mishaps, faults>>
    BY DEF Drop, On, device
  <1>2. "record" \in ServerPc /\ req[r].pc \in Owing
    BY <1>1 DEF ServerPc, Owing
  <1>3. rec' \subseteq Token
    BY <1>1 DEF IInv, TypeOK
  <1>4. "cut" \notin mishaps => rec' = {}
    BY <1>1, Knows DEF Settles
  <1>5. \A q \in Request : "cut" \notin mishaps /\ q.pc = "record" => Settles(q, rec', sess)
    BY <1>4 DEF Settles
  <1> QED BY <1>1, <1>2, <1>3, <1>5, Proceeds

LEMMA RecordStep ==
    ASSUME IInv, NEW r \in Req, Record(r)
    PROVE  IInv'
  <1> DEFINE q == [req[r] EXCEPT !.pc = "index", !.new = minted + 1]
  <1>1. /\ req[r].pc = "record" /\ minted' = minted + 1 /\ rec' = rec \cup {minted + 1}
        /\ UNCHANGED <<sess, verified, store, phase, thr, flight, mishaps, faults>>
    BY DEF Record, On, device
  <1>2. req[r].pc \in Owing
    BY <1>1 DEF Owing
  <1>3. minted + 1 \in Token /\ minted \in Nat
    BY <1>2, RoomLeft
  <1>4. /\ req[r] \in Request /\ sess \in Token \cup {NoToken} /\ rec' \subseteq Token
        /\ mishaps \subseteq Mishap /\ faults \in 0..MaxFaults
    BY <1>1, <1>3 DEF IInv, TypeOK
  <1>5. /\ q \in Request /\ q.pc = "index" /\ q.new = minted + 1
        /\ q.from = req[r].from /\ q.kind = req[r].kind
    BY <1>3, <1>4 DEF Request, ServerPc
  <1>6. req' = [req EXCEPT ![r] = q]
    BY <1>1 DEF Record, IInv, TypeOK
  <1> HIDE DEF q
  <1>7. "cut" \notin mishaps => Settles(q, rec', sess)
    <2>1. "cut" \notin mishaps => rec = {}
      BY <1>1, Knows DEF Settles
    <2> QED BY <1>1, <1>5, <2>1 DEF Settles
  <1>8. q.pc \notin Owing /\ q.pc # "free"
    BY <1>5 DEF Owing
  <1>9. minted' \in Nat /\ minted' + (IF q.pc \in Owing THEN 1 ELSE 0)
           <= minted + (IF req[r].pc \in Owing THEN 1 ELSE 0)
    BY <1>1, <1>2, <1>3, <1>8
  <1> QED BY <1>1, <1>4, <1>5, <1>6, <1>7, <1>8, <1>9, Serves

LEMMA IndexStep ==
    ASSUME IInv, NEW r \in Req, Index(r)
    PROVE  IInv'
  <1>1. /\ req[r].pc = "index" /\ sess' = req[r].new /\ Reply(r, TRUE)
        /\ UNCHANGED <<rec, minted, verified, store, phase, thr, flight, mishaps, faults>>
    BY DEF Index, On, device
  <1>2. req[r].new \in Token \cup {NoToken} /\ rec \subseteq Token /\ mishaps \subseteq Mishap
        /\ faults \in 0..MaxFaults
    BY DEF IInv, TypeOK, Request
  <1>3. "cut" \notin mishaps => rec \subseteq {req[r].new}
    BY <1>1, Knows DEF Settles
  <1> QED BY <1>1, <1>2, <1>3, Replies

LEMMA LogoutSteps ==
    ASSUME IInv, NEW r \in Req, Revoke(r) \/ Current(r) \/ Unindex(r)
    PROVE  IInv'
  <1>1. rec \subseteq Token /\ sess \in Token \cup {NoToken} /\ mishaps \subseteq Mishap
        /\ faults \in 0..MaxFaults /\ NoToken \in Token \cup {NoToken}
        /\ {"current", "unindex"} \subseteq ServerPc \ (Owing \cup {"free"})
    BY DEF IInv, TypeOK, ServerPc, Owing
  <1>2. CASE Revoke(r)
    <2>1. /\ req[r].pc = "revoke" /\ rec' = rec \ {req[r].tok}
          /\ UNCHANGED <<sess, minted, verified, store, phase, thr, flight, mishaps, faults>>
          /\ Step(r, "current") \/ Reply(r, TRUE)
      BY <1>2 DEF Revoke, On, device
    <2>2. "cut" \notin mishaps => rec' \subseteq {sess}
      BY <2>1, Knows DEF Settles
    <2>3. CASE Step(r, "current")
      <3>1. \A q \in Request : "cut" \notin mishaps /\ q.pc = "current" /\ q.tok = req[r].tok
                               => Settles(q, rec', sess)
        BY <2>1, <2>2 DEF Settles
      <3> QED BY <1>1, <2>1, <2>3, <3>1, Proceeds
    <2>4. CASE Reply(r, TRUE)
      BY <1>1, <2>1, <2>2, <2>4, Replies
    <2> QED BY <2>1, <2>3, <2>4
  <1>3. CASE Current(r)
    <2>1. /\ req[r].pc = "current"
          /\ UNCHANGED <<rec, sess, minted, verified, store, phase, thr, flight, mishaps, faults>>
          /\ (sess = req[r].tok /\ Step(r, "unindex")) \/ Reply(r, TRUE)
      BY <1>3 DEF Current, On, server, device
    <2>2. "cut" \notin mishaps => rec \subseteq {sess} /\ req[r].tok \notin rec
      BY <2>1, Knows DEF Settles
    <2>3. CASE sess = req[r].tok /\ Step(r, "unindex")
      <3>1. \A q \in Request : "cut" \notin mishaps /\ q.pc = "unindex" => Settles(q, rec', sess)
        BY <2>1, <2>2, <2>3 DEF Settles
      <3> QED BY <1>1, <2>1, <2>3, <3>1, Proceeds
    <2>4. CASE Reply(r, TRUE)
      BY <1>1, <2>1, <2>2, <2>4, Replies
    <2> QED BY <2>1, <2>3, <2>4
  <1>4. CASE Unindex(r)
    <2>1. /\ req[r].pc = "unindex" /\ sess' = NoToken /\ Reply(r, TRUE)
          /\ UNCHANGED <<rec, minted, verified, store, phase, thr, flight, mishaps, faults>>
      BY <1>4 DEF Unindex, On, device
    <2>2. "cut" \notin mishaps => rec = {}
      BY <2>1, Knows DEF Settles
    <2> QED BY <1>1, <2>1, <2>2, Replies
  <1> QED BY <1>2, <1>3, <1>4

LEMMA Faults ==
    ASSUME IInv, Fault
    PROVE  faults' \in 0..MaxFaults
  BY DEF IInv, TypeOK, Fault

LEMMA KvFailsStep ==
    ASSUME IInv, NEW r \in Req, KvFails(r)
    PROVE  IInv'
  <1>1. /\ req[r].pc # "free" /\ Reply(r, FALSE)
        /\ Fault /\ mishaps' = mishaps \cup {"cut"}
        /\ UNCHANGED <<rec, sess, minted, verified, store, phase, thr, flight>>
    BY DEF KvFails, server, device
  <1>2. rec \subseteq Token /\ sess \in Token \cup {NoToken} /\ mishaps' \subseteq Mishap
    BY <1>1 DEF IInv, TypeOK, Mishap
  <1>3. faults' \in 0..MaxFaults
    BY <1>1, Faults
  <1> QED BY <1>1, <1>2, <1>3, Replies

\* The answer comes to the one thread that waits for it.
LEMMA AnswerStep ==
    ASSUME IInv, NEW r \in Req, Answer(r)
    PROVE  IInv'
  <1> DEFINE p == req[r].from
             l == Answered(p, req[r])
  <1>1. /\ req[r].pc = "answer" /\ req' = [req EXCEPT ![r] = Free]
        /\ UNCHANGED <<rec, sess, minted, verified, store, flight, mishaps, faults>>
        /\ IF p = Nobody THEN UNCHANGED <<thr, phase>>
           ELSE /\ thr' = [thr EXCEPT ![p] = l]
                /\ phase' = phase \/ phase' = [phase EXCEPT ![Dev(p)] = "pendingJuridica"]
    BY DEF Answer, On, server
  <1>2. /\ req' \in [Req -> Request] /\ req'[r] = Free
        /\ \A s \in Req \ {r} : req'[s] = req[s]
    BY <1>1, FreeType, Slot DEF IInv
  <1>3. /\ req[r] \in Request /\ p \in Thread \cup {Nobody}
        /\ req[r].kind \in {"login", "refresh", "logout"} /\ req[r].new \in Token \cup {NoToken}
    BY DEF IInv, TypeOK, Request
  <1>4. p # Nobody =>
          /\ l \in Local
          /\ IF req[r].kind = "refresh" THEN l.pc \in {"store", "clear"}
             ELSE l.pc \in {"wipe", "save", "idle"}
    <2> SUFFICES ASSUME p # Nobody
                 PROVE  /\ l \in Local
                        /\ IF req[r].kind = "refresh" THEN l.pc \in {"store", "clear"}
                           ELSE l.pc \in {"wipe", "save", "idle"}
      OBVIOUS
    <2>1. thr[p] \in Local
      BY <1>3 DEF IInv, TypeOK
    <2>2. CASE req[r].kind = "logout"
      <3>1. l = [thr[p] EXCEPT !.pc = "wipe"]
        BY <2>2 DEF Answered
      <3>2. l \in Local /\ l.pc = "wipe"
        BY <2>1, <3>1 DEF Local, ThreadPc
      <3> QED BY <2>2, <3>2
    <2>3. CASE req[r].kind = "refresh"
      <3>1. l = IF req[r].ok THEN [thr[p] EXCEPT !.pc = "store", !.tok = req[r].new]
                ELSE [thr[p] EXCEPT !.pc = "clear"]
        BY <2>3 DEF Answered
      <3>2. l \in Local /\ l.pc \in {"store", "clear"}
        BY <1>3, <2>1, <3>1 DEF Local, ThreadPc
      <3> QED BY <2>3, <3>2
    <2>4. CASE req[r].kind = "login"
      <3>1. l = IF req[r].ok THEN At0("save", req[r].new) ELSE Rest
        BY <2>4 DEF Answered
      <3>2. "save" \in ThreadPc
        BY DEF ThreadPc
      <3>3. l \in Local /\ l.pc \in {"save", "idle"}
        BY <1>3, <3>1, <3>2, At0Type, RestType
      <3> QED BY <2>4, <3>3
    <2> QED BY <1>3, <2>2, <2>3, <2>4
  <1> HIDE DEF l
  <1>5. p # Nobody => /\ thr' \in [Thread -> Local] /\ thr'[p] = l
                      /\ \A o \in Thread \ {p} : thr'[o] = thr[o]
    BY <1>1, <1>3, <1>4, Turned DEF IInv
  <1>6. TypeOK'
    <2>1. thr' \in [Thread -> Local] /\ phase' \in [Device -> Phase]
      BY <1>1, <1>5 DEF IInv, TypeOK, Phase
    <2> QED BY <1>1, <1>2, <2>1 DEF IInv, TypeOK
  <1>7. Waiting'
    <2>1. \A s \in Req \ {r} : req[s].from # Nobody => req[s].from # p
      BY DEF IInv, Waiting
    <2>2. p # Nobody => thr[p].pc = Awaits[req[r].kind]
      BY DEF IInv, Waiting
    <2>3. p # Nobody => (l.pc \in Holding <=> thr[p].pc \in Holding) /\ l.pc # "rotating"
      BY <1>3, <1>4, <2>2 DEF Awaits, Holding
    <2>4. \A o \in Thread : thr'[o].pc \in Holding <=> thr[o].pc \in Holding
      BY <1>1, <1>5, <2>3
    <2>5. \A s \in Req : req'[s].pc = "free" => req'[s].from = Nobody
      BY <1>2, FreeType DEF IInv, Waiting
    <2>6. \A o \in Thread : thr'[o].pc \in Holding => flight'[Dev(o)] = o
      BY <1>1, <2>4 DEF IInv, Waiting
    <2>7. \A e \in Device : flight'[e] # Nobody =>
             Dev(flight'[e]) = e /\ thr'[flight'[e]].pc \in Holding
      <3>1. \A e \in Device : flight[e] \in Thread \cup {Nobody}
        BY DEF IInv, TypeOK
      <3> QED BY <1>1, <2>4, <3>1 DEF IInv, Waiting
    <2>8. \A o \in Thread : thr'[o].pc = "rotating" => \E s \in Req : req'[s].from = o
      <3> SUFFICES ASSUME NEW o \in Thread, thr'[o].pc = "rotating"
                   PROVE  \E s \in Req : req'[s].from = o
        OBVIOUS
      <3>1. o # p /\ thr[o].pc = "rotating" /\ o # Nobody
        BY <1>1, <1>5, <2>3, Threads
      <3>2. PICK s \in Req : req[s].from = o
        BY <3>1 DEF IInv, Waiting
      <3> QED BY <1>2, <3>1, <3>2
    <2>9. \A s \in Req : req'[s].from # Nobody => thr'[req'[s].from].pc = Awaits[req'[s].kind]
      <3> SUFFICES ASSUME NEW s \in Req, req'[s].from # Nobody
                   PROVE  thr'[req'[s].from].pc = Awaits[req'[s].kind]
        OBVIOUS
      <3>1. s # r /\ req'[s] = req[s]
        BY <1>2, FreeType
      <3>2. req[s].from # p /\ req[s].from \in Thread
        BY <2>1, <3>1 DEF IInv, TypeOK, Request
      <3>3. thr[req[s].from].pc = Awaits[req[s].kind]
        BY <3>1 DEF IInv, Waiting
      <3> QED BY <1>1, <1>5, <3>1, <3>2, <3>3
    <2>10. \A s, u \in Req : req'[s].from = req'[u].from /\ req'[s].from # Nobody => s = u
      BY <1>2, FreeType DEF IInv, Waiting
    <2> QED BY <2>5, <2>6, <2>7, <2>8, <2>9, <2>10 DEF Waiting
  <1>8. Counted'
    <2>1. Owers' = Owers
      BY <1>1, <1>2, FreeType DEF Owers, Owing
    <2>2. \A s \in Owers : req'[s] = req[s]
      BY <1>1, <1>2 DEF Owers, Owing
    <2> QED BY <1>1, <2>1, <2>2 DEF IInv, Counted
  <1>9. Alone'
    <2> SUFFICES ASSUME "cut" \notin mishaps
                 PROVE  Busy' = {} /\ rec \subseteq {sess}
      BY <1>1 DEF Alone
    <2>1. r \in Busy /\ Busy' = Busy \ {r}
      BY <1>1, <1>2, FreeType DEF Busy
    <2>2. \A s \in Busy : s = r
      BY <2>1 DEF IInv, Alone
    <2>3. rec \subseteq {sess}
      BY <1>1, Knows DEF Settles
    <2> QED BY <2>1, <2>2, <2>3
  <1> QED BY <1>6, <1>7, <1>8, <1>9 DEF IInv

----------------------------------------------------------------------------
(* Lost answers, deaths of the app and of the server *)

\* Nobody waits any longer for some of the requests, which go on.
LEMMA Abandoned ==
    ASSUME TypeOK, NEW S,
           req' = [r \in Req |-> IF r \in S THEN [req[r] EXCEPT !.from = Nobody] ELSE req[r]]
    PROVE  /\ req' \in [Req -> Request]
           /\ \A r \in Req : /\ req'[r].pc = req[r].pc /\ req'[r].kind = req[r].kind
                             /\ req'[r].tok = req[r].tok /\ req'[r].prev = req[r].prev
                             /\ req'[r].new = req[r].new
                             /\ req'[r].from = IF r \in S THEN Nobody ELSE req[r].from
  <1> SUFFICES ASSUME NEW r \in Req
               PROVE  /\ req'[r] \in Request
                      /\ req'[r].pc = req[r].pc /\ req'[r].kind = req[r].kind
                      /\ req'[r].tok = req[r].tok /\ req'[r].prev = req[r].prev
                      /\ req'[r].new = req[r].new
                      /\ req'[r].from = IF r \in S THEN Nobody ELSE req[r].from
    OBVIOUS
  <1>1. req[r] \in Request
    BY DEF TypeOK
  <1>2. req'[r] = IF r \in S THEN [req[r] EXCEPT !.from = Nobody] ELSE req[r]
    OBVIOUS
  <1> QED BY <1>1, <1>2 DEF Request

LEMMA TimeoutStep ==
    ASSUME IInv, NEW p \in Thread, Timeout(p)
    PROVE  IInv'
  <1> DEFINE S == {r \in Req : req[r].from = p}
  <1>1. /\ thr[p].pc \in {"rotating", "entering", "leaving"} /\ Fault
        /\ mishaps' = mishaps \cup {"lost"}
        /\ req' = [r \in Req |-> IF req[r].from = p THEN [req[r] EXCEPT !.from = Nobody] ELSE req[r]]
        /\ UNCHANGED <<rec, sess, minted, verified, store>>
    BY DEF Timeout, server
  <1>2. PICK l \in Local : /\ thr' = [thr EXCEPT ![p] = l]
                           /\ l.pc \in {"idle", "latest", "giveup", "wipe"}
    <2>1. CASE thr[p].pc = "rotating"
      <3>1. EndCall(p, "net")
        BY <2>1 DEF Timeout, In
      <3> QED BY <3>1, EndCallIs DEF IInv
    <2>2. CASE thr[p].pc = "entering"
      BY <2>2, RestType DEF Timeout, In
    <2>3. CASE thr[p].pc = "leaving"
      <3>1. Go(p, "wipe") /\ "wipe" \in ThreadPc
        BY <2>3 DEF Timeout, In, ThreadPc
      <3> QED BY <3>1, GoIs DEF IInv
    <2> QED BY <1>1, <2>1, <2>2, <2>3
  <1>3. phase' \in [Device -> Phase]
    <2>1. CASE thr[p].pc = "rotating"
      <3>1. EndCall(p, "net")
        BY <2>1 DEF Timeout, In
      <3> QED BY <3>1, EndCallIs DEF IInv
    <2>2. CASE thr[p].pc # "rotating"
      <3>1. phase' = phase
        BY <1>1, <2>2 DEF Timeout, In
      <3> QED BY <3>1, Kept DEF IInv
    <2> QED BY <2>1, <2>2
  <1>4. flight' = IF thr[p].pc = "rotating" THEN [flight EXCEPT ![Dev(p)] = Nobody] ELSE flight
    BY <1>1 DEF Timeout, In, Release
  <1>5. /\ thr' \in [Thread -> Local] /\ thr'[p] = l
        /\ \A o \in Thread \ {p} : thr'[o] = thr[o]
    BY <1>2, Turned DEF IInv
  <1>6. req' = [r \in Req |-> IF r \in S THEN [req[r] EXCEPT !.from = Nobody] ELSE req[r]]
    BY <1>1
  <1>7. /\ req' \in [Req -> Request]
        /\ \A r \in Req : /\ req'[r].pc = req[r].pc /\ req'[r].kind = req[r].kind
                          /\ req'[r].tok = req[r].tok /\ req'[r].prev = req[r].prev
                          /\ req'[r].new = req[r].new
                          /\ req'[r].from = IF r \in S THEN Nobody ELSE req[r].from
    BY <1>6, Abandoned DEF IInv
  <1>8. p # Nobody /\ Dev(p) \in Device
    BY Threads
  <1>9. /\ flight' \in [Device -> Thread \cup {Nobody}]
        /\ \A e \in Device : flight'[e] = flight[e] \/ flight'[e] = Nobody
        /\ \A e \in Device \ {Dev(p)} : flight'[e] = flight[e]
    BY <1>4, <1>8 DEF IInv, TypeOK
  <1>10. \A e \in Device : flight'[e] # p
    <2> SUFFICES ASSUME NEW e \in Device, flight'[e] = p
                 PROVE  FALSE
      OBVIOUS
    <2>1. flight[e] = p
      BY <1>8, <1>9
    <2>2. Dev(p) = e /\ thr[p].pc \in Holding
      BY <1>8, <2>1 DEF IInv, Waiting
    <2>3. thr[p].pc = "rotating"
      BY <1>1, <2>2 DEF Holding
    <2> QED BY <1>4, <1>8, <2>2, <2>3 DEF IInv, TypeOK
  <1>11. TypeOK'
    <2>1. faults' \in 0..MaxFaults /\ mishaps' \subseteq Mishap
      BY <1>1, Faults DEF IInv, TypeOK, Mishap
    <2> QED BY <1>1, <1>3, <1>5, <1>7, <1>9, <2>1 DEF IInv, TypeOK
  <1>12. Waiting'
    <2>1. l.pc \notin Holding
      BY <1>2 DEF Holding
    <2>2. \A r \in Req : req'[r].pc = "free" => req'[r].from = Nobody
      BY <1>7 DEF IInv, Waiting
    <2>3. \A o \in Thread : thr'[o].pc \in Holding => flight'[Dev(o)] = o
      <3> SUFFICES ASSUME NEW o \in Thread, thr'[o].pc \in Holding
                   PROVE  flight'[Dev(o)] = o
        OBVIOUS
      <3>1. o # p /\ thr[o].pc \in Holding /\ Dev(o) \in Device
        BY <1>5, <2>1, Threads
      <3>2. flight[Dev(o)] = o
        BY <3>1 DEF IInv, Waiting
      <3>3. CASE Dev(o) # Dev(p)
        BY <1>9, <3>1, <3>2, <3>3
      <3>4. CASE Dev(o) = Dev(p)
        <4>1. thr[p].pc # "rotating"
          BY <3>1, <3>2, <3>4 DEF IInv, Waiting, Holding
        <4> QED BY <1>4, <3>2, <4>1
      <3> QED BY <3>3, <3>4
    <2>4. \A e \in Device : flight'[e] # Nobody =>
             Dev(flight'[e]) = e /\ thr'[flight'[e]].pc \in Holding
      <3> SUFFICES ASSUME NEW e \in Device, flight'[e] # Nobody
                   PROVE  Dev(flight'[e]) = e /\ thr'[flight'[e]].pc \in Holding
        OBVIOUS
      <3>1. flight'[e] = flight[e] /\ flight[e] # p /\ flight[e] \in Thread
        BY <1>9, <1>10 DEF IInv, TypeOK
      <3>2. Dev(flight[e]) = e /\ thr[flight[e]].pc \in Holding
        BY <3>1 DEF IInv, Waiting
      <3> QED BY <1>5, <3>1, <3>2
    <2>5. \A o \in Thread : thr'[o].pc = "rotating" => \E r \in Req : req'[r].from = o
      <3> SUFFICES ASSUME NEW o \in Thread, thr'[o].pc = "rotating"
                   PROVE  \E r \in Req : req'[r].from = o
        OBVIOUS
      <3>1. o # p /\ thr[o].pc = "rotating"
        BY <1>5, <2>1 DEF Holding
      <3>2. PICK r \in Req : req[r].from = o
        BY <3>1 DEF IInv, Waiting
      <3> QED BY <1>7, <3>1, <3>2
    <2>6. \A r \in Req : req'[r].from # Nobody => thr'[req'[r].from].pc = Awaits[req'[r].kind]
      <3> SUFFICES ASSUME NEW r \in Req, req'[r].from # Nobody
                   PROVE  thr'[req'[r].from].pc = Awaits[req'[r].kind]
        OBVIOUS
      <3>1. req'[r].from = req[r].from /\ req[r].from # p /\ req[r].from \in Thread
        BY <1>7 DEF IInv, TypeOK, Request
      <3>2. thr[req[r].from].pc = Awaits[req[r].kind]
        BY <3>1 DEF IInv, Waiting
      <3> QED BY <1>5, <1>7, <3>1, <3>2
    <2>7. \A r, s \in Req : req'[r].from = req'[s].from /\ req'[r].from # Nobody => r = s
      BY <1>7 DEF IInv, Waiting
    <2> QED BY <2>2, <2>3, <2>4, <2>5, <2>6, <2>7 DEF Waiting
  <1>13. Counted' /\ Alone'
    BY <1>1, <1>7, CountedKept, AloneKept DEF IInv
  <1> QED BY <1>11, <1>12, <1>13 DEF IInv

LEMMA KillStep ==
    ASSUME IInv, NEW d \in Device, Kill(d)
    PROVE  IInv'
  <1> DEFINE S == {r \in Req : req[r].from # Nobody /\ Dev(req[r].from) = d}
  <1>1. /\ Fault
        /\ thr' = [o \in Thread |-> IF Dev(o) = d THEN Rest ELSE thr[o]]
        /\ phase' = [phase EXCEPT ![d] = "bootstrapping"]
        /\ flight' = [flight EXCEPT ![d] = Nobody]
        /\ req' = [r \in Req |-> IF req[r].from # Nobody /\ Dev(req[r].from) = d
                                 THEN [req[r] EXCEPT !.from = Nobody] ELSE req[r]]
        /\ mishaps \subseteq mishaps' /\ mishaps' \subseteq mishaps \cup {"lost"}
        /\ UNCHANGED <<rec, sess, minted, verified, store>>
    BY DEF Kill, server
  <1>2. req' = [r \in Req |-> IF r \in S THEN [req[r] EXCEPT !.from = Nobody] ELSE req[r]]
    BY <1>1
  <1>3. /\ req' \in [Req -> Request]
        /\ \A r \in Req : /\ req'[r].pc = req[r].pc /\ req'[r].kind = req[r].kind
                          /\ req'[r].tok = req[r].tok /\ req'[r].prev = req[r].prev
                          /\ req'[r].new = req[r].new
                          /\ req'[r].from = IF r \in S THEN Nobody ELSE req[r].from
    BY <1>2, Abandoned DEF IInv
  <1>4. \A o \in Thread : thr'[o] = IF Dev(o) = d THEN Rest ELSE thr[o]
    BY <1>1
  <1>5. flight' \in [Device -> Thread \cup {Nobody}] /\ flight'[d] = Nobody
        /\ \A e \in Device \ {d} : flight'[e] = flight[e]
    BY <1>1 DEF IInv, TypeOK
  <1>6. TypeOK'
    <2>1. faults' \in 0..MaxFaults /\ mishaps' \subseteq Mishap
      BY <1>1, Faults DEF IInv, TypeOK, Mishap
    <2>2. thr' \in [Thread -> Local] /\ phase' \in [Device -> Phase]
      BY <1>1, RestType DEF IInv, TypeOK, Phase
    <2> QED BY <1>1, <1>3, <1>5, <2>1, <2>2 DEF IInv, TypeOK
  <1>7. Waiting'
    <2>1. Rest.pc \notin Holding
      BY RestType DEF Holding
    <2>2. \A r \in Req : req'[r].pc = "free" => req'[r].from = Nobody
      BY <1>3 DEF IInv, Waiting
    <2>3. \A o \in Thread : thr'[o].pc \in Holding => flight'[Dev(o)] = o
      BY <1>4, <1>5, <2>1, Threads DEF IInv, Waiting
    <2>4. \A e \in Device : flight'[e] # Nobody =>
             Dev(flight'[e]) = e /\ thr'[flight'[e]].pc \in Holding
      <3> SUFFICES ASSUME NEW e \in Device, flight'[e] # Nobody
                   PROVE  Dev(flight'[e]) = e /\ thr'[flight'[e]].pc \in Holding
        OBVIOUS
      <3>1. e # d /\ flight'[e] = flight[e] /\ flight[e] \in Thread
        BY <1>5 DEF IInv, TypeOK
      <3>2. Dev(flight[e]) = e /\ thr[flight[e]].pc \in Holding
        BY <3>1 DEF IInv, Waiting
      <3> QED BY <1>4, <3>1, <3>2
    <2>5. \A o \in Thread : thr'[o].pc = "rotating" => \E r \in Req : req'[r].from = o
      <3> SUFFICES ASSUME NEW o \in Thread, thr'[o].pc = "rotating"
                   PROVE  \E r \in Req : req'[r].from = o
        OBVIOUS
      <3>1. Dev(o) # d /\ thr[o].pc = "rotating"
        BY <1>4, <2>1 DEF Holding
      <3>2. PICK r \in Req : req[r].from = o
        BY <3>1 DEF IInv, Waiting
      <3> QED BY <1>3, <3>1, <3>2
    <2>6. \A r \in Req : req'[r].from # Nobody => thr'[req'[r].from].pc = Awaits[req'[r].kind]
      <3> SUFFICES ASSUME NEW r \in Req, req'[r].from # Nobody
                   PROVE  thr'[req'[r].from].pc = Awaits[req'[r].kind]
        OBVIOUS
      <3>1. req'[r].from = req[r].from /\ req[r].from \in Thread /\ Dev(req[r].from) # d
        BY <1>3 DEF IInv, TypeOK, Request
      <3>2. thr[req[r].from].pc = Awaits[req[r].kind]
        BY <1>3, <3>1 DEF IInv, Waiting
      <3> QED BY <1>3, <1>4, <3>1, <3>2
    <2>7. \A r, s \in Req : req'[r].from = req'[s].from /\ req'[r].from # Nobody => r = s
      BY <1>3 DEF IInv, Waiting
    <2> QED BY <2>2, <2>3, <2>4, <2>5, <2>6, <2>7 DEF Waiting
  <1>8. Counted' /\ Alone'
    BY <1>1, <1>3, CountedKept, AloneKept DEF IInv
  <1> QED BY <1>6, <1>7, <1>8 DEF IInv

LEMMA CrashStep ==
    ASSUME IInv, Crash
    PROVE  IInv'
  <1>1. /\ Fault /\ req' = [r \in Req |-> Free]
        /\ mishaps' = mishaps \cup {"cut"}
        /\ UNCHANGED <<rec, sess, minted, verified, store>>
        /\ phase' = [d \in Device |-> IF In(Ui(d), "rotating") THEN "signedIn" ELSE phase[d]]
        /\ flight' = [d \in Device |-> IF flight[d] # Nobody /\ In(flight[d], "rotating")
                                       THEN Nobody ELSE flight[d]]
    BY DEF Crash, server
  <1>2. \A o \in Thread :
          thr'[o] = IF thr[o].pc \in {"rotating", "entering"} THEN Rest
                    ELSE IF thr[o].pc = "leaving" THEN [thr[o] EXCEPT !.pc = "wipe"] ELSE thr[o]
    BY Threads DEF Crash, In
  <1>3. thr' = [o \in Thread |-> thr'[o]]
    BY DEF Crash
  <1>4. \A o \in Thread :
          /\ thr'[o] \in Local
          /\ thr'[o].pc \in Holding <=> thr[o].pc \in {"store", "clear"}
          /\ thr'[o].pc # "rotating"
    <2> SUFFICES ASSUME NEW o \in Thread
                 PROVE  /\ thr'[o] \in Local
                        /\ thr'[o].pc \in Holding <=> thr[o].pc \in {"store", "clear"}
                        /\ thr'[o].pc # "rotating"
      OBVIOUS
    <2>1. thr[o] \in Local
      BY DEF IInv, TypeOK
    <2>2. CASE thr[o].pc \in {"rotating", "entering"}
      BY <1>2, <2>2, RestType DEF Holding
    <2>3. CASE thr[o].pc = "leaving"
      <3>1. thr'[o] = [thr[o] EXCEPT !.pc = "wipe"]
        BY <1>2, <2>3
      <3>2. thr'[o] \in Local /\ thr'[o].pc = "wipe"
        BY <2>1, <3>1 DEF Local, ThreadPc
      <3> QED BY <2>3, <3>2 DEF Holding
    <2>4. CASE thr[o].pc \notin {"rotating", "entering", "leaving"}
      BY <1>2, <2>1, <2>4 DEF Holding
    <2> QED BY <2>2, <2>3, <2>4
  <1>5. \A d \in Device :
          /\ flight[d] # Nobody => flight[d] \in Thread
          /\ flight'[d] = IF flight[d] # Nobody /\ thr[flight[d]].pc = "rotating"
                          THEN Nobody ELSE flight[d]
    BY <1>1 DEF In, IInv, TypeOK
  <1>6. TypeOK'
    <2>1. faults' \in 0..MaxFaults /\ mishaps' \subseteq Mishap
      BY <1>1, Faults DEF IInv, TypeOK, Mishap
    <2>2. thr' \in [Thread -> Local]
      BY <1>3, <1>4
    <2>3. phase' \in [Device -> Phase] /\ flight' \in [Device -> Thread \cup {Nobody}]
      BY <1>1 DEF IInv, TypeOK, Phase
    <2> QED BY <1>1, <2>1, <2>2, <2>3, FreeType DEF IInv, TypeOK
  <1>7. Waiting'
    <2>1. \A r \in Req : req'[r].from = Nobody
      BY <1>1, FreeType
    <2>2. \A o \in Thread : thr'[o].pc \in Holding => flight'[Dev(o)] = o
      <3> SUFFICES ASSUME NEW o \in Thread, thr'[o].pc \in Holding
                   PROVE  flight'[Dev(o)] = o
        OBVIOUS
      <3>1. thr[o].pc \in {"store", "clear"} /\ Dev(o) \in Device
        BY <1>4, Threads
      <3>2. flight[Dev(o)] = o
        BY <3>1 DEF IInv, Waiting, Holding
      <3> QED BY <1>5, <3>1, <3>2
    <2>3. \A e \in Device : flight'[e] # Nobody =>
             Dev(flight'[e]) = e /\ thr'[flight'[e]].pc \in Holding
      <3> SUFFICES ASSUME NEW e \in Device, flight'[e] # Nobody
                   PROVE  Dev(flight'[e]) = e /\ thr'[flight'[e]].pc \in Holding
        OBVIOUS
      <3>1. flight'[e] = flight[e] /\ flight[e] \in Thread /\ thr[flight[e]].pc # "rotating"
        BY <1>5
      <3>2. Dev(flight[e]) = e /\ thr[flight[e]].pc \in Holding
        BY <3>1 DEF IInv, Waiting
      <3>3. thr[flight[e]].pc \in {"store", "clear"}
        BY <3>1, <3>2 DEF Holding
      <3> QED BY <1>4, <3>1, <3>2, <3>3
    <2> QED BY <1>4, <2>1, <2>2, <2>3 DEF Waiting
  <1>8. Counted'
    <2>1. Owers' = {}
      BY <1>1, FreeType DEF Owers, Owing
    <2>2. Cardinality(Owers') = 0
      BY <2>1, FS_EmptySet
    <2>3. minted \in 0..MaxToken
      BY DEF IInv, TypeOK
    <2> QED BY <1>1, <2>1, <2>2, <2>3 DEF Counted
  <1>9. Alone'
    BY <1>1 DEF Alone
  <1> QED BY <1>6, <1>7, <1>8, <1>9 DEF IInv

\* An administrator's verdict, or a token that expires, moves nobody.
LEMMA EnvironmentStep ==
    ASSUME IInv, Flip \/ \E t \in Token : Expire(t)
    PROVE  IInv'
  <1>1. /\ Fault /\ UNCHANGED <<minted, req, store, phase, thr, flight>>
        /\ mishaps' = mishaps \cup {"lost"}
    BY DEF Flip, Expire, device, server
  <1>2. /\ verified' \in BOOLEAN /\ rec' \subseteq rec /\ sess' \in {sess, NoToken}
        /\ sess' # sess => sess \notin rec'
    BY DEF Flip, Expire, server, IInv, TypeOK
  <1>3. TypeOK'
    <2>1. faults' \in 0..MaxFaults /\ mishaps' \subseteq Mishap
      BY <1>1, Faults DEF IInv, TypeOK, Mishap
    <2> QED BY <1>1, <1>2, <2>1 DEF IInv, TypeOK
  <1>4. Waiting'
    BY <1>1 DEF IInv, Waiting
  <1>5. Counted'
    BY <1>1, CountedKept DEF IInv
  <1>6. Alone'
    <2> SUFFICES ASSUME "cut" \notin mishaps
                 PROVE  /\ \A r, s \in Busy : r = s
                        /\ Busy = {} => rec' \subseteq {sess'}
                        /\ \A r \in Busy : Settles(req[r], rec', sess')
      BY <1>1 DEF Alone, Settles, Busy
    <2>1. /\ \A r, s \in Busy : r = s
          /\ Busy = {} => rec \subseteq {sess}
          /\ \A r \in Busy : Settles(req[r], rec, sess)
      BY DEF IInv, Alone
    <2>2. rec \subseteq {sess} => rec' \subseteq {sess'}
      BY <1>2
    <2>3. \A r \in Busy : Settles(req[r], rec', sess')
      BY <1>2, <2>1, <2>2 DEF Settles
    <2> QED BY <2>1, <2>2, <2>3
  <1> QED BY <1>3, <1>4, <1>5, <1>6 DEF IInv

----------------------------------------------------------------------------
(* The invariant *)

LEMMA Initially == Init => IInv
  <1> SUFFICES ASSUME Init
               PROVE  IInv
    OBVIOUS
  <1>1. /\ \A r \in Req : req[r] = Free
        /\ \A p \in Thread : thr[p] = Rest
        /\ \A d \in Device : flight[d] = Nobody
        /\ rec = {} /\ sess = NoToken /\ minted = 0 /\ mishaps = {} /\ faults = 0
    BY DEF Init
  <1>2. TypeOK
    BY FreeType, RestType DEF Init, TypeOK, Phase
  <1>3. Waiting
    <2>1. Rest.pc \notin Holding
      BY RestType DEF Holding
    <2> QED BY <1>1, <2>1, FreeType, RestType DEF Waiting
  <1>4. Counted
    <2>1. Owers = {}
      BY <1>1, FreeType DEF Owers, Owing
    <2>2. Cardinality(Owers) = 0
      BY <2>1, FS_EmptySet
    <2> QED BY <1>1, <2>1, <2>2 DEF Counted
  <1>5. Alone
    <2>1. Busy = {}
      BY <1>1, FreeType DEF Busy
    <2> QED BY <1>1, <2>1 DEF Alone
  <1> QED BY <1>2, <1>3, <1>4, <1>5 DEF IInv

LEMMA Stutters ==
    ASSUME IInv, UNCHANGED vars
    PROVE  IInv'
  BY DEF IInv, vars, TypeOK, Waiting, Counted, Owers, Alone, Settles, Busy

LEMMA Inductive == IInv /\ [Next]_vars => IInv'
  <1> SUFFICES ASSUME IInv, [Next]_vars
               PROVE  IInv'
    OBVIOUS
  <1>1. ASSUME NEW r \in Req, ServerStep(r) \/ KvFails(r)
        PROVE  IInv'
    BY <1>1, LoginSteps, PreviousStep, DropStep, RecordStep, IndexStep, LogoutSteps, AnswerStep,
       KvFailsStep DEF ServerStep
  <1>2. ASSUME NEW p \in Thread, SyncStart(p) \/ CallStep(p)
        PROVE  IInv'
    BY <1>2, SyncStartStep, FreshStep, TurnStep, WaitStep, StoreStep, SendStep, TimeoutStep
       DEF CallStep
  <1>3. ASSUME NEW d \in Device,
               UiStep(d) \/ Login(d) \/ LeavePending(d) \/ Logout(d) \/ Kill(d)
        PROVE  IInv'
    BY <1>3, UiSteps, LoginStep, LeavePendingStep, LogoutStep, KillStep
  <1>4. CASE Crash
    BY <1>4, CrashStep
  <1>5. CASE Flip \/ \E t \in Token : Expire(t)
    BY <1>5, EnvironmentStep
  <1>6. CASE UNCHANGED vars
    BY <1>6, Stutters
  <1> QED BY <1>1, <1>2, <1>3, <1>4, <1>5, <1>6 DEF Next

\* The invariant of every theorem below.
LEMMA Always == Spec => []IInv
  <1>1. Init => IInv
    BY Initially
  <1>2. IInv /\ [Next]_vars => IInv'
    BY Inductive
  <1> QED BY <1>1, <1>2, PTL DEF Spec

----------------------------------------------------------------------------
(* Every variable keeps its type; no more tokens are issued than requests    *)
(* were posted for them (issue, token.service.ts).                           *)
THEOREM SessionTypeCorrect == Spec => []TypeOK
  <1>1. IInv => TypeOK
    BY DEF IInv
  <1> QED BY <1>1, Always, PTL

(* _refreshing of SessionClient is set only while the thread that set it     *)
(* waits for an answer some request owes it, or is about to store or clear   *)
(* what it got: whatever is lost, killed or crashes, no call waits for a     *)
(* refresh that nobody is doing (refresh and its finally, session_client).   *)
THEOREM NobodyWaitsInVain == Spec => []RefreshIsUnderWay
  <1>1. IInv => RefreshIsUnderWay
    <2> SUFFICES ASSUME IInv, NEW d \in Device, flight[d] # Nobody
                 PROVE  LET p == flight[d] IN
                        /\ Dev(p) = d
                        /\ \/ thr[p].pc \in {"store", "clear"}
                           \/ In(p, "rotating")
                              /\ \E r \in Busy : req[r].from = p /\ req[r].kind = "refresh"
      BY DEF RefreshIsUnderWay, Refreshing
    <2>1. flight[d] \in Thread /\ Dev(flight[d]) = d /\ thr[flight[d]].pc \in Holding
      BY DEF IInv, TypeOK, Waiting
    <2>2. CASE thr[flight[d]].pc = "rotating"
      <3>1. PICK r \in Req : req[r].from = flight[d]
        BY <2>1, <2>2 DEF IInv, Waiting
      <3>2. Awaits[req[r].kind] = "rotating" /\ req[r].pc # "free"
        BY <2>2, <3>1 DEF IInv, Waiting
      <3>3. req[r].kind \in {"login", "refresh", "logout"}
        BY DEF IInv, TypeOK, Request
      <3>4. req[r].kind = "refresh" /\ r \in Busy
        BY <3>2, <3>3 DEF Awaits, Busy
      <3> QED BY <2>1, <2>2, <3>1, <3>4 DEF In
    <2>3. CASE thr[flight[d]].pc # "rotating"
      BY <2>1, <2>3 DEF Holding
    <2> QED BY <2>2, <2>3
  <1> QED BY <1>1, Always, PTL

(* While no two requests of the user overlap and none is cut short, the only *)
(* token the server exchanges is the one the session names or is about to    *)
(* name: issue leaves none of its predecessors alive, and logout none at all *)
(* that it knew of (token.service.ts).                                       *)
THEOREM OneLiveToken == Spec => []AloneOneLive
  <1>1. IInv => AloneOneLive
    <2> SUFFICES ASSUME IInv, "cut" \notin mishaps, NEW t \in rec
                 PROVE  t = sess \/ \E r \in Req : On(r, "index") /\ req[r].new = t
      BY DEF AloneOneLive
    <2>1. CASE Busy = {}
      BY <2>1 DEF IInv, Alone
    <2>2. CASE Busy # {}
      <3>1. PICK r \in Busy : Settles(req[r], rec, sess)
        BY <2>2 DEF IInv, Alone
      <3> QED BY <3>1 DEF Settles, On, Busy
    <2> QED BY <2>1, <2>2
  <1> QED BY <1>1, Always, PTL

----------------------------------------------------------------------------
(* While nothing is lost, cut or late *)

(***************************************************************************)
(* Where the screens and the synchronisation may be in each phase.           *)
(***************************************************************************)
Calling  == {"fresh", "turn", "wait", "rotating", "store", "clear", "send"}
AtPhase  == [bootstrapping   |-> Calling \cup {"idle", "latest", "back", "giveup"},
             guest           |-> {"idle", "entering", "save", "load"},
             pendingJuridica |-> {"idle", "entering", "save", "load"},
             signedIn        |-> {"idle", "leaving", "wipe"}]

Screens ==
    /\ \A p \in Thread : p[2] = "sync" => thr[p].pc \in Calling \cup {"idle"}
    /\ \A d \in Device : thr[Ui(d)].pc \in AtPhase[phase[d]]

(***************************************************************************)
(* Until a call writes the storage late, a refresh under way has the token   *)
(* of its device, and a guest has none until its login saves one.            *)
(***************************************************************************)
Outside == {"guest", "pendingJuridica"}

Tidy ==
    "late" \notin mishaps =>
        \A d \in Device :
            /\ flight[d] # Nobody => store[d] # NoToken
            /\ phase[d] \in Outside /\ thr[Ui(d)].pc \in {"idle", "entering", "save"} =>
                   store[d] = NoToken

(***************************************************************************)
(* CalmSessionLasts and SignedOutStaysOut are not inductive: while nothing    *)
(* went wrong one device at most has the session, the server exchanges its    *)
(* token and no other, and a request under way comes from it and knows what   *)
(* it will leave behind.                                                     *)
(***************************************************************************)
Held(d) == store[d] # NoToken \/ thr[Ui(d)].pc # "idle"

\* A refresh that will bring a new token, a login, a logout, a refresh refused.
Fruitful(q, tokens) ==
    /\ q.pc \in {"take", "user", "prev", "drop", "record", "index", "answer"}
    /\ q.pc = "take" => q.tok \in tokens
    /\ q.pc = "index" => q.new \in tokens
    /\ q.pc = "answer" => q.ok /\ q.new \in tokens

Entering(q, tokens) ==
    /\ q.pc \in {"auth", "prev", "drop", "record", "index", "answer"}
    /\ q.pc \in {"auth", "prev", "drop", "record"} => tokens = {}
    /\ q.pc = "index" => q.new \in tokens
    /\ q.pc = "answer" /\ q.ok => q.new \in tokens
    /\ q.pc = "answer" /\ ~q.ok => tokens = {}

Leaving(q, tokens) ==
    /\ q.pc \in {"revoke", "current", "unindex", "answer"}
    /\ q.pc = "revoke" => q.tok \in tokens
    /\ q.pc # "revoke" => tokens = {}

Refused(q, tokens) == q.pc \in {"take", "answer"} /\ tokens = {} /\ (q.pc = "answer" => ~q.ok)

Inside == (Calling \ {"clear"}) \cup {"idle", "latest", "back", "giveup", "load"}

Live(d) ==
    /\ store[d] # NoToken
    /\ \/ flight[d] = Nobody /\ Busy = {} /\ store[d] \in rec
       \/ flight[d] # Nobody /\ Busy = {} /\ In(flight[d], "store") /\ thr[flight[d]].tok \in rec
       \/ /\ flight[d] # Nobody /\ In(flight[d], "rotating")
          /\ \E r \in Req : req[r].from = flight[d] /\ Fruitful(req[r], rec)

Wiping(d) ==
    /\ rec = {}
    /\ \/ flight[d] = Nobody /\ Busy = {}
       \/ flight[d] # Nobody /\ Busy = {} /\ In(flight[d], "clear")
       \/ /\ flight[d] # Nobody /\ In(flight[d], "rotating")
          /\ \E r \in Req : req[r].from = flight[d] /\ Refused(req[r], rec)

Place(d) ==
    /\ thr[Ui(d)].pc \in Inside => Live(d)
    /\ In(Ui(d), "entering") => \E r \in Req : req[r].from = Ui(d) /\ Entering(req[r], rec)
    /\ In(Ui(d), "save") => Busy = {} /\ thr[Ui(d)].tok \in rec
    /\ In(Ui(d), "leaving") => /\ flight[d] = Nobody
                               /\ \E r \in Req : req[r].from = Ui(d) /\ Leaving(req[r], rec)
    /\ In(Ui(d), "wipe") => Wiping(d)
    /\ ~In(Ui(d), "clear")

Calm ==
    mishaps = {} =>
        /\ verified
        /\ \A r \in Busy : req[r].from # Nobody
        /\ \A d, e \in Device : Held(d) /\ Held(e) => d = e
        /\ \A d \in Device : ~Held(d) => phase[d] # "signedIn"
        /\ (\A d \in Device : ~Held(d)) => rec = {} /\ Busy = {}
        /\ \A d \in Device : Held(d) => Place(d)

CInv == Screens /\ Tidy /\ Calm

----------------------------------------------------------------------------
(* Threads, and what a call does to the thread that makes it *)

LEMMA UiOrSync ==
    /\ \A p \in Thread : \/ p[2] = "ui" /\ p = Ui(Dev(p))
                         \/ p[2] = "sync" /\ \A d \in Device : p # Ui(d)
    /\ \A d \in Device : Ui(d)[2] = "ui"
    /\ \A d, e \in Device : Ui(d) = Ui(e) => d = e
  BY DEF Thread, Ui, Dev

Onward == {"fresh", "turn", "wait", "send"}

\* The call of p goes on, or ends: the synchronisation is over, restore() goes on.
GoesOn(p, l) ==
    /\ p[2] = "sync" => l.pc \in Onward \cup {"idle"} /\ phase' = phase
    /\ p[2] = "ui" => \/ l.pc \in Onward \cup {"latest", "giveup"} /\ phase' = phase
                      \/ l.pc = "idle" /\ phase' = [phase EXCEPT ![Dev(p)] = "signedIn"]

LEMMA CallEnds ==
    ASSUME TypeOK, NEW p \in Thread, NEW outcome \in {"ok", "net", "api"}, EndCall(p, outcome)
    PROVE  \E l \in Local : thr' = [thr EXCEPT ![p] = l] /\ GoesOn(p, l)
  <1>1. Rest \in Local /\ Rest.pc = "idle"
    BY RestType
  <1>2. /\ At0("latest", NoToken) \in Local /\ At0("latest", NoToken).pc = "latest"
        /\ At0("giveup", NoToken) \in Local /\ At0("giveup", NoToken).pc = "giveup"
    <2>1. "latest" \in ThreadPc /\ "giveup" \in ThreadPc /\ NoToken \in Token \cup {NoToken}
      BY DEF ThreadPc
    <2> QED BY <2>1, At0Type
  <1>3. CASE p[2] = "sync"
    BY <1>1, <1>3 DEF EndCall, GoesOn
  <1>4. CASE p[2] # "sync"
    <2>1. CASE outcome = "ok"
      BY <1>2, <1>4, <2>1 DEF EndCall, GoesOn
    <2>2. CASE outcome = "net"
      BY <1>1, <1>4, <2>2 DEF EndCall, GoesOn
    <2>3. CASE outcome = "api"
      BY <1>2, <1>4, <2>3 DEF EndCall, GoesOn
    <2> QED BY <2>1, <2>2, <2>3
  <1> QED BY <1>3, <1>4

LEMMA CallResumes ==
    ASSUME TypeOK, NEW p \in Thread, NEW b \in BOOLEAN, Refreshed(p, b)
    PROVE  \E l \in Local : thr' = [thr EXCEPT ![p] = l] /\ GoesOn(p, l)
  <1>1. thr[p] \in Local /\ thr[p].due \in {"before", "after"}
    BY DEF TypeOK, Local
  <1>2. CASE thr[p].due = "before"
    <2> DEFINE l == [thr[p] EXCEPT !.pc = "send", !.tok = NoToken]
    <2>1. l \in Local /\ l.pc = "send"
      BY <1>1 DEF Local, ThreadPc
    <2>2. thr' = [thr EXCEPT ![p] = l] /\ phase' = phase
      BY <1>2, Kept DEF Refreshed
    <2> HIDE DEF l
    <2> QED BY <2>1, <2>2 DEF GoesOn, Onward
  <1>3. CASE thr[p].due = "after" /\ b
    <2> DEFINE l == [At0("fresh", NoToken) EXCEPT !.retry = FALSE]
    <2>1. l \in Local /\ l.pc = "fresh"
      BY DEF At0, Local, ThreadPc
    <2>2. thr' = [thr EXCEPT ![p] = l] /\ phase' = phase
      BY <1>3 DEF Refreshed
    <2> HIDE DEF l
    <2> QED BY <2>1, <2>2 DEF GoesOn, Onward
  <1>4. CASE thr[p].due = "after" /\ ~b
    <2>1. EndCall(p, "api")
      BY <1>4 DEF Refreshed
    <2> QED BY <2>1, CallEnds
  <1> QED BY <1>1, <1>2, <1>3, <1>4

\* A step of a call that neither posts, stores nor clears.
LEMMA CallGoesOn ==
    ASSUME TypeOK, NEW p \in Thread,
           \/ Fresh(p) \/ Wait(p) \/ Send(p)
           \/ Turn(p) /\ ~(flight[Dev(p)] = Nobody /\ store[Dev(p)] # NoToken)
    PROVE  /\ \E l \in Local : thr' = [thr EXCEPT ![p] = l] /\ GoesOn(p, l)
           /\ thr[p].pc \in Onward
           /\ UNCHANGED <<rec, sess, minted, verified, req, store, flight, mishaps>>
  <1>1. {"send", "wait", "turn"} \subseteq ThreadPc /\ thr[p] \in Local
    BY DEF ThreadPc, TypeOK
  <1>2. ASSUME NEW pc \in {"send", "wait"}, Go(p, pc), phase' = phase
        PROVE  \E l \in Local : thr' = [thr EXCEPT ![p] = l] /\ GoesOn(p, l)
    BY <1>1, <1>2, GoIs DEF GoesOn, Onward
  <1>3. ASSUME NEW due \in {"before", "after"}, phase' = phase,
               thr' = [thr EXCEPT ![p].pc = "turn", ![p].due = due]
        PROVE  \E l \in Local : thr' = [thr EXCEPT ![p] = l] /\ GoesOn(p, l)
    <2>1. PICK l \in Local : l = [thr[p] EXCEPT !.pc = "turn", !.due = due] /\ l.pc = "turn"
      <3>1. [thr[p] EXCEPT !.pc = "turn", !.due = due] \in Local
        BY <1>1 DEF Local
      <3>2. [thr[p] EXCEPT !.pc = "turn", !.due = due].pc = "turn"
        BY <1>1 DEF Local
      <3> QED BY <3>1, <3>2
    <2>2. thr' = [thr EXCEPT ![p] = l]
      BY <1>3, <2>1 DEF TypeOK
    <2> QED BY <1>3, <2>1, <2>2 DEF GoesOn, Onward
  <1>4. CASE Fresh(p)
    BY <1>2, <1>3, <1>4 DEF Fresh, In, Onward, server
  <1>5. CASE Wait(p)
    BY <1>5, CallResumes DEF Wait, In, Onward, server
  <1>6. CASE Send(p)
    <2>1. \/ EndCall(p, "ok") \/ EndCall(p, "net") \/ EndCall(p, "api")
          \/ thr' = [thr EXCEPT ![p].pc = "turn", ![p].due = "after"] /\ phase' = phase
      BY <1>6 DEF Send
    <2>2. \E l \in Local : thr' = [thr EXCEPT ![p] = l] /\ GoesOn(p, l)
      BY <1>3, <2>1, CallEnds
    <2> QED BY <1>6, <2>2 DEF Send, In, Onward, server
  <1>7. CASE Turn(p) /\ ~(flight[Dev(p)] = Nobody /\ store[Dev(p)] # NoToken)
    <2>1. \/ Go(p, "wait") /\ phase' = phase
          \/ Refreshed(p, FALSE)
      BY <1>7 DEF Turn
    <2>2. \E l \in Local : thr' = [thr EXCEPT ![p] = l] /\ GoesOn(p, l)
      BY <1>2, <2>1, CallResumes
    <2> QED BY <1>7, <2>2 DEF Turn, In, Onward, server
  <1> QED BY <1>4, <1>5, <1>6, <1>7

----------------------------------------------------------------------------
(* Screens *)

LEMMA ScreensMove ==
    ASSUME IInv, Screens, NEW p \in Thread, NEW l \in Local, thr' = [thr EXCEPT ![p] = l],
           p[2] = "sync" => l.pc \in Calling \cup {"idle"},
           \A d \in Device : p # Ui(d) => phase'[d] = phase[d],
           \A d \in Device : p = Ui(d) => l.pc \in AtPhase[phase'[d]]
    PROVE  Screens'
  <1>1. /\ thr'[p] = l
        /\ \A o \in Thread \ {p} : thr'[o] = thr[o]
    BY Turned DEF IInv
  <1>2. \A o \in Thread : o[2] = "sync" => thr'[o].pc \in Calling \cup {"idle"}
    BY <1>1 DEF Screens
  <1>3. ASSUME NEW d \in Device
        PROVE  thr'[Ui(d)].pc \in AtPhase[phase'[d]]
    <2>1. CASE p = Ui(d)
      BY <1>1, <2>1
    <2>2. CASE p # Ui(d)
      <3>1. thr'[Ui(d)] = thr[Ui(d)]
        BY <1>1, <2>2, Threads
      <3> QED BY <2>2, <3>1 DEF Screens
    <2> QED BY <2>1, <2>2
  <1> QED BY <1>2, <1>3 DEF Screens

\* Only restore() calls from the screens.
LEMMA Restoring ==
    ASSUME IInv, Screens, NEW d \in Device,
           thr[Ui(d)].pc \in Calling \cup {"latest", "back", "giveup"}
    PROVE  phase[d] = "bootstrapping"
  <1>1. phase[d] \in Phase /\ thr[Ui(d)].pc \in AtPhase[phase[d]]
    BY DEF Screens, IInv, TypeOK
  <1> QED BY <1>1 DEF AtPhase, Phase, Calling

LEMMA CallingScreens ==
    ASSUME IInv, Screens, NEW p \in Thread, thr[p].pc \in Calling,
           NEW l \in Local, thr' = [thr EXCEPT ![p] = l],
           GoesOn(p, l) \/ (l.pc \in Calling /\ phase' = phase)
    PROVE  Screens'
  <1>1. CASE p[2] = "sync"
    BY <1>1, UiOrSync, ScreensMove DEF GoesOn, Onward, Calling
  <1>2. CASE p = Ui(Dev(p)) /\ p[2] = "ui"
    <2>1. Dev(p) \in Device /\ phase[Dev(p)] = "bootstrapping"
      BY <1>2, Threads, Restoring
    <2>2. \A d \in Device : p # Ui(d) <=> d # Dev(p)
      BY <1>2, <2>1, UiOrSync
    <2>3. phase \in [Device -> Phase]
      BY DEF IInv, TypeOK
    <2>4. \/ phase' = phase /\ l.pc \in Calling \cup {"latest", "giveup"}
          \/ phase' = [phase EXCEPT ![Dev(p)] = "signedIn"] /\ l.pc = "idle"
      BY <1>2 DEF GoesOn, Onward, Calling
    <2>5. \A d \in Device : p # Ui(d) => phase'[d] = phase[d]
      BY <2>2, <2>3, <2>4
    <2>6. l.pc \in AtPhase[phase'[Dev(p)]]
      <3>1. CASE phase' = phase /\ l.pc \in Calling \cup {"latest", "giveup"}
        BY <2>1, <3>1 DEF AtPhase
      <3>2. CASE phase' = [phase EXCEPT ![Dev(p)] = "signedIn"] /\ l.pc = "idle"
        <4>1. phase'[Dev(p)] = "signedIn"
          BY <2>1, <2>3, <3>2
        <4> QED BY <3>2, <4>1 DEF AtPhase
      <3> QED BY <2>4, <3>1, <3>2
    <2> QED BY <1>2, <2>2, <2>5, <2>6, ScreensMove
  <1> QED BY <1>1, <1>2, UiOrSync

LEMMA ScreensKept ==
    ASSUME Screens, UNCHANGED <<thr, phase>>
    PROVE  Screens'
  BY DEF Screens

LEMMA PostIs ==
    ASSUME TypeOK, NEW p \in Thread, NEW kind \in {"login", "refresh", "logout"},
           NEW t \in Token \cup {NoToken}, NEW pc \in {"auth", "take", "revoke"},
           Post(p, kind, t, pc)
    PROVE  \E r \in Req, q \in Request :
              /\ req[r].pc = "free" /\ req' = [req EXCEPT ![r] = q]
              /\ q.pc = pc /\ q.kind = kind /\ q.tok = t /\ q.from = p
  <1>1. PICK r \in Req :
            /\ req[r].pc = "free"
            /\ req' = [req EXCEPT ![r] = [Free EXCEPT !.pc = pc, !.kind = kind, !.tok = t,
                                                      !.from = p]]
    BY DEF Post, On
  <1>2. [Free EXCEPT !.pc = pc, !.kind = kind, !.tok = t, !.from = p] \in Request
    BY DEF Free, Request, ServerPc
  <1>3. LET q == [Free EXCEPT !.pc = pc, !.kind = kind, !.tok = t, !.from = p]
        IN  q.pc = pc /\ q.kind = kind /\ q.tok = t /\ q.from = p
    BY DEF Free
  <1> QED BY <1>1, <1>2, <1>3

\* What an answer does, by what was asked for.
LEMMA AnswerIs ==
    ASSUME IInv, NEW r \in Req, Answer(r), req[r].from # Nobody
    PROVE  /\ req[r].from \in Thread /\ req[r].pc = "answer"
           /\ thr[req[r].from].pc = Awaits[req[r].kind]
           /\ \E l \in Local :
                /\ thr' = [thr EXCEPT ![req[r].from] = l]
                /\ \/ req[r].kind = "logout" /\ l.pc = "wipe" /\ phase' = phase
                   \/ req[r].kind = "refresh" /\ req[r].ok /\ phase' = phase
                      /\ l.pc = "store" /\ l.tok = req[r].new
                   \/ req[r].kind = "refresh" /\ ~req[r].ok /\ l.pc = "clear" /\ phase' = phase
                   \/ req[r].kind = "login" /\ req[r].ok /\ phase' = phase
                      /\ l.pc = "save" /\ l.tok = req[r].new
                   \/ req[r].kind = "login" /\ ~req[r].ok /\ l.pc = "idle"
                      /\ \/ phase' = phase
                         \/ phase' = [phase EXCEPT ![Dev(req[r].from)] = "pendingJuridica"]
  <1> DEFINE p == req[r].from
  <1>1. /\ req[r] \in Request /\ p \in Thread /\ req[r].pc = "answer"
        /\ req[r].kind \in {"login", "refresh", "logout"} /\ req[r].new \in Token \cup {NoToken}
    BY DEF IInv, TypeOK, Request, Answer, On
  <1>2. thr[p].pc = Awaits[req[r].kind]
    BY DEF IInv, Waiting
  <1>3. /\ thr' = [thr EXCEPT ![p] = Answered(p, req[r])]
        /\ \/ UNCHANGED phase
           \/ /\ req[r].kind = "login" /\ ~req[r].ok
              /\ phase' = [phase EXCEPT ![Dev(p)] = "pendingJuridica"]
    BY DEF Answer
  <1>4. thr[p] \in Local /\ {"wipe", "store", "clear", "save"} \subseteq ThreadPc
    BY <1>1 DEF IInv, TypeOK, ThreadPc
  <1>5. CASE req[r].kind = "logout"
    <2>1. Answered(p, req[r]) = [thr[p] EXCEPT !.pc = "wipe"]
      BY <1>5 DEF Answered
    <2>2. [thr[p] EXCEPT !.pc = "wipe"] \in Local /\ [thr[p] EXCEPT !.pc = "wipe"].pc = "wipe"
      BY <1>4 DEF Local
    <2> QED BY <1>1, <1>2, <1>3, <1>5, <2>1, <2>2
  <1>6. CASE req[r].kind = "refresh" /\ req[r].ok
    <2>1. Answered(p, req[r]) = [thr[p] EXCEPT !.pc = "store", !.tok = req[r].new]
      BY <1>6 DEF Answered
    <2>2. [thr[p] EXCEPT !.pc = "store", !.tok = req[r].new] \in Local
      BY <1>1, <1>4 DEF Local
    <2>3. /\ [thr[p] EXCEPT !.pc = "store", !.tok = req[r].new].pc = "store"
          /\ [thr[p] EXCEPT !.pc = "store", !.tok = req[r].new].tok = req[r].new
      BY <1>4 DEF Local
    <2> QED BY <1>1, <1>2, <1>3, <1>6, <2>1, <2>2, <2>3
  <1>7. CASE req[r].kind = "refresh" /\ ~req[r].ok
    <2>1. Answered(p, req[r]) = [thr[p] EXCEPT !.pc = "clear"]
      BY <1>7 DEF Answered
    <2>2. [thr[p] EXCEPT !.pc = "clear"] \in Local /\ [thr[p] EXCEPT !.pc = "clear"].pc = "clear"
      BY <1>4 DEF Local
    <2> QED BY <1>1, <1>2, <1>3, <1>7, <2>1, <2>2
  <1>8. CASE req[r].kind = "login" /\ req[r].ok
    <2>1. Answered(p, req[r]) = At0("save", req[r].new)
      BY <1>8 DEF Answered
    <2>2. /\ At0("save", req[r].new) \in Local /\ At0("save", req[r].new).pc = "save"
          /\ At0("save", req[r].new).tok = req[r].new
      BY <1>1, <1>4, At0Type DEF At0
    <2> QED BY <1>1, <1>2, <1>3, <1>8, <2>1, <2>2
  <1>9. CASE req[r].kind = "login" /\ ~req[r].ok
    <2>1. Answered(p, req[r]) = Rest
      BY <1>9 DEF Answered
    <2> QED BY <1>1, <1>2, <1>3, <1>9, <2>1, RestType
  <1> QED BY <1>1, <1>5, <1>6, <1>7, <1>8, <1>9

\* A step of the screens of a device moves the other devices' nowhere.
LEMMA ScreensAt ==
    ASSUME IInv, Screens, NEW d \in Device, NEW l \in Local, thr' = [thr EXCEPT ![Ui(d)] = l],
           NEW f \in Phase, phase' = phase \/ phase' = [phase EXCEPT ![d] = f],
           l.pc \in AtPhase[phase'[d]]
    PROVE  Screens'
  <1>1. phase \in [Device -> Phase]
    BY DEF IInv, TypeOK
  <1>2. \A e \in Device : Ui(d) # Ui(e) => phase'[e] = phase[e]
    BY <1>1
  <1>3. \A e \in Device : Ui(d) = Ui(e) => l.pc \in AtPhase[phase'[e]]
    BY UiOrSync
  <1>4. Ui(d) \in Thread /\ Ui(d)[2] = "ui"
    BY Threads, UiOrSync
  <1> QED BY <1>2, <1>3, <1>4, ScreensMove

\* The phases a thread of the screens may be in.
LEMMA PhaseOf ==
    ASSUME NEW f \in Phase, NEW pc \in AtPhase[f]
    PROVE  /\ pc \in {"entering", "save", "load"} => f \in Outside
           /\ pc \in {"leaving", "wipe"} => f = "signedIn"
           /\ pc \in Calling \cup {"latest", "back", "giveup"} => f = "bootstrapping"
  <1>1. CASE f = "bootstrapping"
    BY <1>1 DEF AtPhase, Calling
  <1>2. CASE f \in Outside
    <2>1. pc \in {"idle", "entering", "save", "load"}
      BY <1>2 DEF AtPhase, Outside
    <2> QED BY <1>2, <2>1 DEF Calling
  <1>3. CASE f = "signedIn"
    BY <1>3 DEF AtPhase, Calling
  <1> QED BY <1>1, <1>2, <1>3 DEF Phase, Outside

LEMMA AnswerScreens ==
    ASSUME IInv, Screens, NEW r \in Req, Answer(r)
    PROVE  Screens'
  <1>1. CASE req[r].from = Nobody
    BY <1>1, ScreensKept DEF Answer
  <1>2. CASE req[r].from # Nobody
    <2> DEFINE p == req[r].from
               d == Dev(req[r].from)
    <2>1. /\ p \in Thread /\ d \in Device
          /\ thr[p].pc = Awaits[req[r].kind] /\ req[r].kind \in {"login", "refresh", "logout"}
      BY <1>2, AnswerIs, Threads DEF IInv, TypeOK, Request
    <2>2. PICK l \in Local :
            /\ thr' = [thr EXCEPT ![p] = l]
            /\ \/ req[r].kind = "logout" /\ l.pc = "wipe" /\ phase' = phase
               \/ req[r].kind = "refresh" /\ l.pc \in {"store", "clear"} /\ phase' = phase
               \/ req[r].kind = "login" /\ l.pc \in {"save", "idle"}
                  /\ (phase' = phase \/ phase' = [phase EXCEPT ![d] = "pendingJuridica"])
      BY <1>2, AnswerIs
    <2>3. CASE req[r].kind = "refresh"
      <3>1. thr[p].pc \in Calling /\ l.pc \in Calling /\ phase' = phase
        BY <2>1, <2>2, <2>3 DEF Awaits, Calling
      <3> QED BY <2>1, <2>2, <3>1, CallingScreens
    <2>4. CASE req[r].kind # "refresh"
      <3>1. thr[p].pc \in {"entering", "leaving"}
        BY <2>1, <2>4 DEF Awaits
      <3>2. p = Ui(d)
        BY <2>1, <3>1, UiOrSync DEF Screens, Calling
      <3>3. thr[p].pc \in AtPhase[phase[d]] /\ phase[d] \in Phase
        BY <2>1, <3>2 DEF Screens, IInv, TypeOK
      <3>4. \/ phase[d] \in Outside /\ req[r].kind = "login"
            \/ phase[d] = "signedIn" /\ req[r].kind = "logout"
        <4>1. CASE req[r].kind = "login"
          <5>1. thr[p].pc = "entering"
            BY <2>1, <4>1 DEF Awaits
          <5> QED BY <3>3, <4>1, <5>1, PhaseOf
        <4>2. CASE req[r].kind = "logout"
          <5>1. thr[p].pc = "leaving"
            BY <2>1, <4>2 DEF Awaits
          <5> QED BY <3>3, <4>2, <5>1, PhaseOf
        <4> QED BY <2>1, <2>4, <4>1, <4>2
      <3>5. phase' = phase \/ (phase' = [phase EXCEPT ![d] = "pendingJuridica"]
                                /\ phase'[d] = "pendingJuridica" /\ req[r].kind = "login")
        BY <2>1, <2>2, <2>4 DEF IInv, TypeOK
      <3>6. l.pc \in AtPhase[phase'[d]]
        BY <2>2, <2>4, <3>4, <3>5 DEF AtPhase, Outside
      <3>7. "pendingJuridica" \in Phase
        BY DEF Phase
      <3> QED BY <2>1, <2>2, <3>2, <3>5, <3>6, <3>7, ScreensAt
    <2> QED BY <2>3, <2>4
  <1> QED BY <1>1, <1>2

\* What each step of the screens does to the phase and to where they are.
LEMMA UiIs ==
    ASSUME IInv, Screens, NEW d \in Device, UiStep(d)
    PROVE  /\ UNCHANGED <<rec, sess, minted, verified, req, flight, faults>>
           /\ mishaps \subseteq mishaps'
           /\ thr[Ui(d)].pc # "idle" \/ phase[d] = "bootstrapping"
           /\ \E l \in Local :
                /\ thr' = [thr EXCEPT ![Ui(d)] = l] \/ (thr' = thr /\ l = thr[Ui(d)])
                /\ \/ /\ In(Ui(d), "idle") /\ store[d] = NoToken /\ l.pc = "idle"
                      /\ store' = store /\ phase' = [phase EXCEPT ![d] = "guest"]
                   \/ /\ In(Ui(d), "idle") /\ store[d] # NoToken /\ l.pc = "fresh"
                      /\ store' = store /\ phase' = phase
                   \/ /\ In(Ui(d), "latest") /\ store[d] = NoToken /\ l.pc = "idle"
                      /\ store' = store /\ phase' = [phase EXCEPT ![d] = "guest"]
                   \/ /\ In(Ui(d), "latest") /\ store[d] # NoToken /\ l.pc = "back"
                      /\ store' = store /\ phase' = phase
                   \/ /\ In(Ui(d), "back") /\ l.pc = "idle"
                      /\ "late" \notin mishaps' => store' = store
                      /\ \A e \in Device : e # d => store'[e] = store[e]
                      /\ phase' = [phase EXCEPT ![d] = "signedIn"]
                   \/ /\ thr[Ui(d)].pc \in {"giveup", "wipe"} /\ l.pc = "idle"
                      /\ "late" \notin mishaps' => flight[d] = Nobody
                      /\ In(Ui(d), "giveup") => "lost" \in mishaps'
                      /\ store' = [store EXCEPT ![d] = NoToken]
                      /\ phase' = [phase EXCEPT ![d] = "guest"]
                   \/ /\ In(Ui(d), "save") /\ l.pc = "load"
                      /\ store' = [store EXCEPT ![d] = thr[Ui(d)].tok] /\ phase' = phase
                   \/ /\ In(Ui(d), "load") /\ l.pc = "idle" /\ store' = store
                      /\ phase' = IF store[d] = NoToken THEN phase
                                  ELSE [phase EXCEPT ![d] = "signedIn"]
  <1>1. /\ Ui(d) \in Thread /\ thr[Ui(d)] \in Local /\ Rest \in Local /\ Rest.pc = "idle"
        /\ store[d] \in Token \cup {NoToken} /\ NoToken \in Token \cup {NoToken}
        /\ {"fresh", "back", "load"} \subseteq ThreadPc
        /\ store \in [Device -> Token \cup {NoToken}]
    BY Threads, RestType DEF IInv, TypeOK, ThreadPc
  <1>2. CASE Restore(d)
    <2>1. CASE store[d] = NoToken
      <3>1. /\ In(Ui(d), "idle") /\ phase[d] = "bootstrapping" /\ thr' = thr
            /\ store' = store /\ phase' = [phase EXCEPT ![d] = "guest"]
            /\ UNCHANGED <<rec, sess, minted, verified, req, flight, faults>>
            /\ mishaps \subseteq mishaps'
        BY <1>2, <2>1 DEF Restore, server
      <3> QED BY <1>1, <2>1, <3>1 DEF In
    <2>2. CASE store[d] # NoToken
      <3>1. /\ In(Ui(d), "idle") /\ phase[d] = "bootstrapping"
            /\ thr' = [thr EXCEPT ![Ui(d)] = At0("fresh", NoToken)]
            /\ store' = store /\ phase' = phase
            /\ UNCHANGED <<rec, sess, minted, verified, req, flight, faults>>
            /\ mishaps \subseteq mishaps'
        BY <1>2, <2>2 DEF Restore, server
      <3>2. At0("fresh", NoToken) \in Local /\ At0("fresh", NoToken).pc = "fresh"
        BY <1>1, At0Type
      <3> QED BY <2>2, <3>1, <3>2
    <2> QED BY <2>1, <2>2
  <1>3. CASE Latest(d)
    <2>1. CASE store[d] = NoToken
      <3>1. /\ In(Ui(d), "latest") /\ thr' = [thr EXCEPT ![Ui(d)] = Rest]
            /\ store' = store /\ phase' = [phase EXCEPT ![d] = "guest"]
            /\ UNCHANGED <<rec, sess, minted, verified, req, flight, faults>>
            /\ mishaps \subseteq mishaps'
        BY <1>3, <2>1 DEF Latest, server
      <3> QED BY <1>1, <2>1, <3>1 DEF In
    <2>2. CASE store[d] # NoToken
      <3>1. /\ In(Ui(d), "latest") /\ thr' = [thr EXCEPT ![Ui(d)] = At0("back", store[d])]
            /\ store' = store /\ phase' = phase
            /\ UNCHANGED <<rec, sess, minted, verified, req, flight, faults>>
            /\ mishaps \subseteq mishaps'
        BY <1>3, <2>2 DEF Latest, server
      <3>2. At0("back", store[d]) \in Local /\ At0("back", store[d]).pc = "back"
        BY <1>1, At0Type
      <3> QED BY <2>2, <3>1, <3>2 DEF In
    <2> QED BY <2>1, <2>2
  <1>4. CASE WriteBack(d)
    <2>1. /\ In(Ui(d), "back") /\ thr' = [thr EXCEPT ![Ui(d)] = Rest]
          /\ store' = [store EXCEPT ![d] = thr[Ui(d)].tok]
          /\ phase' = [phase EXCEPT ![d] = "signedIn"]
          /\ UNCHANGED <<rec, sess, minted, verified, req, flight, faults>>
          /\ mishaps \subseteq mishaps'
          /\ store[d] # thr[Ui(d)].tok => "late" \in mishaps'
      BY <1>4 DEF WriteBack, server
    <2>2. "late" \notin mishaps' => store' = store
      BY <1>1, <2>1
    <2>3. \A e \in Device : e # d => store'[e] = store[e]
      BY <1>1, <2>1
    <2> QED BY <1>1, <2>1, <2>2, <2>3 DEF In
  <1>5. CASE Leave(d)
    <2>1. /\ thr[Ui(d)].pc \in {"giveup", "wipe"} /\ thr' = [thr EXCEPT ![Ui(d)] = Rest]
          /\ store' = [store EXCEPT ![d] = NoToken]
          /\ phase' = [phase EXCEPT ![d] = "guest"]
          /\ "late" \notin mishaps' => flight[d] = Nobody
          /\ In(Ui(d), "giveup") => "lost" \in mishaps'
          /\ UNCHANGED <<rec, sess, minted, verified, req, flight, faults>>
          /\ mishaps \subseteq mishaps'
      BY <1>5 DEF Leave, Refreshing, server
    <2> QED BY <1>1, <2>1
  <1>6. CASE Save(d)
    <2>1. /\ In(Ui(d), "save") /\ Go(Ui(d), "load") /\ phase' = phase
          /\ store' = [store EXCEPT ![d] = thr[Ui(d)].tok]
          /\ UNCHANGED <<rec, sess, minted, verified, req, flight, faults>>
          /\ mishaps \subseteq mishaps'
      BY <1>6 DEF Save, server
    <2>2. PICK l \in Local : thr' = [thr EXCEPT ![Ui(d)] = l] /\ l.pc = "load"
      BY <1>1, <2>1, GoIs DEF IInv
    <2> QED BY <2>1, <2>2 DEF In
  <1>7. CASE Load(d)
    <2>1. /\ In(Ui(d), "load") /\ thr' = [thr EXCEPT ![Ui(d)] = Rest] /\ store' = store
          /\ phase' = IF store[d] = NoToken THEN phase ELSE [phase EXCEPT ![d] = "signedIn"]
          /\ UNCHANGED <<rec, sess, minted, verified, req, flight, faults>>
          /\ mishaps \subseteq mishaps'
      BY <1>7 DEF Load, server
    <2> QED BY <1>1, <2>1 DEF In
  <1> QED BY <1>2, <1>3, <1>4, <1>5, <1>6, <1>7 DEF UiStep

LEMMA UiScreens ==
    ASSUME IInv, Screens, NEW d \in Device, UiStep(d)
    PROVE  Screens'
  <1>1. phase \in [Device -> Phase] /\ phase[d] \in Phase /\ thr[Ui(d)].pc \in AtPhase[phase[d]]
        /\ thr \in [Thread -> Local] /\ Ui(d) \in Thread
    BY Threads DEF IInv, TypeOK, Screens
  <1>2. PICK l \in Local :
          /\ thr' = [thr EXCEPT ![Ui(d)] = l] \/ (thr' = thr /\ l = thr[Ui(d)])
          /\ \/ thr[Ui(d)].pc \in {"idle", "latest", "giveup", "wipe"} /\ l.pc = "idle"
                /\ phase' = [phase EXCEPT ![d] = "guest"]
             \/ thr[Ui(d)].pc \in {"back", "load"} /\ l.pc = "idle"
                /\ phase' = [phase EXCEPT ![d] = "signedIn"]
             \/ thr[Ui(d)].pc = "load" /\ l.pc = "idle" /\ phase' = phase
             \/ thr[Ui(d)].pc = "idle" /\ phase[d] = "bootstrapping" /\ l.pc = "fresh"
                /\ phase' = phase
             \/ thr[Ui(d)].pc = "latest" /\ l.pc = "back" /\ phase' = phase
             \/ thr[Ui(d)].pc = "save" /\ l.pc = "load" /\ phase' = phase
    BY UiIs DEF In
  <1>3. thr' = [thr EXCEPT ![Ui(d)] = l]
    BY <1>1, <1>2
  <1>4. CASE thr[Ui(d)].pc \in {"idle", "latest", "giveup", "wipe"} /\ l.pc = "idle"
             /\ phase' = [phase EXCEPT ![d] = "guest"]
    <2>1. "guest" \in Phase /\ phase'[d] = "guest" /\ l.pc \in AtPhase["guest"]
      BY <1>1, <1>4 DEF Phase, AtPhase
    <2> QED BY <1>3, <1>4, <2>1, ScreensAt
  <1>5. CASE thr[Ui(d)].pc \in {"back", "load"} /\ l.pc = "idle"
             /\ phase' = [phase EXCEPT ![d] = "signedIn"]
    <2>1. "signedIn" \in Phase /\ phase'[d] = "signedIn" /\ l.pc \in AtPhase["signedIn"]
      BY <1>1, <1>5 DEF Phase, AtPhase
    <2> QED BY <1>3, <1>5, <2>1, ScreensAt
  <1>6. ASSUME phase' = phase, l.pc \in AtPhase[phase[d]]
        PROVE  Screens'
    BY <1>1, <1>3, <1>6, ScreensAt
  <1>7. CASE thr[Ui(d)].pc = "load" /\ l.pc = "idle" /\ phase' = phase
    BY <1>1, <1>6, <1>7 DEF AtPhase, Phase, Calling
  <1>8. CASE thr[Ui(d)].pc = "idle" /\ phase[d] = "bootstrapping" /\ l.pc = "fresh"
             /\ phase' = phase
    BY <1>1, <1>6, <1>8 DEF AtPhase, Calling
  <1>9. CASE thr[Ui(d)].pc = "latest" /\ l.pc = "back" /\ phase' = phase
    BY <1>1, <1>6, <1>9 DEF AtPhase, Phase, Calling
  <1>10. CASE thr[Ui(d)].pc = "save" /\ l.pc = "load" /\ phase' = phase
    BY <1>1, <1>6, <1>10 DEF AtPhase, Phase, Calling
  <1> QED BY <1>2, <1>4, <1>5, <1>7, <1>8, <1>9, <1>10

LEMMA PostScreens ==
    ASSUME IInv, Screens,
           NEW p \in Thread, NEW l \in Local, thr' = [thr EXCEPT ![p] = l], phase' = phase,
           \/ thr[p].pc = "turn" /\ l.pc = "rotating"
           \/ p[2] = "ui" /\ phase[Dev(p)] \in Outside /\ l.pc = "entering"
           \/ p[2] = "ui" /\ phase[Dev(p)] = "signedIn" /\ l.pc \in {"leaving", "wipe"}
    PROVE  Screens'
  <1>1. CASE thr[p].pc = "turn" /\ l.pc = "rotating"
    BY <1>1, CallingScreens DEF Calling
  <1>2. CASE p[2] = "ui" /\ phase[Dev(p)] \in Outside /\ l.pc = "entering"
    <2>1. p = Ui(Dev(p)) /\ Dev(p) \in Device /\ l.pc \in AtPhase[phase[Dev(p)]]
      BY <1>2, UiOrSync, Threads DEF AtPhase, Outside
    <2> QED BY <2>1, ScreensAt DEF IInv, TypeOK
  <1>3. CASE p[2] = "ui" /\ phase[Dev(p)] = "signedIn" /\ l.pc \in {"leaving", "wipe"}
    <2>1. p = Ui(Dev(p)) /\ Dev(p) \in Device /\ l.pc \in AtPhase[phase[Dev(p)]]
      BY <1>3, UiOrSync, Threads DEF AtPhase
    <2> QED BY <2>1, ScreensAt DEF IInv, TypeOK
  <1> QED BY <1>1, <1>2, <1>3

LEMMA LoginScreens ==
    ASSUME IInv, Screens, NEW d \in Device, Login(d)
    PROVE  Screens'
  <1>1. /\ phase[d] \in Outside /\ Go(Ui(d), "entering") /\ phase' = phase
        /\ "entering" \in ThreadPc /\ Ui(d) \in Thread /\ Dev(Ui(d)) = d /\ Ui(d)[2] = "ui"
    BY Threads, UiOrSync DEF Login, Outside, ThreadPc
  <1>2. PICK l \in Local : thr' = [thr EXCEPT ![Ui(d)] = l] /\ l.pc = "entering"
    BY <1>1, GoIs DEF IInv
  <1> QED BY <1>1, <1>2, PostScreens

LEMMA LogoutScreens ==
    ASSUME IInv, Screens, NEW d \in Device, Logout(d)
    PROVE  Screens'
  <1>1. /\ phase[d] = "signedIn" /\ phase' = phase
        /\ Go(Ui(d), "wipe") \/ Go(Ui(d), "leaving")
        /\ {"leaving", "wipe"} \subseteq ThreadPc
        /\ Ui(d) \in Thread /\ Dev(Ui(d)) = d /\ Ui(d)[2] = "ui"
    BY Threads, UiOrSync DEF Logout, ThreadPc
  <1>2. PICK l \in Local : thr' = [thr EXCEPT ![Ui(d)] = l] /\ l.pc \in {"leaving", "wipe"}
    BY <1>1, GoIs DEF IInv
  <1> QED BY <1>1, <1>2, PostScreens

LEMMA TurnScreens ==
    ASSUME IInv, Screens, NEW p \in Thread, Turn(p)
    PROVE  Screens'
  <1>1. CASE flight[Dev(p)] = Nobody /\ store[Dev(p)] # NoToken
    <2>1. thr[p].pc = "turn" /\ phase' = phase /\ Go(p, "rotating") /\ "rotating" \in ThreadPc
      BY <1>1 DEF Turn, In, ThreadPc
    <2>2. PICK l \in Local : thr' = [thr EXCEPT ![p] = l] /\ l.pc = "rotating"
      BY <2>1, GoIs DEF IInv
    <2> QED BY <2>1, <2>2, PostScreens
  <1>2. CASE ~(flight[Dev(p)] = Nobody /\ store[Dev(p)] # NoToken)
    BY <1>2, CallGoesOn, CallingScreens DEF IInv, Onward, Calling
  <1> QED BY <1>1, <1>2

LEMMA CallScreens ==
    ASSUME IInv, Screens, NEW p \in Thread, CallStep(p)
    PROVE  Screens'
  <1>1. CASE Fresh(p) \/ Wait(p) \/ Send(p)
    BY <1>1, CallGoesOn, CallingScreens DEF IInv, Onward, Calling
  <1>2. CASE Turn(p)
    BY <1>2, TurnScreens
  <1>3. CASE Store(p) \/ Clear(p)
    <2>1. thr[p].pc \in Calling /\ \E b \in BOOLEAN : Refreshed(p, b)
      BY <1>3 DEF Store, Clear, In, Calling
    <2> QED BY <2>1, CallResumes, CallingScreens DEF IInv
  <1>4. CASE Timeout(p)
    <2>1. CASE thr[p].pc = "rotating"
      <3>1. EndCall(p, "net") /\ thr[p].pc \in Calling
        BY <1>4, <2>1 DEF Timeout, In, Calling
      <3> QED BY <3>1, CallEnds, CallingScreens DEF IInv
    <2>2. CASE thr[p].pc \in {"entering", "leaving"}
      <3>1. p = Ui(Dev(p)) /\ Dev(p) \in Device /\ phase' = phase
        BY <1>4, <2>2, UiOrSync, Threads DEF Timeout, In, Screens, Calling
      <3>2. phase[Dev(p)] \in Phase /\ thr[p].pc \in AtPhase[phase[Dev(p)]]
        BY <3>1 DEF IInv, TypeOK, Screens
      <3>3. PICK l \in Local : /\ thr' = [thr EXCEPT ![p] = l]
                               /\ l.pc = "idle" \/ (l.pc = "wipe" /\ thr[p].pc = "leaving")
        <4>1. CASE thr[p].pc = "entering"
          BY <1>4, <4>1, RestType DEF Timeout, In
        <4>2. CASE thr[p].pc = "leaving"
          <5>1. Go(p, "wipe") /\ "wipe" \in ThreadPc
            BY <1>4, <4>2 DEF Timeout, In, ThreadPc
          <5> QED BY <4>2, <5>1, GoIs DEF IInv
        <4> QED BY <2>2, <4>1, <4>2
      <3>4. l.pc \in AtPhase[phase[Dev(p)]]
        BY <3>2, <3>3, PhaseOf DEF AtPhase, Phase
      <3> QED BY <3>1, <3>2, <3>3, <3>4, ScreensAt
    <2> QED BY <1>4, <2>1, <2>2 DEF Timeout
  <1> QED BY <1>1, <1>2, <1>3, <1>4 DEF CallStep

LEMMA SyncStartScreens ==
    ASSUME IInv, Screens, NEW p \in Thread, SyncStart(p)
    PROVE  Screens'
  <1>1. /\ p[2] = "sync" /\ thr' = [thr EXCEPT ![p] = At0("fresh", NoToken)] /\ phase' = phase
        /\ "fresh" \in ThreadPc /\ NoToken \in Token \cup {NoToken}
    BY DEF SyncStart, ThreadPc
  <1>2. At0("fresh", NoToken) \in Local /\ At0("fresh", NoToken).pc = "fresh"
    BY <1>1, At0Type
  <1>3. \A d \in Device : p # Ui(d)
    BY <1>1, UiOrSync
  <1> QED BY <1>1, <1>2, <1>3, ScreensMove DEF Calling

LEMMA KillScreens ==
    ASSUME IInv, Screens, NEW d \in Device, Kill(d)
    PROVE  Screens'
  <1>1. /\ thr' = [p \in Thread |-> IF Dev(p) = d THEN Rest ELSE thr[p]]
        /\ phase' = [phase EXCEPT ![d] = "bootstrapping"] /\ phase \in [Device -> Phase]
    BY DEF Kill, IInv, TypeOK
  <1>2. \A p \in Thread : p[2] = "sync" => thr'[p].pc \in Calling \cup {"idle"}
    BY <1>1, RestType DEF Screens
  <1>3. ASSUME NEW e \in Device
        PROVE  thr'[Ui(e)].pc \in AtPhase[phase'[e]]
    <2>1. CASE e = d
      BY <1>1, <2>1, Threads, RestType DEF AtPhase
    <2>2. CASE e # d
      <3>1. thr'[Ui(e)] = thr[Ui(e)] /\ phase'[e] = phase[e]
        BY <1>1, <2>2, Threads
      <3> QED BY <3>1 DEF Screens
    <2> QED BY <2>1, <2>2
  <1> QED BY <1>2, <1>3 DEF Screens

LEMMA CrashIs ==
    ASSUME IInv, Crash
    PROVE  \A p \in Thread :
              /\ thr[p].pc \in {"rotating", "entering"} => thr'[p] = Rest
              /\ thr[p].pc = "leaving" => thr'[p].pc = "wipe"
              /\ thr[p].pc \notin {"rotating", "entering", "leaving"} => thr'[p] = thr[p]
  <1> SUFFICES ASSUME NEW p \in Thread
               PROVE  /\ thr[p].pc \in {"rotating", "entering"} => thr'[p] = Rest
                      /\ thr[p].pc = "leaving" => thr'[p].pc = "wipe"
                      /\ thr[p].pc \notin {"rotating", "entering", "leaving"} => thr'[p] = thr[p]
    OBVIOUS
  <1>1. thr'[p] = CASE In(p, "rotating") /\ p[2] = "ui"   -> Rest
                    [] In(p, "rotating") /\ p[2] = "sync" -> Rest
                    [] In(p, "entering") -> Rest
                    [] In(p, "leaving")  -> [thr[p] EXCEPT !.pc = "wipe"]
                    [] OTHER -> thr[p]
    BY DEF Crash
  <1>2. p[2] \in {"ui", "sync"} /\ thr[p] \in Local
    BY Threads DEF IInv, TypeOK
  <1>3. CASE thr[p].pc = "rotating"
    BY <1>1, <1>2, <1>3 DEF In
  <1>4. CASE thr[p].pc = "entering"
    BY <1>1, <1>4 DEF In
  <1>5. CASE thr[p].pc = "leaving"
    <2>1. thr'[p] = [thr[p] EXCEPT !.pc = "wipe"]
      BY <1>1, <1>5 DEF In
    <2> QED BY <1>2, <1>5, <2>1 DEF Local
  <1>6. CASE thr[p].pc \notin {"rotating", "entering", "leaving"}
    BY <1>1, <1>6 DEF In
  <1> QED BY <1>3, <1>4, <1>5, <1>6

LEMMA CrashScreens ==
    ASSUME IInv, Screens, Crash
    PROVE  Screens'
  <1>1. \A d \in Device : phase'[d] = IF thr[Ui(d)].pc = "rotating" THEN "signedIn" ELSE phase[d]
    BY DEF Crash, In
  <1>2. \A p \in Thread : p[2] = "sync" => thr'[p].pc \in Calling \cup {"idle"}
    <2> SUFFICES ASSUME NEW p \in Thread, p[2] = "sync"
                 PROVE  thr'[p].pc \in Calling \cup {"idle"}
      OBVIOUS
    <2>1. thr[p].pc \in Calling \cup {"idle"}
      BY DEF Screens
    <2>2. thr[p].pc \notin {"entering", "leaving"}
      BY <2>1 DEF Calling
    <2> QED BY <2>1, <2>2, CrashIs, RestType
  <1>3. ASSUME NEW d \in Device
        PROVE  thr'[Ui(d)].pc \in AtPhase[phase'[d]]
    <2>1. Ui(d) \in Thread /\ phase[d] \in Phase /\ thr[Ui(d)].pc \in AtPhase[phase[d]]
      BY Threads DEF IInv, TypeOK, Screens
    <2>2. CASE thr[Ui(d)].pc = "rotating"
      <3>1. phase'[d] = "signedIn" /\ thr'[Ui(d)].pc = "idle"
        BY <1>1, <2>1, <2>2, CrashIs, RestType
      <3> QED BY <3>1 DEF AtPhase
    <2>3. CASE thr[Ui(d)].pc = "entering"
      <3>1. phase'[d] = phase[d] /\ thr'[Ui(d)].pc = "idle" /\ phase[d] \in Outside
        BY <1>1, <2>1, <2>3, CrashIs, RestType, PhaseOf
      <3> QED BY <3>1 DEF AtPhase, Outside
    <2>4. CASE thr[Ui(d)].pc = "leaving"
      <3>1. phase'[d] = phase[d] /\ thr'[Ui(d)].pc = "wipe" /\ phase[d] = "signedIn"
        BY <1>1, <2>1, <2>4, CrashIs, PhaseOf
      <3> QED BY <3>1 DEF AtPhase
    <2>5. CASE thr[Ui(d)].pc \notin {"rotating", "entering", "leaving"}
      <3>1. phase'[d] = phase[d] /\ thr'[Ui(d)] = thr[Ui(d)]
        BY <1>1, <2>1, <2>5, CrashIs
      <3> QED BY <2>1, <3>1
    <2> QED BY <2>2, <2>3, <2>4, <2>5
  <1> QED BY <1>2, <1>3 DEF Screens

LEMMA LeavePendingScreens ==
    ASSUME IInv, Screens, NEW d \in Device, LeavePending(d)
    PROVE  Screens'
  <1>1. /\ phase' = [phase EXCEPT ![d] = "guest"] /\ thr' = thr /\ thr[Ui(d)].pc = "idle"
        /\ thr \in [Thread -> Local] /\ phase \in [Device -> Phase] /\ Ui(d) \in Thread
    BY Threads DEF LeavePending, In, IInv, TypeOK
  <1>2. thr' = [thr EXCEPT ![Ui(d)] = thr[Ui(d)]] /\ "guest" \in Phase
        /\ thr[Ui(d)].pc \in AtPhase[phase'[d]]
    BY <1>1 DEF Phase, AtPhase
  <1>3. thr[Ui(d)] \in Local
    BY <1>1
  <1> QED BY <1>1, <1>2, <1>3, ScreensAt

LEMMA ScreensInductive ==
    ASSUME IInv, Screens, [Next]_vars
    PROVE  Screens'
  <1>1. ASSUME NEW r \in Req, ServerStep(r) \/ KvFails(r)
        PROVE  Screens'
    <2>1. Answer(r) \/ UNCHANGED <<thr, phase>>
      BY <1>1 DEF ServerStep, KvFails, Auth, Take, CheckUser, Previous, Drop, Record, Index,
         Revoke, Current, Unindex, device
    <2> QED BY <2>1, AnswerScreens, ScreensKept
  <1>2. ASSUME NEW p \in Thread, SyncStart(p) \/ CallStep(p)
        PROVE  Screens'
    BY <1>2, SyncStartScreens, CallScreens
  <1>3. ASSUME NEW d \in Device,
               UiStep(d) \/ Login(d) \/ LeavePending(d) \/ Logout(d) \/ Kill(d)
        PROVE  Screens'
    BY <1>3, UiScreens, LoginScreens, LeavePendingScreens, LogoutScreens, KillScreens
  <1>4. CASE Crash
    BY <1>4, CrashScreens
  <1>5. CASE Flip \/ (\E t \in Token : Expire(t)) \/ UNCHANGED vars
    BY <1>5, ScreensKept DEF Flip, Expire, device, vars
  <1> QED BY <1>1, <1>2, <1>3, <1>4, <1>5 DEF Next

----------------------------------------------------------------------------
(* Tidy *)

LEMMA TidyAt ==
    ASSUME Tidy, NEW d \in Device, mishaps \subseteq mishaps',
           \A e \in Device \ {d} : /\ store'[e] = store[e] /\ phase'[e] = phase[e]
                                   /\ thr'[Ui(e)].pc = thr[Ui(e)].pc
                                   /\ flight'[e] # Nobody => flight[e] # Nobody,
           "late" \notin mishaps' =>
               /\ flight'[d] # Nobody => store'[d] # NoToken
               /\ phase'[d] \in Outside /\ thr'[Ui(d)].pc \in {"idle", "entering", "save"} =>
                      store'[d] = NoToken
    PROVE  Tidy'
  BY DEF Tidy

LEMMA TidyKept ==
    ASSUME Tidy, mishaps \subseteq mishaps', UNCHANGED <<store, phase, thr, flight>>
    PROVE  Tidy'
  BY DEF Tidy

LEMMA TidyCall ==
    ASSUME IInv, Screens, Tidy, NEW p \in Thread, thr[p].pc \in Calling,
           NEW l \in Local, thr' = [thr EXCEPT ![p] = l],
           GoesOn(p, l) \/ (l.pc \in Calling /\ phase' = phase),
           mishaps \subseteq mishaps',
           \A e \in Device \ {Dev(p)} : /\ store'[e] = store[e]
                                        /\ flight'[e] # Nobody => flight[e] # Nobody,
           "late" \notin mishaps' =>
               /\ flight'[Dev(p)] # Nobody => store'[Dev(p)] # NoToken
               /\ store'[Dev(p)] # NoToken => store[Dev(p)] # NoToken
    PROVE  Tidy'
  <1> DEFINE d == Dev(p)
  <1>1. /\ d \in Device /\ Ui(d) \in Thread
        /\ thr'[p] = l /\ \A o \in Thread \ {p} : thr'[o] = thr[o]
        /\ phase \in [Device -> Phase]
    BY Threads, Turned DEF IInv, TypeOK
  <1>2. \A e \in Device \ {d} : Ui(e) \in Thread /\ Ui(e) # p
    BY Threads
  <1>3. CASE p[2] = "sync"
    <2>1. phase' = phase /\ Ui(d) # p
      BY <1>1, <1>3, UiOrSync DEF GoesOn
    <2>2. thr'[Ui(d)] = thr[Ui(d)]
      BY <1>1, <2>1
    <2>3. "late" \notin mishaps' =>
             (phase'[d] \in Outside /\ thr'[Ui(d)].pc \in {"idle", "entering", "save"} =>
                  store'[d] = NoToken)
      BY <1>1, <2>1, <2>2 DEF Tidy
    <2> QED BY <1>1, <1>2, <2>1, <2>3, TidyAt
  <1>4. CASE p[2] = "ui" /\ p = Ui(d)
    <2>1. phase[d] = "bootstrapping"
      BY <1>1, <1>4, Restoring
    <2>2. phase' = phase \/ phase' = [phase EXCEPT ![d] = "signedIn"]
      BY <1>4 DEF GoesOn
    <2>3. phase'[d] \notin Outside /\ \A e \in Device \ {d} : phase'[e] = phase[e]
      BY <1>1, <2>1, <2>2 DEF Outside
    <2> QED BY <1>1, <1>2, <2>3, TidyAt
  <1> QED BY <1>3, <1>4, UiOrSync

LEMMA CallTidy ==
    ASSUME IInv, Screens, Tidy, NEW p \in Thread, CallStep(p)
    PROVE  Tidy'
  <1> DEFINE d == Dev(p)
  <1>1. /\ d \in Device /\ store \in [Device -> Token \cup {NoToken}]
        /\ flight \in [Device -> Thread \cup {Nobody}] /\ p # Nobody
    BY Threads DEF IInv, TypeOK
  <1>2. CASE \/ Fresh(p) \/ Wait(p) \/ Send(p)
             \/ Turn(p) /\ ~(flight[d] = Nobody /\ store[d] # NoToken)
    <2>1. /\ thr[p].pc \in Calling
          /\ UNCHANGED <<store, flight, mishaps>>
          /\ \E l \in Local : thr' = [thr EXCEPT ![p] = l] /\ GoesOn(p, l)
      BY <1>2, CallGoesOn DEF IInv, Onward, Calling
    <2>2. "late" \notin mishaps' => (flight'[d] # Nobody => store'[d] # NoToken)
      BY <1>1, <2>1 DEF Tidy
    <2> QED BY <2>1, <2>2, TidyCall
  <1>3. CASE Turn(p) /\ flight[d] = Nobody /\ store[d] # NoToken
    <2>1. /\ thr[p].pc = "turn" /\ Go(p, "rotating") /\ phase' = phase /\ store' = store
          /\ flight' = [flight EXCEPT ![d] = p] /\ mishaps \subseteq mishaps'
          /\ "rotating" \in ThreadPc
      BY <1>3 DEF Turn, In, ThreadPc
    <2>2. PICK l \in Local : thr' = [thr EXCEPT ![p] = l] /\ l.pc = "rotating"
      BY <2>1, GoIs DEF IInv
    <2>3. \A e \in Device \ {d} : flight'[e] = flight[e]
      BY <1>1, <2>1
    <2> QED BY <1>3, <2>1, <2>2, <2>3, TidyCall DEF Calling
  <1>4. CASE Store(p) \/ Clear(p)
    <2>1. /\ thr[p].pc \in {"store", "clear"} /\ Release(p) /\ mishaps' = mishaps
          /\ \E b \in BOOLEAN : Refreshed(p, b)
          /\ \E t : store' = [store EXCEPT ![d] = t]
      BY <1>4 DEF Store, Clear, In
    <2>2. PICK l \in Local : thr' = [thr EXCEPT ![p] = l] /\ GoesOn(p, l)
      BY <2>1, CallResumes DEF IInv
    <2>3. flight[d] = p
      BY <2>1 DEF IInv, Waiting, Holding
    <2>4. "late" \notin mishaps' => store[d] # NoToken
      BY <1>1, <2>1, <2>3 DEF Tidy
    <2>5. /\ flight'[d] = Nobody
          /\ \A e \in Device \ {d} : flight'[e] = flight[e] /\ store'[e] = store[e]
      BY <1>1, <2>1 DEF Release
    <2> QED BY <2>1, <2>2, <2>4, <2>5, TidyCall DEF Calling
  <1>5. CASE Timeout(p)
    <2>1. mishaps \subseteq mishaps' /\ store' = store
      BY <1>5 DEF Timeout
    <2>2. CASE thr[p].pc = "rotating"
      <3>1. EndCall(p, "net") /\ Release(p)
        BY <1>5, <2>2 DEF Timeout, In
      <3>2. PICK l \in Local : thr' = [thr EXCEPT ![p] = l] /\ GoesOn(p, l)
        BY <3>1, CallEnds DEF IInv
      <3>3. /\ flight'[d] = Nobody
            /\ \A e \in Device \ {d} : flight'[e] = flight[e]
        BY <1>1, <3>1 DEF Release
      <3> QED BY <2>1, <2>2, <3>2, <3>3, TidyCall DEF Calling
    <2>3. CASE thr[p].pc \in {"entering", "leaving"}
      <3>1. phase' = phase /\ flight' = flight /\ p = Ui(d)
        BY <1>1, <1>5, <2>3, UiOrSync DEF Timeout, In, Screens, Calling
      <3>2. phase[d] \in Phase /\ thr[p].pc \in AtPhase[phase[d]]
        BY <1>1, <3>1 DEF IInv, TypeOK, Screens
      <3>3. \A o \in Thread \ {p} : thr'[o] = thr[o]
        <4>1. CASE thr[p].pc = "entering"
          BY <1>5, <4>1 DEF Timeout, In, IInv, TypeOK
        <4>2. CASE thr[p].pc = "leaving"
          BY <1>5, <4>2 DEF Timeout, In, Go, IInv, TypeOK
        <4> QED BY <2>3, <4>1, <4>2
      <3>4. \A e \in Device \ {d} : thr'[Ui(e)] = thr[Ui(e)]
        BY <3>3, Threads
      <3>5. thr[p].pc = "leaving" => phase[d] \notin Outside
        BY <3>2, PhaseOf DEF Outside
      <3>6. "late" \notin mishaps' =>
               /\ flight'[d] # Nobody => store'[d] # NoToken
               /\ phase'[d] \in Outside => store'[d] = NoToken
        BY <1>1, <2>1, <2>3, <3>1, <3>5 DEF Tidy
      <3> QED BY <1>1, <2>1, <3>1, <3>4, <3>6, TidyAt
    <2> QED BY <1>5, <2>2, <2>3 DEF Timeout
  <1> QED BY <1>2, <1>3, <1>4, <1>5 DEF CallStep

LEMMA UiTidy ==
    ASSUME IInv, Screens, Tidy, NEW d \in Device, UiStep(d)
    PROVE  Tidy'
  <1>1. /\ phase \in [Device -> Phase] /\ store \in [Device -> Token \cup {NoToken}]
        /\ thr \in [Thread -> Local] /\ Ui(d) \in Thread /\ flight' = flight
        /\ mishaps \subseteq mishaps' /\ thr[Ui(d)].pc \in AtPhase[phase[d]]
        /\ phase[d] \in Phase
    BY Threads, UiIs DEF IInv, TypeOK, Screens
  <1>2. PICK l \in Local :
                /\ thr' = [thr EXCEPT ![Ui(d)] = l] \/ (thr' = thr /\ l = thr[Ui(d)])
                /\ \/ /\ In(Ui(d), "idle") /\ store[d] = NoToken /\ l.pc = "idle"
                      /\ store' = store /\ phase' = [phase EXCEPT ![d] = "guest"]
                   \/ /\ In(Ui(d), "idle") /\ store[d] # NoToken /\ l.pc = "fresh"
                      /\ store' = store /\ phase' = phase
                   \/ /\ In(Ui(d), "latest") /\ store[d] = NoToken /\ l.pc = "idle"
                      /\ store' = store /\ phase' = [phase EXCEPT ![d] = "guest"]
                   \/ /\ In(Ui(d), "latest") /\ store[d] # NoToken /\ l.pc = "back"
                      /\ store' = store /\ phase' = phase
                   \/ /\ In(Ui(d), "back") /\ l.pc = "idle"
                      /\ "late" \notin mishaps' => store' = store
                      /\ \A e \in Device : e # d => store'[e] = store[e]
                      /\ phase' = [phase EXCEPT ![d] = "signedIn"]
                   \/ /\ thr[Ui(d)].pc \in {"giveup", "wipe"} /\ l.pc = "idle"
                      /\ "late" \notin mishaps' => flight[d] = Nobody
                      /\ store' = [store EXCEPT ![d] = NoToken]
                      /\ phase' = [phase EXCEPT ![d] = "guest"]
                   \/ /\ In(Ui(d), "save") /\ l.pc = "load"
                      /\ store' = [store EXCEPT ![d] = thr[Ui(d)].tok] /\ phase' = phase
                   \/ /\ In(Ui(d), "load") /\ l.pc = "idle" /\ store' = store
                      /\ phase' = IF store[d] = NoToken THEN phase
                                  ELSE [phase EXCEPT ![d] = "signedIn"]
    BY UiIs
  <1>3. thr' = [thr EXCEPT ![Ui(d)] = l]
    BY <1>1, <1>2
  <1>4. thr'[Ui(d)] = l /\ \A e \in Device \ {d} : thr'[Ui(e)] = thr[Ui(e)]
    BY <1>1, <1>3, Threads, UiOrSync
  <1>5. \A e \in Device \ {d} : store'[e] = store[e] /\ phase'[e] = phase[e]
    BY <1>1, <1>2
  <1>6. "late" \notin mishaps' =>
            /\ flight[d] # Nobody => store[d] # NoToken
            /\ phase[d] \in Outside /\ thr[Ui(d)].pc \in {"idle", "entering", "save"} =>
                   store[d] = NoToken
    BY <1>1 DEF Tidy
  <1>7. "late" \notin mishaps' =>
            /\ flight[d] # Nobody => store'[d] # NoToken
            /\ phase'[d] \in Outside /\ l.pc \in {"idle", "entering", "save"} =>
                   store'[d] = NoToken
    <2>1. CASE store[d] = NoToken /\ store' = store
      BY <1>6, <2>1
    <2>2. CASE store[d] # NoToken /\ l.pc \in {"fresh", "back"} /\ store' = store
      BY <1>6, <2>2
    <2>3. CASE In(Ui(d), "back") /\ phase' = [phase EXCEPT ![d] = "signedIn"]
               /\ ("late" \notin mishaps' => store' = store)
      BY <1>1, <1>6, <2>3 DEF Outside
    <2>4. CASE /\ "late" \notin mishaps' => flight[d] = Nobody
               /\ store' = [store EXCEPT ![d] = NoToken]
      BY <1>1, <2>4
    <2>5. CASE In(Ui(d), "save") /\ l.pc = "load"
      <3>1. phase[d] \in Outside
        BY <1>1, <2>5, PhaseOf DEF In
      <3> QED BY <1>6, <2>5, <3>1 DEF In
    <2>6. CASE store[d] # NoToken /\ phase' = [phase EXCEPT ![d] = "signedIn"] /\ store' = store
      BY <1>1, <2>6 DEF Outside
    <2> QED BY <1>2, <2>1, <2>2, <2>3, <2>4, <2>5, <2>6
  <1> QED BY <1>1, <1>4, <1>5, <1>7, TidyAt

LEMMA AnswerTidy ==
    ASSUME IInv, Screens, Tidy, NEW r \in Req, Answer(r)
    PROVE  Tidy'
  <1>1. UNCHANGED <<store, flight, mishaps>>
    BY DEF Answer
  <1>2. CASE req[r].from = Nobody
    BY <1>1, <1>2, TidyKept DEF Answer
  <1>3. CASE req[r].from # Nobody
    <2> DEFINE p == req[r].from
               d == Dev(req[r].from)
    <2>1. /\ p \in Thread /\ d \in Device
          /\ thr[p].pc = Awaits[req[r].kind] /\ req[r].kind \in {"login", "refresh", "logout"}
      BY <1>3, AnswerIs, Threads DEF IInv, TypeOK, Request
    <2>2. PICK l \in Local :
            /\ thr' = [thr EXCEPT ![p] = l]
            /\ \/ req[r].kind = "logout" /\ l.pc = "wipe" /\ phase' = phase
               \/ req[r].kind = "refresh" /\ l.pc \in {"store", "clear"} /\ phase' = phase
               \/ /\ req[r].kind = "login" /\ l.pc \in {"save", "idle"}
                  /\ phase' = phase \/ phase' = [phase EXCEPT ![d] = "pendingJuridica"]
      BY <1>3, AnswerIs
    <2>3. CASE req[r].kind = "refresh"
      <3>1. thr[p].pc \in Calling /\ l.pc \in Calling /\ phase' = phase
        BY <2>1, <2>2, <2>3 DEF Awaits, Calling
      <3>2. "late" \notin mishaps' => (flight'[d] # Nobody => store'[d] # NoToken)
        BY <1>1, <2>1 DEF Tidy
      <3> QED BY <1>1, <2>1, <2>2, <3>1, <3>2, TidyCall
    <2>4. CASE req[r].kind # "refresh"
      <3>1. /\ req[r].kind = "login" => thr[p].pc = "entering"
            /\ req[r].kind = "logout" => thr[p].pc = "leaving"
        BY <2>1 DEF Awaits
      <3>2. p = Ui(d)
        BY <2>1, <2>4, <3>1, UiOrSync DEF Screens, Calling
      <3>3. thr[p].pc \in AtPhase[phase[d]] /\ phase \in [Device -> Phase]
        BY <2>1, <3>2 DEF Screens, IInv, TypeOK
      <3>4. /\ thr'[p] = l /\ \A e \in Device \ {d} : thr'[Ui(e)] = thr[Ui(e)]
            /\ \A e \in Device \ {d} : phase'[e] = phase[e]
        <4>1. thr'[p] = l /\ \A o \in Thread \ {p} : thr'[o] = thr[o]
          BY <2>1, <2>2, Turned DEF IInv
        <4>2. \A e \in Device \ {d} : Ui(e) \in Thread /\ Ui(e) # p
          BY <2>1, Threads
        <4>3. \A e \in Device \ {d} : phase'[e] = phase[e]
          BY <2>1, <2>2, <3>3
        <4> QED BY <4>1, <4>2, <4>3
      <3>5. "late" \notin mishaps' =>
               /\ flight'[d] # Nobody => store'[d] # NoToken
               /\ phase'[d] \in Outside /\ l.pc \in {"idle", "entering", "save"} =>
                      store'[d] = NoToken
        <4>1. "late" \notin mishaps' => (flight'[d] # Nobody => store'[d] # NoToken)
          BY <1>1, <2>1 DEF Tidy
        <4>2. CASE req[r].kind = "logout"
          BY <2>2, <4>1, <4>2
        <4>3. CASE req[r].kind = "login"
          <5>1. thr[p].pc = "entering" /\ phase[d] \in Outside
            BY <2>1, <3>1, <3>3, <4>3, PhaseOf
          <5>2. "late" \notin mishaps' => store'[d] = NoToken
            BY <1>1, <2>1, <3>2, <5>1 DEF Tidy
          <5> QED BY <4>1, <5>2
        <4> QED BY <2>1, <2>4, <4>2, <4>3
      <3> QED BY <1>1, <2>1, <3>2, <3>4, <3>5, TidyAt
    <2> QED BY <2>3, <2>4
  <1> QED BY <1>2, <1>3

\* The screens of a device go where they hold what they held.
LEMMA TidyGo ==
    ASSUME IInv, Screens, Tidy, NEW d \in Device, NEW l \in Local,
           thr' = [thr EXCEPT ![Ui(d)] = l],
           \/ phase' = phase /\ phase[d] \in Outside /\ thr[Ui(d)].pc = "idle"
           \/ phase' = phase /\ phase[d] = "signedIn",
           mishaps \subseteq mishaps', UNCHANGED <<store, flight>>
    PROVE  Tidy'
  <1>1. \A e \in Device \ {d} : thr'[Ui(e)] = thr[Ui(e)]
    BY Turned, Threads, UiOrSync DEF IInv
  <1>2. "late" \notin mishaps' =>
            /\ flight'[d] # Nobody => store'[d] # NoToken
            /\ phase'[d] \in Outside => store'[d] = NoToken
    BY DEF Tidy, Outside
  <1> QED BY <1>1, <1>2, TidyAt

LEMMA KillTidy ==
    ASSUME IInv, Screens, Tidy, NEW d \in Device, Kill(d)
    PROVE  Tidy'
  <1>1. /\ thr' = [p \in Thread |-> IF Dev(p) = d THEN Rest ELSE thr[p]]
        /\ phase' = [phase EXCEPT ![d] = "bootstrapping"] /\ phase \in [Device -> Phase]
        /\ flight' = [flight EXCEPT ![d] = Nobody] /\ store' = store
        /\ flight \in [Device -> Thread \cup {Nobody}]
        /\ mishaps \subseteq mishaps'
    BY DEF Kill, IInv, TypeOK
  <1>2. \A e \in Device \ {d} : /\ thr'[Ui(e)] = thr[Ui(e)] /\ phase'[e] = phase[e]
                                /\ flight'[e] = flight[e]
    BY <1>1, Threads
  <1>3. flight'[d] = Nobody /\ phase'[d] \notin Outside
    BY <1>1 DEF Outside
  <1> QED BY <1>1, <1>2, <1>3, TidyAt

LEMMA CrashTidy ==
    ASSUME IInv, Screens, Tidy, Crash
    PROVE  Tidy'
  <1>1. /\ \A d \in Device : phase'[d] = IF thr[Ui(d)].pc = "rotating" THEN "signedIn" ELSE phase[d]
        /\ \A d \in Device : flight'[d] # Nobody => flight[d] # Nobody
        /\ store' = store /\ mishaps \subseteq mishaps'
    BY DEF Crash, In
  <1>2. ASSUME NEW d \in Device, "late" \notin mishaps', phase'[d] \in Outside,
               thr'[Ui(d)].pc \in {"idle", "entering", "save"}
        PROVE  store'[d] = NoToken
    <2>1. thr[Ui(d)].pc # "rotating" /\ phase[d] \in Outside /\ Ui(d) \in Thread
      BY <1>1, <1>2, Threads DEF Outside
    <2>2. thr[Ui(d)].pc \in {"idle", "entering", "save"}
      BY <1>2, <2>1, CrashIs
    <2> QED BY <1>1, <1>2, <2>1, <2>2 DEF Tidy
  <1> QED BY <1>1, <1>2 DEF Tidy

LEMMA TidyInductive ==
    ASSUME IInv, Screens, Tidy, [Next]_vars
    PROVE  Tidy'
  <1>1. ASSUME NEW r \in Req, ServerStep(r) \/ KvFails(r)
        PROVE  Tidy'
    <2>1. Answer(r) \/ (UNCHANGED <<store, phase, thr, flight>> /\ mishaps \subseteq mishaps')
      BY <1>1 DEF ServerStep, KvFails, Auth, Take, CheckUser, Previous, Drop, Record, Index,
         Revoke, Current, Unindex, device
    <2> QED BY <2>1, AnswerTidy, TidyKept
  <1>2. ASSUME NEW p \in Thread, SyncStart(p)
        PROVE  Tidy'
    <2>1. /\ p[2] = "sync" /\ thr' = [thr EXCEPT ![p] = At0("fresh", NoToken)]
          /\ UNCHANGED <<store, phase, flight, mishaps>> /\ "fresh" \in ThreadPc
      BY <1>2 DEF SyncStart, ThreadPc
    <2>2. \A d \in Device : Ui(d) # p /\ Ui(d) \in Thread
      BY <2>1, Threads, UiOrSync
    <2>3. \A d \in Device : thr'[Ui(d)] = thr[Ui(d)]
      BY <2>1, <2>2 DEF IInv, TypeOK
    <2> QED BY <2>1, <2>3 DEF Tidy
  <1>3. ASSUME NEW p \in Thread, CallStep(p)
        PROVE  Tidy'
    BY <1>3, CallTidy
  <1>4. ASSUME NEW d \in Device, Login(d) \/ Logout(d)
        PROVE  Tidy'
    <2>1. /\ \/ phase[d] \in Outside /\ thr[Ui(d)].pc = "idle"
             \/ phase[d] = "signedIn"
          /\ phase' = phase /\ mishaps \subseteq mishaps' /\ UNCHANGED <<store, flight>>
          /\ \E pc \in {"entering", "leaving", "wipe"} : Go(Ui(d), pc)
      BY <1>4 DEF Login, Logout, In, Outside
    <2>2. Ui(d) \in Thread /\ {"entering", "leaving", "wipe"} \subseteq ThreadPc
      BY Threads DEF ThreadPc
    <2>3. PICK l \in Local : thr' = [thr EXCEPT ![Ui(d)] = l]
      BY <2>1, <2>2, GoIs DEF IInv
    <2> QED BY <2>1, <2>3, TidyGo
  <1>5. ASSUME NEW d \in Device, LeavePending(d)
        PROVE  Tidy'
    <2>1. /\ phase' = [phase EXCEPT ![d] = "guest"] /\ phase[d] \in Outside
          /\ thr[Ui(d)].pc = "idle" /\ UNCHANGED <<store, flight, thr, mishaps>>
          /\ phase \in [Device -> Phase]
      BY <1>5 DEF LeavePending, In, Outside, IInv, TypeOK
    <2>2. \A e \in Device \ {d} : phase'[e] = phase[e]
      BY <2>1
    <2>3. "late" \notin mishaps' =>
             (flight'[d] # Nobody => store'[d] # NoToken) /\ store'[d] = NoToken
      BY <2>1 DEF Tidy
    <2> QED BY <2>1, <2>2, <2>3, TidyAt
  <1>6. ASSUME NEW d \in Device, UiStep(d) \/ Kill(d)
        PROVE  Tidy'
    BY <1>6, UiTidy, KillTidy
  <1>7. CASE Crash
    BY <1>7, CrashTidy
  <1>8. CASE Flip \/ (\E t \in Token : Expire(t)) \/ UNCHANGED vars
    BY <1>8, TidyKept DEF Flip, Expire, device, vars
  <1> QED BY <1>1, <1>2, <1>3, <1>4, <1>5, <1>6, <1>7, <1>8 DEF Next

----------------------------------------------------------------------------
(* Calm: what a step leaves alone *)

LEMMA CalmOver ==
    ASSUME mishaps' # {}
    PROVE  Calm'
  BY DEF Calm

\* A step of the only device that holds the session, or comes to hold it.
LEMMA CalmHeld ==
    ASSUME IInv, Calm, mishaps = {}, NEW d \in Device,
           \A e \in Device \ {d} : ~Held(e),
           \A e \in Device \ {d} : /\ store'[e] = store[e] /\ phase'[e] = phase[e]
                                   /\ thr'[Ui(e)].pc = thr[Ui(e)].pc,
           verified',
           \A r \in Req : req'[r].pc # "free" => req'[r].from # Nobody,
           \/ Held(d)' /\ Place(d)'
           \/ ~Held(d)' /\ phase'[d] # "signedIn" /\ rec' = {} /\ Busy' = {}
    PROVE  Calm'
  <1>1. \A e \in Device \ {d} : ~Held(e)' /\ phase'[e] # "signedIn"
    BY DEF Held, Calm
  <1>2. \A e, f \in Device : Held(e)' /\ Held(f)' => e = f
    BY <1>1
  <1>3. \A e \in Device : ~Held(e)' => phase'[e] # "signedIn"
    BY <1>1 DEF Place, Live, Held
  <1>4. (\A e \in Device : ~Held(e)') => rec' = {} /\ Busy' = {}
    BY <1>1
  <1>5. \A e \in Device : Held(e)' => Place(e)'
    BY <1>1
  <1>6. \A r \in Busy' : req'[r].from # Nobody
    BY DEF Busy
  <1> QED BY <1>2, <1>3, <1>4, <1>5, <1>6 DEF Calm

LEMMA OneHolder ==
    ASSUME Calm, mishaps = {}, NEW d \in Device, Held(d)
    PROVE  Place(d) /\ \A e \in Device \ {d} : ~Held(e)
  BY DEF Calm

\* The thread that refreshes for a device is one of the device's.
LEMMA Flying ==
    ASSUME IInv, NEW d \in Device, flight[d] # Nobody
    PROVE  flight[d] \in Thread /\ Dev(flight[d]) = d /\ thr[flight[d]].pc \in Holding
  BY DEF IInv, TypeOK, Waiting

\* A step of a device that has no session, and gets none.
LEMMA CalmAside ==
    ASSUME IInv, Calm, mishaps = {}, NEW d \in Device, ~Held(d), ~Held(d)',
           phase'[d] # "signedIn",
           \A e \in Device \ {d} : /\ store'[e] = store[e] /\ phase'[e] = phase[e]
                                   /\ flight'[e] = flight[e],
           \A o \in Thread : Dev(o) # d => thr'[o] = thr[o],
           UNCHANGED <<rec, req, verified>>
    PROVE  Calm'
  <1>1. \A e \in Device \ {d} : thr'[Ui(e)] = thr[Ui(e)]
    BY Threads
  <1>2. \A e \in Device : Held(e)' <=> Held(e)
    BY <1>1 DEF Held
  <1>3. Busy' = Busy
    BY DEF Busy
  <1>4. ASSUME NEW e \in Device \ {d}, Place(e)
        PROVE  Place(e)'
    <2>1. flight[e] # Nobody => thr'[flight[e]] = thr[flight[e]]
      BY Flying
    <2>2. Live(e) => Live(e)'
      BY <1>3, <2>1 DEF Live, In
    <2>3. Wiping(e) => Wiping(e)'
      BY <1>3, <2>1 DEF Wiping, In
    <2> QED BY <1>1, <1>3, <1>4, <2>2, <2>3 DEF Place, In
  <1>5. \A e \in Device : Held(e)' => Place(e)'
    BY <1>2, <1>4 DEF Calm
  <1> QED BY <1>2, <1>3, <1>5 DEF Calm

\* A step of a synchronisation that refreshes nothing.
LEMMA CalmSync ==
    ASSUME IInv, Calm, NEW p \in Thread, p[2] = "sync", thr[p].pc \notin Holding,
           NEW l \in Local, thr' = [thr EXCEPT ![p] = l],
           UNCHANGED <<rec, req, verified, store, phase, flight, mishaps>>
    PROVE  Calm'
  <1>1. \A o \in Thread \ {p} : thr'[o] = thr[o]
    BY Turned DEF IInv
  <1>2. \A e \in Device : thr'[Ui(e)] = thr[Ui(e)]
    BY <1>1, Threads, UiOrSync
  <1>3. \A e \in Device : Held(e)' <=> Held(e)
    BY <1>2 DEF Held
  <1>4. Busy' = Busy
    BY DEF Busy
  <1>5. ASSUME NEW e \in Device, Place(e)
        PROVE  Place(e)'
    <2>1. flight[e] # Nobody => thr'[flight[e]] = thr[flight[e]]
      BY <1>1, Flying
    <2>2. Live(e) => Live(e)'
      BY <1>4, <2>1 DEF Live, In
    <2>3. Wiping(e) => Wiping(e)'
      BY <1>4, <2>1 DEF Wiping, In
    <2> QED BY <1>2, <1>4, <1>5, <2>2, <2>3 DEF Place, In
  <1> QED BY <1>3, <1>4, <1>5 DEF Calm

\* The screens of a device with a live session go where its session stays live.
LEMMA CalmUi ==
    ASSUME IInv, Calm, mishaps = {}, NEW d \in Device, Live(d),
           thr[Ui(d)].pc \notin Holding, NEW l \in Local, l.pc \in Inside,
           thr' = [thr EXCEPT ![Ui(d)] = l],
           \A e \in Device \ {d} : phase'[e] = phase[e],
           UNCHANGED <<rec, req, verified, store, flight>>
    PROVE  Calm'
  <1>1. /\ thr'[Ui(d)] = l /\ \A o \in Thread \ {Ui(d)} : thr'[o] = thr[o]
        /\ \A e \in Device \ {d} : thr'[Ui(e)] = thr[Ui(e)]
    BY Turned, Threads, UiOrSync DEF IInv
  <1>2. Held(d) /\ Held(d)'
    BY DEF Live, Held
  <1>3. Busy' = Busy
    BY DEF Busy
  <1>4. Live(d)'
    <2>1. flight[d] # Nobody => thr'[flight[d]] = thr[flight[d]]
      BY <1>1, Flying
    <2> QED BY <1>3, <2>1 DEF Live, In
  <1>5. Place(d)'
    BY <1>1, <1>4 DEF Place, In, Inside, Calling
  <1>6. \A r \in Req : req'[r].pc # "free" => req'[r].from # Nobody
    BY DEF Calm, Busy
  <1>7. verified' /\ \A e \in Device \ {d} : ~Held(e)
    BY <1>2, OneHolder DEF Calm
  <1> QED BY <1>1, <1>2, <1>5, <1>6, <1>7, CalmHeld

LEMMA OneBusy ==
    ASSUME IInv, mishaps = {}, NEW r \in Busy, NEW s \in Busy
    PROVE  r = s
  BY DEF IInv, Alone

\* Whoever waits for a request has the session, or comes to have it.
LEMMA BusyHeld ==
    ASSUME IInv, Screens, Tidy, Calm, mishaps = {}, NEW r \in Busy
    PROVE  /\ req[r].from \in Thread /\ Dev(req[r].from) \in Device
           /\ thr[req[r].from].pc = Awaits[req[r].kind]
           /\ Held(Dev(req[r].from)) /\ Place(Dev(req[r].from))
           /\ thr[req[r].from].pc # "rotating" => req[r].from = Ui(Dev(req[r].from))
           /\ thr[req[r].from].pc = "rotating" => flight[Dev(req[r].from)] = req[r].from
  <1> DEFINE p == req[r].from
  <1>1. r \in Req /\ p # Nobody
    BY DEF Calm, Busy
  <1>2. /\ p \in Thread /\ Dev(p) \in Device /\ req[r].kind \in {"login", "refresh", "logout"}
        /\ thr[p].pc = Awaits[req[r].kind]
    BY <1>1, Threads DEF IInv, TypeOK, Request, Waiting
  <1>3. thr[p].pc \in {"rotating", "entering", "leaving"}
    BY <1>2 DEF Awaits
  <1>4. thr[p].pc # "rotating" => p = Ui(Dev(p))
    BY <1>2, <1>3, UiOrSync DEF Screens, Calling
  <1>5. thr[p].pc = "rotating" => flight[Dev(p)] = p
    BY <1>2 DEF IInv, Waiting, Holding
  <1>6. Held(Dev(p))
    <2>1. CASE thr[p].pc = "rotating"
      <3>1. store[Dev(p)] # NoToken
        BY <1>1, <1>2, <1>5, <2>1 DEF Tidy
      <3> QED BY <3>1 DEF Held
    <2>2. CASE thr[p].pc # "rotating"
      BY <1>3, <1>4, <2>2 DEF Held
    <2> QED BY <2>1, <2>2
  <1> QED BY <1>2, <1>4, <1>5, <1>6, OneHolder

----------------------------------------------------------------------------
(* Calm: the server *)

\* A step of a request that knows what it will leave behind.
LEMMA Served ==
    ASSUME IInv, Screens, Tidy, Calm, NEW r \in Req, NEW q \in Request,
           req' = [req EXCEPT ![r] = q], req[r].pc # "free", q.pc # "free",
           q.from = req[r].from,
           UNCHANGED <<verified, store, phase, thr, flight, mishaps>>,
           mishaps = {} =>
               /\ Fruitful(req[r], rec) => Fruitful(q, rec')
               /\ Entering(req[r], rec) => Entering(q, rec')
               /\ Leaving(req[r], rec) => Leaving(q, rec')
               /\ Refused(req[r], rec) => Refused(q, rec') /\ rec' = {}
    PROVE  Calm'
  <1> SUFFICES ASSUME mishaps = {} PROVE Calm'
    BY CalmOver
  <1>1. /\ req'[r] = q /\ \A s \in Req \ {r} : req'[s] = req[s]
    BY Slot DEF IInv
  <1>2. r \in Busy
    BY DEF Busy
  <1>3. PICK d \in Device : Held(d) /\ Place(d) /\ req[r].from # Nobody
    BY <1>2, BusyHeld DEF Calm
  <1>4. \A e \in Device \ {d} : ~Held(e)
    BY <1>3, OneHolder
  <1>5. \A s \in Req : req[s].from # Nobody => s = r
    BY <1>2, OneBusy DEF IInv, Waiting, Busy
  <1>6. \A s \in Req : req'[s].pc # "free" => req'[s].from # Nobody
    BY <1>1, <1>3 DEF Calm, Busy
  <1>7. Held(d)'
    BY <1>3 DEF Held
  <1>8. Live(d) => Live(d)'
    <2> SUFFICES ASSUME Live(d) PROVE Live(d)'
      OBVIOUS
    <2>1. /\ store[d] # NoToken /\ flight[d] # Nobody /\ In(flight[d], "rotating")
          /\ \E s \in Req : req[s].from = flight[d] /\ Fruitful(req[s], rec)
      BY <1>2 DEF Live
    <2>2. req[r].from = flight[d] /\ Fruitful(req[r], rec)
      BY <1>5, <2>1
    <2>3. req'[r].from = flight'[d] /\ Fruitful(req'[r], rec')
      BY <1>1, <2>2
    <2> QED BY <2>1, <2>3 DEF Live, In
  <1>9. Wiping(d) => Wiping(d)'
    <2> SUFFICES ASSUME Wiping(d) PROVE Wiping(d)'
      OBVIOUS
    <2>1. /\ flight[d] # Nobody /\ In(flight[d], "rotating")
          /\ \E s \in Req : req[s].from = flight[d] /\ Refused(req[s], rec)
      BY <1>2 DEF Wiping
    <2>2. req[r].from = flight[d] /\ Refused(req[r], rec)
      BY <1>5, <2>1
    <2>3. req'[r].from = flight'[d] /\ Refused(req'[r], rec') /\ rec' = {}
      BY <1>1, <2>2
    <2> QED BY <2>1, <2>3 DEF Wiping, In
  <1>10. In(Ui(d), "entering") => \E s \in Req : req'[s].from = Ui(d) /\ Entering(req'[s], rec')
    <2> SUFFICES ASSUME In(Ui(d), "entering")
                 PROVE  \E s \in Req : req'[s].from = Ui(d) /\ Entering(req'[s], rec')
      OBVIOUS
    <2>1. req[r].from = Ui(d) /\ Entering(req[r], rec)
      BY <1>3, <1>5, Threads DEF Place
    <2> QED BY <1>1, <2>1
  <1>11. In(Ui(d), "leaving") => \E s \in Req : req'[s].from = Ui(d) /\ Leaving(req'[s], rec')
    <2> SUFFICES ASSUME In(Ui(d), "leaving")
                 PROVE  \E s \in Req : req'[s].from = Ui(d) /\ Leaving(req'[s], rec')
      OBVIOUS
    <2>1. req[r].from = Ui(d) /\ Leaving(req[r], rec)
      BY <1>3, <1>5, Threads DEF Place
    <2> QED BY <1>1, <2>1
  <1>12. ~In(Ui(d), "save")
    BY <1>2, <1>3 DEF Place
  <1>13. Place(d)'
    BY <1>3, <1>8, <1>9, <1>10, <1>11, <1>12 DEF Place, In
  <1> QED BY <1>3, <1>4, <1>6, <1>7, <1>13, CalmHeld DEF Calm

LEMMA ReplyGives ==
    ASSUME TypeOK, NEW r \in Req, NEW b \in BOOLEAN, Reply(r, b)
    PROVE  \E q \in Request :
           /\ req' = [req EXCEPT ![r] = q]
           /\ q.pc = "answer" /\ q.from = req[r].from /\ q.new = req[r].new /\ q.ok = b
  <1>1. req[r] \in Request
    BY DEF TypeOK
  <1>2. [req[r] EXCEPT !.pc = "answer", !.ok = b, !.tok = NoToken, !.prev = NoToken] \in Request
    BY <1>1 DEF Request, ServerPc
  <1>3. LET q == [req[r] EXCEPT !.pc = "answer", !.ok = b, !.tok = NoToken, !.prev = NoToken]
        IN  q.pc = "answer" /\ q.from = req[r].from /\ q.new = req[r].new /\ q.ok = b
    BY <1>1 DEF Request
  <1>4. req' = [req EXCEPT ![r] =
          [req[r] EXCEPT !.pc = "answer", !.ok = b, !.tok = NoToken, !.prev = NoToken]]
    BY DEF Reply, TypeOK
  <1> QED BY <1>2, <1>3, <1>4

LEMMA ServedStep ==
    ASSUME IInv, Screens, Tidy, Calm, NEW r \in Req, NEW pc \in ServerPc, Step(r, pc),
           req[r].pc # "free", pc # "free",
           UNCHANGED <<verified, store, phase, thr, flight, mishaps>>,
           \A q \in Request : mishaps = {} /\ q.pc = pc /\ q.new = req[r].new =>
               /\ Fruitful(req[r], rec) => Fruitful(q, rec')
               /\ Entering(req[r], rec) => Entering(q, rec')
               /\ Leaving(req[r], rec) => Leaving(q, rec')
               /\ Refused(req[r], rec) => Refused(q, rec') /\ rec' = {}
    PROVE  Calm'
  <1>1. PICK q \in Request :
           /\ req' = [req EXCEPT ![r] = q]
           /\ q.pc = pc /\ q.from = req[r].from /\ q.new = req[r].new
    BY StepIs DEF IInv
  <1> QED BY <1>1, Served

LEMMA ServedReply ==
    ASSUME IInv, Screens, Tidy, Calm, NEW r \in Req, NEW b \in BOOLEAN, Reply(r, b),
           req[r].pc # "free",
           UNCHANGED <<verified, store, phase, thr, flight, mishaps>>,
           \A q \in Request : mishaps = {} /\ q.pc = "answer" /\ q.new = req[r].new /\ q.ok = b =>
               /\ Fruitful(req[r], rec) => Fruitful(q, rec')
               /\ Entering(req[r], rec) => Entering(q, rec')
               /\ Leaving(req[r], rec) => Leaving(q, rec')
               /\ Refused(req[r], rec) => Refused(q, rec') /\ rec' = {}
    PROVE  Calm'
  <1>1. PICK q \in Request :
           /\ req' = [req EXCEPT ![r] = q]
           /\ q.pc = "answer" /\ q.from = req[r].from /\ q.new = req[r].new /\ q.ok = b
    BY ReplyGives DEF IInv
  <1> QED BY <1>1, Served

LEMMA CalmAuth ==
    ASSUME IInv, Screens, Tidy, Calm, NEW r \in Req, Auth(r)
    PROVE  Calm'
  <1>1. /\ req[r].pc = "auth" /\ rec' = rec
        /\ Step(r, "prev") \/ Reply(r, FALSE)
        /\ UNCHANGED <<verified, store, phase, thr, flight, mishaps>> /\ "prev" \in ServerPc
    BY DEF Auth, On, server, device, ServerPc
  <1>2. /\ ~Fruitful(req[r], rec) /\ ~Leaving(req[r], rec) /\ ~Refused(req[r], rec)
        /\ Entering(req[r], rec) => rec = {}
    BY <1>1 DEF Fruitful, Entering, Leaving, Refused
  <1>3. CASE Step(r, "prev")
    BY <1>1, <1>2, <1>3, ServedStep DEF Entering
  <1>4. CASE Reply(r, FALSE)
    BY <1>1, <1>2, <1>4, ServedReply DEF Entering
  <1> QED BY <1>1, <1>3, <1>4

LEMMA CalmTake ==
    ASSUME IInv, Screens, Tidy, Calm, NEW r \in Req, Take(r)
    PROVE  Calm'
  <1>1. /\ req[r].pc = "take" /\ rec' = rec \ {req[r].tok}
        /\ UNCHANGED <<verified, store, phase, thr, flight, mishaps>> /\ "user" \in ServerPc
        /\ IF req[r].tok \in rec THEN Step(r, "user") ELSE Reply(r, FALSE)
    BY DEF Take, On, device, ServerPc
  <1>2. /\ ~Entering(req[r], rec) /\ ~Leaving(req[r], rec)
        /\ Fruitful(req[r], rec) => req[r].tok \in rec
        /\ Refused(req[r], rec) => req[r].tok \notin rec /\ rec' = {}
    BY <1>1 DEF Fruitful, Entering, Leaving, Refused
  <1>3. CASE req[r].tok \in rec
    BY <1>1, <1>2, <1>3, ServedStep DEF Fruitful
  <1>4. CASE req[r].tok \notin rec
    BY <1>1, <1>2, <1>4, ServedReply DEF Refused
  <1> QED BY <1>3, <1>4

LEMMA CalmCheckUser ==
    ASSUME IInv, Screens, Tidy, Calm, NEW r \in Req, CheckUser(r)
    PROVE  Calm'
  <1>1. /\ req[r].pc = "user" /\ rec' = rec /\ "prev" \in ServerPc
        /\ UNCHANGED <<verified, store, phase, thr, flight, mishaps>>
        /\ IF CanRefresh THEN Step(r, "prev") ELSE Reply(r, FALSE)
    BY DEF CheckUser, On, server, device, ServerPc
  <1>2. ~Entering(req[r], rec) /\ ~Leaving(req[r], rec) /\ ~Refused(req[r], rec)
    BY <1>1 DEF Entering, Leaving, Refused
  <1>3. CASE mishaps = {}
    <2>1. Step(r, "prev")
      BY <1>1, <1>3 DEF Calm, CanRefresh
    <2> QED BY <1>1, <1>2, <2>1, ServedStep DEF Fruitful
  <1>4. CASE mishaps # {}
    BY <1>1, <1>4, CalmOver
  <1> QED BY <1>3, <1>4

LEMMA CalmPrevious ==
    ASSUME IInv, Screens, Tidy, Calm, NEW r \in Req, Previous(r)
    PROVE  Calm'
  <1>1. /\ req[r].pc = "prev" /\ rec' = rec
        /\ UNCHANGED <<verified, store, phase, thr, flight, mishaps>>
        /\ req[r] \in Request /\ sess \in Token \cup {NoToken}
    BY DEF Previous, On, server, device, IInv, TypeOK
  <1>2. PICK pc \in {"record", "drop"} : req' = [req EXCEPT ![r].pc = pc, ![r].prev = sess]
    BY DEF Previous
  <1>3. PICK q \in Request : /\ req' = [req EXCEPT ![r] = q]
                             /\ q.pc = pc /\ q.from = req[r].from
    <2>1. [req[r] EXCEPT !.pc = pc, !.prev = sess] \in Request
      BY <1>1 DEF Request, ServerPc
    <2>2. /\ [req[r] EXCEPT !.pc = pc, !.prev = sess].pc = pc
          /\ [req[r] EXCEPT !.pc = pc, !.prev = sess].from = req[r].from
      BY <1>1 DEF Request
    <2>3. req' = [req EXCEPT ![r] = [req[r] EXCEPT !.pc = pc, !.prev = sess]]
      BY <1>2 DEF IInv, TypeOK
    <2> QED BY <2>1, <2>2, <2>3
  <1>4. /\ Fruitful(req[r], rec) => Fruitful(q, rec')
        /\ Entering(req[r], rec) => Entering(q, rec')
        /\ ~Leaving(req[r], rec) /\ ~Refused(req[r], rec)
    BY <1>1, <1>3 DEF Fruitful, Entering, Leaving, Refused
  <1> QED BY <1>1, <1>3, <1>4, Served

LEMMA CalmDrop ==
    ASSUME IInv, Screens, Tidy, Calm, NEW r \in Req, Drop(r)
    PROVE  Calm'
  <1>1. /\ req[r].pc = "drop" /\ rec' = rec \ {req[r].prev} /\ Step(r, "record")
        /\ UNCHANGED <<verified, store, phase, thr, flight, mishaps>> /\ "record" \in ServerPc
    BY DEF Drop, On, device, ServerPc
  <1>2. /\ ~Leaving(req[r], rec) /\ ~Refused(req[r], rec)
        /\ Entering(req[r], rec) => rec = {} /\ rec' = {}
    BY <1>1 DEF Entering, Leaving, Refused
  <1> QED BY <1>1, <1>2, ServedStep DEF Fruitful, Entering

LEMMA CalmRecord ==
    ASSUME IInv, Screens, Tidy, Calm, NEW r \in Req, Record(r)
    PROVE  Calm'
  <1>1. /\ req[r].pc = "record" /\ rec' = rec \cup {minted'} /\ minted' = minted + 1
        /\ UNCHANGED <<verified, store, phase, thr, flight, mishaps>>
        /\ req' = [req EXCEPT ![r].pc = "index", ![r].new = minted']
        /\ req[r] \in Request
    BY DEF Record, On, device, IInv, TypeOK
  <1>2. minted' \in Token
    BY <1>1, RoomLeft DEF Owing
  <1>3. PICK q \in Request : /\ req' = [req EXCEPT ![r] = q]
                             /\ q.pc = "index" /\ q.from = req[r].from /\ q.new = minted'
    <2>1. [req[r] EXCEPT !.pc = "index", !.new = minted'] \in Request
      BY <1>1, <1>2 DEF Request, ServerPc
    <2>2. /\ [req[r] EXCEPT !.pc = "index", !.new = minted'].pc = "index"
          /\ [req[r] EXCEPT !.pc = "index", !.new = minted'].from = req[r].from
          /\ [req[r] EXCEPT !.pc = "index", !.new = minted'].new = minted'
      BY <1>1 DEF Request
    <2>3. req' = [req EXCEPT ![r] = [req[r] EXCEPT !.pc = "index", !.new = minted']]
      BY <1>1 DEF IInv, TypeOK
    <2> QED BY <2>1, <2>2, <2>3
  <1>4. /\ Fruitful(q, rec') /\ Entering(q, rec')
        /\ ~Leaving(req[r], rec) /\ ~Refused(req[r], rec)
    BY <1>1, <1>3 DEF Fruitful, Entering, Leaving, Refused
  <1> QED BY <1>1, <1>3, <1>4, Served

LEMMA CalmIndex ==
    ASSUME IInv, Screens, Tidy, Calm, NEW r \in Req, Index(r)
    PROVE  Calm'
  <1>1. /\ req[r].pc = "index" /\ rec' = rec /\ Reply(r, TRUE)
        /\ UNCHANGED <<verified, store, phase, thr, flight, mishaps>>
    BY DEF Index, On, device
  <1>2. /\ ~Leaving(req[r], rec) /\ ~Refused(req[r], rec)
        /\ Fruitful(req[r], rec) \/ Entering(req[r], rec) => req[r].new \in rec
    BY <1>1 DEF Fruitful, Entering, Leaving, Refused
  <1>3. ASSUME NEW q \in Request, q.pc = "answer", q.new = req[r].new, q.ok = TRUE
        PROVE  /\ Fruitful(req[r], rec) => Fruitful(q, rec')
               /\ Entering(req[r], rec) => Entering(q, rec')
    BY <1>1, <1>2, <1>3 DEF Fruitful, Entering
  <1> QED BY <1>1, <1>2, <1>3, ServedReply

LEMMA CalmRevoke ==
    ASSUME IInv, Screens, Tidy, Calm, NEW r \in Req, Revoke(r)
    PROVE  Calm'
  <1>1. /\ req[r].pc = "revoke" /\ rec' = rec \ {req[r].tok}
        /\ UNCHANGED <<verified, store, phase, thr, flight, mishaps>> /\ "current" \in ServerPc
        /\ IF req[r].tok \in rec THEN Step(r, "current") ELSE Reply(r, TRUE)
    BY DEF Revoke, On, device, ServerPc
  <1>2. ~Fruitful(req[r], rec) /\ ~Entering(req[r], rec) /\ ~Refused(req[r], rec)
    BY <1>1 DEF Fruitful, Entering, Refused
  <1>3. mishaps = {} /\ Leaving(req[r], rec) => req[r].tok \in rec /\ rec' = {}
    <2> SUFFICES ASSUME mishaps = {}, Leaving(req[r], rec)
                 PROVE  req[r].tok \in rec /\ rec' = {}
      OBVIOUS
    <2>1. req[r].tok \in rec
      BY <1>1 DEF Leaving
    <2>2. rec \subseteq {sess}
      BY <1>1, Knows DEF Settles
    <2> QED BY <1>1, <2>1, <2>2
  <1>4. CASE req[r].tok \in rec
    BY <1>1, <1>2, <1>3, <1>4, ServedStep DEF Leaving
  <1>5. CASE req[r].tok \notin rec
    BY <1>1, <1>2, <1>3, <1>5, ServedReply DEF Leaving
  <1> QED BY <1>4, <1>5

LEMMA CalmForgets ==
    ASSUME IInv, Screens, Tidy, Calm, NEW r \in Req, Current(r) \/ Unindex(r)
    PROVE  Calm'
  <1>1. /\ req[r].pc \in {"current", "unindex"} /\ rec' = rec
        /\ UNCHANGED <<verified, store, phase, thr, flight, mishaps>> /\ "unindex" \in ServerPc
        /\ Step(r, "unindex") \/ Reply(r, TRUE)
    BY DEF Current, Unindex, On, server, device, ServerPc
  <1>2. /\ ~Fruitful(req[r], rec) /\ ~Entering(req[r], rec) /\ ~Refused(req[r], rec)
        /\ Leaving(req[r], rec) => rec = {}
    BY <1>1 DEF Fruitful, Entering, Refused, Leaving
  <1>3. CASE Step(r, "unindex")
    BY <1>1, <1>2, <1>3, ServedStep DEF Leaving
  <1>4. CASE Reply(r, TRUE)
    BY <1>1, <1>2, <1>4, ServedReply DEF Leaving
  <1> QED BY <1>1, <1>3, <1>4


\* A refresh answered: its token is to be stored, or what the device holds cleared.
LEMMA CalmRefreshed ==
    ASSUME IInv, Screens, Tidy, Calm, NEW r \in Req, Answer(r), mishaps = {},
           req[r].from # Nobody, req[r].kind = "refresh",
           Busy' = {}, NEW d \in Device, d = Dev(req[r].from), NEW l \in Local,
           thr' = [thr EXCEPT ![req[r].from] = l],
           \/ req[r].ok /\ l.pc = "store" /\ l.tok = req[r].new
           \/ ~req[r].ok /\ l.pc = "clear"
    PROVE  Held(d)' /\ Place(d)'
  <1> DEFINE p == req[r].from
  <1>1. /\ r \in Busy /\ req[r].pc = "answer" /\ p \in Thread
        /\ UNCHANGED <<rec, store, flight>>
    BY AnswerIs DEF Answer, On, Busy, server
  <1>2. thr[p].pc = "rotating" /\ flight[d] = p /\ Place(d)
    BY <1>1, BusyHeld DEF Awaits
  <1>3. /\ store[d] # NoToken /\ flight[d] # Nobody
        /\ \A s \in Req : req[s].from = p => s = r
    BY <1>1, <1>2, Threads DEF Tidy, IInv, Waiting
  <1>4. thr'[p] = l /\ \A o \in Thread \ {p} : thr'[o] = thr[o]
    BY <1>1, Turned DEF IInv
  <1>5. ASSUME Live(d)
        PROVE  Live(d)' /\ l.pc = "store"
    <2>1. Fruitful(req[r], rec)
      BY <1>1, <1>2, <1>3, <1>5 DEF Live
    <2>2. l.pc = "store" /\ l.tok \in rec
      BY <1>1, <2>1 DEF Fruitful
    <2> QED BY <1>1, <1>2, <1>3, <1>4, <2>2 DEF Live, In
  <1>6. ASSUME Wiping(d)
        PROVE  Wiping(d)'
    <2>1. Refused(req[r], rec)
      BY <1>1, <1>2, <1>3, <1>6 DEF Wiping
    <2>2. l.pc = "clear" /\ rec' = {}
      BY <1>1, <2>1 DEF Refused
    <2> QED BY <1>1, <1>2, <1>3, <1>4, <2>2 DEF Wiping, In
  <1>7. CASE p = Ui(d)
    <2>1. Live(d)
      BY <1>2, <1>7 DEF Place, Inside, Calling
    <2>2. Live(d)' /\ thr'[Ui(d)].pc = "store"
      BY <1>4, <1>5, <1>7, <2>1
    <2> QED BY <2>2 DEF Place, In, Held, Live
  <1>8. CASE p # Ui(d)
    <2>1. thr'[Ui(d)] = thr[Ui(d)]
      BY <1>4, <1>8, Threads
    <2>2. ~In(Ui(d), "save") /\ ~In(Ui(d), "leaving") /\ ~In(Ui(d), "clear")
      BY <1>1, <1>2, <1>3 DEF Place
    <2>3. ~In(Ui(d), "entering")
      <3>1. ASSUME NEW s \in Req, req[s].from = Ui(d)
            PROVE  FALSE
        <4>1. req[s].from # Nobody
          BY <3>1, Threads
        <4>2. s \in Busy
          BY <4>1 DEF IInv, Waiting, Busy
        <4>3. s = r
          BY <1>1, <4>2, OneBusy
        <4> QED BY <1>8, <3>1, <4>3
      <3> QED BY <1>2, <3>1 DEF Place
    <2> QED BY <1>1, <1>2, <1>3, <1>5, <1>6, <2>1, <2>2, <2>3 DEF Place, In, Held
  <1> QED BY <1>7, <1>8

LEMMA CalmAnswer ==
    ASSUME IInv, Screens, Tidy, Calm, NEW r \in Req, Answer(r)
    PROVE  Calm'
  <1> SUFFICES ASSUME mishaps = {} PROVE Calm'
    BY CalmOver DEF Answer
  <1>1. /\ r \in Busy /\ req[r].pc = "answer" /\ req' = [req EXCEPT ![r] = Free]
        /\ UNCHANGED <<rec, store, flight, verified>> /\ req \in [Req -> Request]
    BY DEF Answer, On, Busy, server, IInv, TypeOK
  <1> PICK p \in Thread, d \in Device : p = req[r].from /\ d = Dev(req[r].from)
    BY <1>1, BusyHeld
  <1>2. /\ p # Nobody /\ p \in Thread /\ d \in Device /\ Held(d) /\ Place(d)
        /\ thr[p].pc = Awaits[req[r].kind]
        /\ thr[p].pc # "rotating" => p = Ui(d)
    BY <1>1, BusyHeld DEF Calm
  <1>3. \A s \in Req : req'[s].pc = "free"
    <2>1. \A s \in Req \ {r} : req[s].pc = "free"
      BY <1>1, OneBusy DEF Busy
    <2> QED BY <1>1, <2>1, FreeType
  <1>4. PICK l \in Local :
          /\ thr' = [thr EXCEPT ![p] = l]
          /\ \/ req[r].kind = "logout" /\ l.pc = "wipe" /\ phase' = phase
             \/ req[r].kind = "refresh" /\ req[r].ok /\ phase' = phase
                /\ l.pc = "store" /\ l.tok = req[r].new
             \/ req[r].kind = "refresh" /\ ~req[r].ok /\ l.pc = "clear" /\ phase' = phase
             \/ req[r].kind = "login" /\ req[r].ok /\ phase' = phase
                /\ l.pc = "save" /\ l.tok = req[r].new
             \/ req[r].kind = "login" /\ ~req[r].ok /\ l.pc = "idle"
                /\ \/ phase' = phase
                   \/ phase' = [phase EXCEPT ![d] = "pendingJuridica"]
    BY <1>2, AnswerIs
  <1>5. /\ thr'[p] = l /\ \A o \in Thread \ {p} : thr'[o] = thr[o]
        /\ phase \in [Device -> Phase]
    BY <1>2, <1>4, Turned DEF IInv, TypeOK
  <1>6. \A e \in Device \ {d} : /\ ~Held(e) /\ store'[e] = store[e] /\ phase'[e] = phase[e]
                                /\ thr'[Ui(e)].pc = thr[Ui(e)].pc
    BY <1>1, <1>2, <1>4, <1>5, OneHolder, Threads
  <1>7. Busy' = {}
    BY <1>3 DEF Busy
  <1>8. \/ Held(d)' /\ Place(d)'
        \/ ~Held(d)' /\ phase'[d] # "signedIn" /\ rec' = {} /\ Busy' = {}
    <2>1. CASE req[r].kind = "refresh"
      BY <1>2, <1>4, <1>7, <2>1, CalmRefreshed
    <2>2. CASE req[r].kind = "logout"
      <3>1. thr[p].pc = "leaving" /\ p = Ui(d)
        BY <1>2, <2>2 DEF Awaits
      <3>2. PICK s \in Req : req[s].from = p /\ Leaving(req[s], rec)
        BY <1>2, <3>1 DEF Place, In
      <3>3. s = r
        BY <1>2, <3>2 DEF IInv, Waiting
      <3>4. flight'[d] = Nobody /\ rec' = {} /\ thr'[Ui(d)].pc = "wipe"
        BY <1>1, <1>2, <1>4, <1>5, <2>2, <3>1, <3>2, <3>3 DEF Place, In, Leaving
      <3> QED BY <1>7, <3>4 DEF Place, In, Held, Wiping, Inside, Calling
    <2>3. CASE req[r].kind = "login"
      <3>1. thr[p].pc = "entering" /\ p = Ui(d)
        BY <1>2, <2>3 DEF Awaits
      <3>2. PICK s \in Req : req[s].from = p /\ Entering(req[s], rec)
        BY <1>2, <3>1 DEF Place, In
      <3>3. s = r
        BY <1>2, <3>2 DEF IInv, Waiting
      <3>4. phase[d] \in Outside /\ store[d] = NoToken
        <4>1. phase[d] \in Outside
          BY <1>2, <1>5, <3>1, PhaseOf DEF Screens
        <4> QED BY <1>2, <3>1, <4>1 DEF Tidy
      <3>5. CASE req[r].ok
        <4>1. thr'[Ui(d)].pc = "save" /\ thr'[Ui(d)].tok \in rec'
          BY <1>1, <1>4, <1>5, <2>3, <3>1, <3>2, <3>3, <3>5 DEF Entering
        <4> QED BY <1>7, <4>1 DEF Place, In, Held, Inside, Calling
      <3>6. CASE ~req[r].ok
        <4>1. /\ thr'[Ui(d)].pc = "idle" /\ rec' = {}
              /\ phase' = phase \/ phase' = [phase EXCEPT ![d] = "pendingJuridica"]
          BY <1>1, <1>4, <1>5, <2>3, <3>1, <3>2, <3>3, <3>6 DEF Entering
        <4>2. phase'[d] # "signedIn"
          BY <1>2, <1>5, <3>4, <4>1 DEF Outside
        <4> QED BY <1>1, <1>7, <3>4, <4>1, <4>2 DEF Held
      <3> QED BY <3>5, <3>6
    <2>4. req[r].kind \in {"login", "refresh", "logout"}
      BY <1>1 DEF Request
    <2> QED BY <2>1, <2>2, <2>3, <2>4
  <1>9. verified'
    BY <1>1 DEF Calm
  <1> QED BY <1>2, <1>3, <1>6, <1>8, <1>9, CalmHeld

----------------------------------------------------------------------------
(* Calm: the calls of a device *)

LEMMA CalmGoesOn ==
    ASSUME IInv, Screens, Tidy, Calm, NEW p \in Thread,
           \/ Fresh(p) \/ Wait(p) \/ Send(p)
           \/ Turn(p) /\ ~(flight[Dev(p)] = Nobody /\ store[Dev(p)] # NoToken)
    PROVE  Calm'
  <1>1. PICK l \in Local : thr' = [thr EXCEPT ![p] = l] /\ GoesOn(p, l)
    BY CallGoesOn DEF IInv
  <1>2. /\ thr[p].pc \in Onward /\ thr[p].pc \notin Holding
        /\ UNCHANGED <<rec, verified, req, store, flight, mishaps>>
    BY CallGoesOn DEF IInv, Onward, Holding
  <1>3. CASE p[2] = "sync"
    BY <1>1, <1>2, <1>3, CalmSync DEF GoesOn
  <1>4. CASE p[2] = "ui" /\ p = Ui(Dev(p))
    <2> SUFFICES ASSUME mishaps = {} PROVE Calm'
      BY <1>2, CalmOver
    <2> PICK d \in Device : d = Dev(p)
      BY Threads
    <2>1. Held(d) /\ thr[Ui(d)].pc \in Inside /\ thr[Ui(d)].pc \notin Holding
      BY <1>2, <1>4 DEF Held, Inside, Onward, Calling
    <2>2. Live(d)
      BY <2>1, OneHolder DEF Place
    <2>3. l.pc \in Inside /\ \A e \in Device \ {d} : phase'[e] = phase[e]
      BY <1>1, <1>4 DEF GoesOn, Inside, Onward, Calling, IInv, TypeOK
    <2> QED BY <1>1, <1>2, <1>4, <2>1, <2>2, <2>3, CalmUi
  <1> QED BY <1>3, <1>4, UiOrSync

\* A refresh is posted: it will bring a token the server exchanges, or is refused
\* while the device forgets its session.
LEMMA CalmPosts ==
    ASSUME IInv, Screens, Tidy, Calm, NEW p \in Thread, Turn(p),
           flight[Dev(p)] = Nobody, store[Dev(p)] # NoToken
    PROVE  Calm'
  <1> SUFFICES ASSUME mishaps' = {} PROVE Calm'
    BY CalmOver
  <1> PICK d \in Device : d = Dev(p)
    BY Threads
  <1>1. /\ thr[p].pc = "turn" /\ Post(p, "refresh", store[d], "take")
        /\ flight' = [flight EXCEPT ![d] = p] /\ Go(p, "rotating")
        /\ UNCHANGED <<rec, verified, store, phase>>
        /\ mishaps' = mishaps \cup Overlaps
    BY DEF Turn, In, server
  <1>2. mishaps = {} /\ Busy = {}
    BY <1>1 DEF Overlaps
  <1>3. Held(d) /\ Place(d) /\ \A e \in Device \ {d} : ~Held(e)
    BY <1>2, OneHolder DEF Held
  <1>4. PICK l \in Local : thr' = [thr EXCEPT ![p] = l] /\ l.pc = "rotating"
    BY <1>1, GoIs DEF IInv, ThreadPc
  <1>5. thr'[p] = l /\ \A o \in Thread \ {p} : thr'[o] = thr[o]
    BY <1>4, Turned DEF IInv
  <1>6. PICK r \in Req, q \in Request :
            /\ req' = [req EXCEPT ![r] = q]
            /\ q.pc = "take" /\ q.tok = store[d] /\ q.from = p
    BY <1>1, PostIs DEF IInv, TypeOK
  <1>7. req'[r] = q /\ \A s \in Req \ {r} : req'[s] = req[s] /\ req[s].pc = "free"
    BY <1>2, <1>6, Slot DEF IInv, Busy
  <1>8. flight'[d] = p /\ p # Nobody /\ thr'[p].pc = "rotating"
    BY <1>1, <1>4, <1>5, Threads DEF IInv, TypeOK
  <1>9. Live(d) => Live(d)'
    <2> SUFFICES ASSUME Live(d) PROVE Live(d)'
      OBVIOUS
    <2>1. Fruitful(q, rec')
      BY <1>1, <1>6 DEF Live, Fruitful
    <2> QED BY <1>1, <1>6, <1>7, <1>8, <2>1 DEF Live, In
  <1>10. Wiping(d) => Wiping(d)'
    <2> SUFFICES ASSUME Wiping(d) PROVE Wiping(d)'
      OBVIOUS
    <2>1. Refused(q, rec')
      BY <1>1, <1>6 DEF Wiping, Refused
    <2> QED BY <1>1, <1>6, <1>7, <1>8, <2>1 DEF Wiping, In
  <1>11. Held(d)'
    BY <1>1 DEF Held
  <1>12. Place(d)'
    <2>1. CASE p = Ui(d)
      <3>1. Live(d)'
        BY <1>1, <1>3, <1>9, <2>1 DEF Place, Inside, Calling
      <3> QED BY <1>4, <1>5, <2>1, <3>1 DEF Place, In
    <2>2. CASE p # Ui(d)
      <3>1. thr'[Ui(d)] = thr[Ui(d)]
        BY <1>5, <2>2, Threads
      <3>2. \A s \in Req : req[s].from # Ui(d)
        BY <1>2, Threads DEF IInv, Waiting, Busy
      <3>3. ~In(Ui(d), "entering") /\ ~In(Ui(d), "leaving") /\ ~In(Ui(d), "clear")
        BY <1>3, <3>2 DEF Place
      <3>4. ~In(Ui(d), "save")
        <4>1. thr[Ui(d)].pc = "save" => phase[d] \in Outside
          BY PhaseOf DEF Screens, IInv, TypeOK
        <4> QED BY <1>2, <4>1 DEF Tidy, In
      <3> QED BY <1>3, <1>9, <1>10, <3>1, <3>3, <3>4 DEF Place, In
    <2> QED BY <2>1, <2>2
  <1>13. \A e \in Device \ {d} : thr'[Ui(e)].pc = thr[Ui(e)].pc
    BY <1>5, Threads
  <1>14. verified' /\ \A s \in Req : req'[s].pc # "free" => req'[s].from # Nobody
    BY <1>1, <1>2, <1>6, <1>7, <1>8 DEF Calm
  <1> QED BY <1>1, <1>2, <1>3, <1>11, <1>12, <1>13, <1>14, CalmHeld

\* Whoever has an answer to store or to clear does it for the device with the session.
LEMMA Bearer ==
    ASSUME IInv, Screens, Tidy, Calm, mishaps = {}, NEW p \in Thread, NEW d \in Device,
           d = Dev(p), thr[p].pc \in {"store", "clear"}
    PROVE  /\ flight[d] = p /\ flight[d] # Nobody /\ Held(d)
           /\ \/ thr[p].pc = "store" /\ Live(d) /\ thr[Ui(d)].pc \in Inside
              \/ thr[p].pc = "clear" /\ Wiping(d) /\ thr[Ui(d)].pc = "wipe" /\ p[2] = "sync"
           /\ Busy = {} /\ \A e \in Device \ {d} : ~Held(e)
  <1>1. flight[d] = p /\ flight[d] # Nobody
    BY Threads DEF IInv, Waiting, Holding
  <1>2. store[d] # NoToken
    BY <1>1 DEF Tidy
  <1>3. Held(d) /\ Place(d) /\ \A e \in Device \ {d} : ~Held(e)
    BY <1>2, OneHolder DEF Held
  <1>4. thr[Ui(d)].pc \in ThreadPc /\ phase[d] \in Phase /\ thr[Ui(d)].pc \in AtPhase[phase[d]]
    BY Threads DEF IInv, TypeOK, Local, Screens
  <1>5. thr[Ui(d)].pc \notin {"entering", "save"}
    BY <1>2, <1>4, PhaseOf DEF Tidy
  <1>6. thr[Ui(d)].pc \notin {"leaving", "clear"}
    BY <1>1, <1>3 DEF Place, In
  <1>7. thr[Ui(d)].pc \in Inside \cup {"wipe"}
    BY <1>4, <1>5, <1>6 DEF ThreadPc, Inside, Calling
  <1>8. CASE thr[Ui(d)].pc \in Inside
    <2>1. Live(d)
      BY <1>3, <1>8 DEF Place
    <2> QED BY <1>1, <1>3, <1>8, <2>1 DEF Live, In
  <1>9. CASE thr[Ui(d)].pc = "wipe"
    <2>1. Wiping(d)
      BY <1>3, <1>9 DEF Place, In
    <2>2. p[2] = "sync"
      BY <1>9, UiOrSync
    <2> QED BY <1>1, <1>3, <1>9, <2>1, <2>2 DEF Wiping, In
  <1> QED BY <1>7, <1>8, <1>9

LEMMA CalmStore ==
    ASSUME IInv, Screens, Tidy, Calm, NEW p \in Thread, Store(p)
    PROVE  Calm'
  <1> SUFFICES ASSUME mishaps = {} PROVE Calm'
    BY CalmOver DEF Store
  <1> PICK d \in Device : d = Dev(p)
    BY Threads
  <1>1. /\ thr[p].pc = "store" /\ store' = [store EXCEPT ![d] = thr[p].tok]
        /\ flight' = [flight EXCEPT ![d] = Nobody] /\ UNCHANGED <<rec, verified, req>>
        /\ store \in [Device -> Token \cup {NoToken}] /\ rec \subseteq Token
        /\ flight \in [Device -> Thread \cup {Nobody}] /\ phase \in [Device -> Phase]
    BY DEF Store, Release, In, server, IInv, TypeOK
  <1>2. PICK l \in Local : thr' = [thr EXCEPT ![p] = l] /\ GoesOn(p, l)
    BY CallResumes DEF Store, IInv
  <1>3. /\ flight[d] = p /\ flight[d] # Nobody /\ Live(d) /\ thr[Ui(d)].pc \in Inside
        /\ Busy = {} /\ \A e \in Device \ {d} : ~Held(e)
    BY <1>1, Bearer
  <1>4. store'[d] \in rec' /\ store'[d] # NoToken
    <2>1. thr[p].tok \in rec
      BY <1>1, <1>3 DEF Live, In
    <2> QED BY <1>1, <2>1 DEF Token, NoToken
  <1>5. thr'[p] = l /\ \A o \in Thread \ {p} : thr'[o] = thr[o]
    BY <1>2, Turned DEF IInv
  <1>6. Busy' = {} /\ flight'[d] = Nobody
    BY <1>1, <1>3 DEF Busy
  <1>7. Live(d)'
    BY <1>4, <1>6 DEF Live
  <1>8. thr'[Ui(d)].pc \in Inside
    <2>1. CASE p = Ui(d)
      BY <1>2, <1>5, <2>1, UiOrSync DEF GoesOn, Onward, Inside, Calling
    <2>2. CASE p # Ui(d)
      BY <1>3, <1>5, <2>2, Threads
    <2> QED BY <2>1, <2>2
  <1>9. \A e \in Device \ {d} : /\ store'[e] = store[e] /\ phase'[e] = phase[e]
                                /\ thr'[Ui(e)].pc = thr[Ui(e)].pc
    <2>1. phase' = phase \/ phase' = [phase EXCEPT ![d] = "signedIn"]
      BY <1>2, Threads DEF GoesOn
    <2> QED BY <1>1, <1>5, <2>1, Threads
  <1>10. Held(d)' /\ Place(d)'
    BY <1>4, <1>7, <1>8 DEF Held, Place, In, Inside, Calling
  <1>11. verified' /\ \A r \in Req : req'[r].pc # "free" => req'[r].from # Nobody
    BY <1>1 DEF Calm, Busy
  <1> QED BY <1>3, <1>9, <1>10, <1>11, CalmHeld

LEMMA CalmClear ==
    ASSUME IInv, Screens, Tidy, Calm, NEW p \in Thread, Clear(p)
    PROVE  Calm'
  <1> SUFFICES ASSUME mishaps = {} PROVE Calm'
    BY CalmOver DEF Clear
  <1> PICK d \in Device : d = Dev(p)
    BY Threads
  <1>1. /\ thr[p].pc = "clear" /\ store' = [store EXCEPT ![d] = NoToken]
        /\ flight' = [flight EXCEPT ![d] = Nobody] /\ UNCHANGED <<rec, verified, req>>
        /\ store \in [Device -> Token \cup {NoToken}]
        /\ flight \in [Device -> Thread \cup {Nobody}]
    BY DEF Clear, Release, In, server, IInv, TypeOK
  <1>2. PICK l \in Local : thr' = [thr EXCEPT ![p] = l] /\ GoesOn(p, l)
    BY CallResumes DEF Clear, IInv
  <1>3. /\ flight[d] = p /\ Wiping(d) /\ thr[Ui(d)].pc = "wipe" /\ p[2] = "sync"
        /\ Busy = {} /\ \A e \in Device \ {d} : ~Held(e)
    BY <1>1, Bearer
  <1>4. \A o \in Thread \ {p} : thr'[o] = thr[o]
    BY <1>2, Turned DEF IInv
  <1>5. phase' = phase /\ \A e \in Device : thr'[Ui(e)] = thr[Ui(e)]
    BY <1>2, <1>3, <1>4, Threads, UiOrSync DEF GoesOn
  <1>6. Busy' = {} /\ flight'[d] = Nobody /\ rec' = {}
    BY <1>1, <1>3 DEF Busy, Wiping
  <1>7. thr'[Ui(d)].pc = "wipe"
    BY <1>3, <1>5
  <1>8. Held(d)' /\ Place(d)'
    BY <1>6, <1>7 DEF Held, Place, Wiping, In, Inside, Calling
  <1>9. \A e \in Device \ {d} : store'[e] = store[e]
    BY <1>1
  <1>10. verified' /\ \A r \in Req : req'[r].pc # "free" => req'[r].from # Nobody
    BY <1>1 DEF Calm, Busy
  <1> QED BY <1>3, <1>5, <1>8, <1>9, <1>10, CalmHeld

LEMMA CalmCall ==
    ASSUME IInv, Screens, Tidy, Calm, NEW p \in Thread, SyncStart(p) \/ CallStep(p)
    PROVE  Calm'
  <1>1. CASE SyncStart(p)
    <2>1. /\ p[2] = "sync" /\ thr[p].pc \notin Holding
          /\ thr' = [thr EXCEPT ![p] = At0("fresh", NoToken)]
          /\ At0("fresh", NoToken) \in Local
          /\ UNCHANGED <<rec, req, verified, store, phase, flight, mishaps>>
      BY <1>1, At0Type DEF SyncStart, In, Holding, server, ThreadPc
    <2> QED BY <2>1, CalmSync
  <1>2. CASE Fresh(p) \/ Wait(p) \/ Send(p) \/ Turn(p)
    BY <1>2, CalmGoesOn, CalmPosts
  <1>3. CASE Store(p) \/ Clear(p)
    BY <1>3, CalmStore, CalmClear
  <1>4. CASE Timeout(p)
    BY <1>4, CalmOver DEF Timeout
  <1> QED BY <1>1, <1>2, <1>3, <1>4 DEF CallStep

----------------------------------------------------------------------------
(* Calm: the screens *)

LEMMA CalmScreens ==
    ASSUME IInv, Screens, Tidy, Calm, NEW d \in Device, UiStep(d)
    PROVE  Calm'
  <1> SUFFICES ASSUME mishaps' = {} PROVE Calm'
    BY CalmOver
  <1>1. /\ UNCHANGED <<rec, req, verified, flight>> /\ mishaps = {} /\ Ui(d) \in Thread
        /\ thr[Ui(d)].pc # "idle" \/ phase[d] = "bootstrapping"
        /\ thr \in [Thread -> Local] /\ store \in [Device -> Token \cup {NoToken}]
        /\ phase \in [Device -> Phase] /\ rec \subseteq Token
    BY UiIs, Threads DEF IInv, TypeOK
  <1>2. PICK l \in Local :
          /\ thr' = [thr EXCEPT ![Ui(d)] = l] \/ (thr' = thr /\ l = thr[Ui(d)])
          /\ \/ /\ thr[Ui(d)].pc = "idle" /\ store[d] = NoToken /\ l.pc = "idle"
                /\ store' = store /\ phase' = [phase EXCEPT ![d] = "guest"]
             \/ /\ thr[Ui(d)].pc = "latest" /\ store[d] = NoToken
             \/ /\ thr[Ui(d)].pc \in {"idle", "latest", "back", "load"} /\ store' = store
                /\ l.pc \in {"fresh", "back", "idle"}
                /\ thr[Ui(d)].pc = "idle" => store[d] # NoToken
                /\ \A e \in Device \ {d} : phase'[e] = phase[e]
             \/ /\ thr[Ui(d)].pc = "wipe" /\ l.pc = "idle" /\ flight[d] = Nobody
                /\ store' = [store EXCEPT ![d] = NoToken]
                /\ phase' = [phase EXCEPT ![d] = "guest"]
             \/ /\ thr[Ui(d)].pc = "save" /\ l.pc = "load"
                /\ store' = [store EXCEPT ![d] = thr[Ui(d)].tok] /\ phase' = phase
    <2>1. PICK l \in Local :
                /\ thr' = [thr EXCEPT ![Ui(d)] = l] \/ (thr' = thr /\ l = thr[Ui(d)])
                /\ \/ /\ In(Ui(d), "idle") /\ store[d] = NoToken /\ l.pc = "idle"
                      /\ store' = store /\ phase' = [phase EXCEPT ![d] = "guest"]
                   \/ /\ In(Ui(d), "idle") /\ store[d] # NoToken /\ l.pc = "fresh"
                      /\ store' = store /\ phase' = phase
                   \/ /\ In(Ui(d), "latest") /\ store[d] = NoToken /\ l.pc = "idle"
                      /\ store' = store /\ phase' = [phase EXCEPT ![d] = "guest"]
                   \/ /\ In(Ui(d), "latest") /\ store[d] # NoToken /\ l.pc = "back"
                      /\ store' = store /\ phase' = phase
                   \/ /\ In(Ui(d), "back") /\ l.pc = "idle" /\ store' = store
                      /\ phase' = [phase EXCEPT ![d] = "signedIn"]
                   \/ /\ In(Ui(d), "wipe") /\ l.pc = "idle" /\ flight[d] = Nobody
                      /\ store' = [store EXCEPT ![d] = NoToken]
                      /\ phase' = [phase EXCEPT ![d] = "guest"]
                   \/ /\ In(Ui(d), "save") /\ l.pc = "load"
                      /\ store' = [store EXCEPT ![d] = thr[Ui(d)].tok] /\ phase' = phase
                   \/ /\ In(Ui(d), "load") /\ l.pc = "idle" /\ store' = store
                      /\ phase' = IF store[d] = NoToken THEN phase
                                  ELSE [phase EXCEPT ![d] = "signedIn"]
      BY UiIs DEF In
    <2>2. \A f \in Phase : phase' = [phase EXCEPT ![d] = f] =>
             \A e \in Device \ {d} : phase'[e] = phase[e]
      BY <1>1
    <2> QED BY <2>1, <2>2 DEF In, Phase
  <1>3. thr' = [thr EXCEPT ![Ui(d)] = l]
    BY <1>1, <1>2
  <1>4. thr'[Ui(d)] = l /\ \A o \in Thread : Dev(o) # d => thr'[o] = thr[o]
    BY <1>1, <1>3, Threads
  <1>5. /\ Held(d) => Place(d) /\ \A e \in Device \ {d} : ~Held(e)
        /\ thr[Ui(d)].pc # "idle" => Held(d)
    BY <1>1, OneHolder DEF Held
  <1>6. CASE /\ thr[Ui(d)].pc = "idle" /\ store[d] = NoToken /\ l.pc = "idle"
             /\ store' = store /\ phase' = [phase EXCEPT ![d] = "guest"]
    <2>1. ~Held(d) /\ ~Held(d)' /\ phase'[d] # "signedIn"
      BY <1>1, <1>4, <1>6 DEF Held, In
    <2>2. \A e \in Device \ {d} : /\ store'[e] = store[e] /\ phase'[e] = phase[e]
                                  /\ flight'[e] = flight[e]
      BY <1>1, <1>6
    <2> QED BY <1>1, <1>4, <2>1, <2>2, CalmAside
  <1>7. CASE thr[Ui(d)].pc = "latest" /\ store[d] = NoToken
    BY <1>5, <1>7 DEF Place, Live, Inside
  <1>8. CASE /\ thr[Ui(d)].pc \in {"idle", "latest", "back", "load"} /\ store' = store
             /\ l.pc \in {"fresh", "back", "idle"}
             /\ thr[Ui(d)].pc = "idle" => store[d] # NoToken
             /\ \A e \in Device \ {d} : phase'[e] = phase[e]
    <2>1. Held(d) /\ thr[Ui(d)].pc \in Inside /\ thr[Ui(d)].pc \notin Holding
      BY <1>5, <1>8 DEF Held, Inside, Holding
    <2>2. Live(d)
      BY <1>5, <2>1 DEF Place
    <2>3. l.pc \in Inside
      BY <1>8 DEF Inside, Calling
    <2> QED BY <1>1, <1>3, <1>8, <2>1, <2>2, <2>3, CalmUi
  <1>9. CASE /\ thr[Ui(d)].pc = "wipe" /\ l.pc = "idle" /\ flight[d] = Nobody
             /\ store' = [store EXCEPT ![d] = NoToken]
             /\ phase' = [phase EXCEPT ![d] = "guest"]
    <2>1. rec = {} /\ Busy = {} /\ \A e \in Device \ {d} : ~Held(e)
      BY <1>5, <1>9 DEF Place, Wiping, In
    <2>2. ~Held(d)' /\ phase'[d] # "signedIn" /\ rec' = {} /\ Busy' = {}
      BY <1>1, <1>4, <1>9, <2>1 DEF Held, In, Busy
    <2>3. \A e \in Device \ {d} : /\ store'[e] = store[e] /\ phase'[e] = phase[e]
                                  /\ thr'[Ui(e)].pc = thr[Ui(e)].pc
      BY <1>1, <1>4, <1>9, Threads
    <2>4. verified' /\ \A r \in Req : req'[r].pc # "free" => req'[r].from # Nobody
      BY <1>1 DEF Calm, Busy
    <2> QED BY <1>1, <2>1, <2>2, <2>3, <2>4, CalmHeld
  <1>10. CASE /\ thr[Ui(d)].pc = "save" /\ l.pc = "load"
              /\ store' = [store EXCEPT ![d] = thr[Ui(d)].tok] /\ phase' = phase
    <2>1. Busy = {} /\ thr[Ui(d)].tok \in rec /\ \A e \in Device \ {d} : ~Held(e)
      BY <1>5, <1>10 DEF Place, In
    <2>2. flight[d] = Nobody
      <3>1. phase[d] \in Outside
        BY <1>1, <1>10, PhaseOf DEF Screens
      <3> QED BY <1>1, <1>10, <3>1 DEF Tidy
    <2>3. store'[d] \in rec' /\ store'[d] # NoToken /\ Busy' = {}
      BY <1>1, <1>10, <2>1 DEF Busy, Token, NoToken
    <2>4. Live(d)'
      BY <1>1, <2>2, <2>3 DEF Live
    <2>5. Held(d)' /\ Place(d)'
      BY <1>4, <1>10, <2>3, <2>4 DEF Held, Place, In
    <2>6. \A e \in Device \ {d} : /\ store'[e] = store[e] /\ phase'[e] = phase[e]
                                  /\ thr'[Ui(e)].pc = thr[Ui(e)].pc
      BY <1>1, <1>4, <1>10, Threads
    <2>7. verified' /\ \A r \in Req : req'[r].pc # "free" => req'[r].from # Nobody
      BY <1>1 DEF Calm, Busy
    <2> QED BY <1>1, <2>1, <2>5, <2>6, <2>7, CalmHeld
  <1> QED BY <1>2, <1>6, <1>7, <1>8, <1>9, <1>10

LEMMA CalmLogin ==
    ASSUME IInv, Screens, Tidy, Calm, NEW d \in Device, Login(d)
    PROVE  Calm'
  <1> SUFFICES ASSUME mishaps' = {} PROVE Calm'
    BY CalmOver
  <1>1. /\ Post(Ui(d), "login", NoToken, "auth") /\ Go(Ui(d), "entering")
        /\ UNCHANGED <<rec, verified, store, phase, flight>>
        /\ thr[Ui(d)].pc = "idle" /\ mishaps = {} /\ Busy = {} /\ Ui(d) \in Thread
        /\ \A e \in Device : ~Held(e)
    BY Threads DEF Login, Overlaps, Held, In, server
  <1>2. rec = {}
    BY <1>1 DEF Calm
  <1>3. PICK l \in Local : thr' = [thr EXCEPT ![Ui(d)] = l] /\ l.pc = "entering"
    BY <1>1, GoIs DEF IInv, ThreadPc
  <1>4. thr'[Ui(d)] = l /\ \A o \in Thread \ {Ui(d)} : thr'[o] = thr[o]
    BY <1>1, <1>3, Turned DEF IInv
  <1>5. PICK r \in Req, q \in Request :
            req' = [req EXCEPT ![r] = q] /\ q.pc = "auth" /\ q.from = Ui(d)
    BY <1>1, PostIs DEF IInv
  <1>6. req'[r] = q /\ \A s \in Req \ {r} : req'[s] = req[s] /\ req[s].pc = "free"
    BY <1>1, <1>5, Slot DEF IInv, Busy
  <1>7. Entering(req'[r], rec')
    BY <1>1, <1>2, <1>5, <1>6 DEF Entering
  <1>8. Held(d)' /\ Place(d)'
    BY <1>3, <1>4, <1>5, <1>6, <1>7 DEF Held, Place, In, Inside, Calling
  <1>9. \A e \in Device \ {d} : thr'[Ui(e)].pc = thr[Ui(e)].pc
    BY <1>4, Threads
  <1>10. verified' /\ \A s \in Req : req'[s].pc # "free" => req'[s].from # Nobody
    BY <1>1, <1>5, <1>6, Threads DEF Calm
  <1> QED BY <1>1, <1>8, <1>9, <1>10, CalmHeld

LEMMA CalmLeavePending ==
    ASSUME IInv, Screens, Tidy, Calm, NEW d \in Device, LeavePending(d)
    PROVE  Calm'
  <1> SUFFICES ASSUME mishaps = {} PROVE Calm'
    BY CalmOver DEF LeavePending
  <1>1. /\ phase[d] \in Outside /\ thr[Ui(d)].pc = "idle"
        /\ phase' = [phase EXCEPT ![d] = "guest"] /\ phase \in [Device -> Phase]
        /\ UNCHANGED <<rec, req, verified, store, thr, flight>>
    BY DEF LeavePending, In, Outside, server, IInv, TypeOK
  <1>2. ~Held(d) /\ ~Held(d)'
    BY <1>1 DEF Held, In, Tidy
  <1>3. phase'[d] # "signedIn" /\ \A e \in Device \ {d} : phase'[e] = phase[e]
    BY <1>1
  <1> QED BY <1>1, <1>2, <1>3, CalmAside

LEMMA CalmLogout ==
    ASSUME IInv, Screens, Tidy, Calm, NEW d \in Device, Logout(d)
    PROVE  Calm'
  <1> SUFFICES ASSUME mishaps' = {} PROVE Calm'
    BY CalmOver
  <1>1. /\ phase[d] = "signedIn" /\ thr[Ui(d)].pc = "idle" /\ mishaps = {}
        /\ UNCHANGED <<rec, verified, store, phase, flight>> /\ Ui(d) \in Thread
    BY Threads DEF Logout, In, server
  <1>2. Held(d) /\ Live(d) /\ \A e \in Device \ {d} : ~Held(e)
    <2>1. Held(d)
      BY <1>1 DEF Calm
    <2> QED BY <1>1, <2>1, OneHolder DEF Place, Inside
  <1>3. /\ Post(Ui(d), "logout", store[d], "revoke") /\ Go(Ui(d), "leaving")
        /\ Busy = {} /\ flight[d] = Nobody
    BY <1>2 DEF Logout, Live, Overlaps, Refreshing
  <1>4. store[d] \in rec
    BY <1>2, <1>3 DEF Live
  <1>5. PICK l \in Local : thr' = [thr EXCEPT ![Ui(d)] = l] /\ l.pc = "leaving"
    BY <1>1, <1>3, GoIs DEF IInv, ThreadPc
  <1>6. thr'[Ui(d)] = l /\ \A o \in Thread \ {Ui(d)} : thr'[o] = thr[o]
    BY <1>1, <1>5, Turned DEF IInv
  <1>7. PICK r \in Req, q \in Request :
            /\ req' = [req EXCEPT ![r] = q]
            /\ q.pc = "revoke" /\ q.tok = store[d] /\ q.from = Ui(d)
    BY <1>1, <1>3, PostIs DEF IInv, TypeOK
  <1>8. req'[r] = q /\ \A s \in Req \ {r} : req'[s] = req[s] /\ req[s].pc = "free"
    BY <1>3, <1>7, Slot DEF IInv, Busy
  <1>9. Leaving(req'[r], rec')
    BY <1>1, <1>4, <1>7, <1>8 DEF Leaving
  <1>10. Held(d)' /\ Place(d)'
    BY <1>1, <1>3, <1>5, <1>6, <1>7, <1>8, <1>9 DEF Held, Place, In, Inside, Calling
  <1>11. \A e \in Device \ {d} : thr'[Ui(e)].pc = thr[Ui(e)].pc
    BY <1>6, Threads
  <1>12. verified' /\ \A s \in Req : req'[s].pc # "free" => req'[s].from # Nobody
    BY <1>1, <1>7, <1>8, Threads DEF Calm
  <1> QED BY <1>1, <1>2, <1>10, <1>11, <1>12, CalmHeld

\* Killing an app that was doing nothing loses nothing.
LEMMA CalmKill ==
    ASSUME IInv, Screens, Tidy, Calm, NEW d \in Device, Kill(d)
    PROVE  Calm'
  <1> SUFFICES ASSUME mishaps' = {} PROVE Calm'
    BY CalmOver
  <1>1. /\ thr' = [p \in Thread |-> IF Dev(p) = d THEN Rest ELSE thr[p]]
        /\ phase' = [phase EXCEPT ![d] = "bootstrapping"] /\ phase \in [Device -> Phase]
        /\ flight' = [flight EXCEPT ![d] = Nobody]
        /\ flight \in [Device -> Thread \cup {Nobody}]
        /\ req' = [r \in Req |-> IF req[r].from # Nobody /\ Dev(req[r].from) = d
                                 THEN [req[r] EXCEPT !.from = Nobody] ELSE req[r]]
        /\ req \in [Req -> Request]
        /\ UNCHANGED <<rec, verified, store>>
    BY DEF Kill, server, IInv, TypeOK
  <1>2. mishaps = {} /\ \A p \in Thread : Dev(p) = d => thr[p].pc = "idle"
    BY DEF Kill, In
  <1>3. flight[d] = Nobody
    BY <1>2, Flying DEF Holding
  <1>4. \A r \in Req : req[r].from # Nobody => Dev(req[r].from) # d
    <2> SUFFICES ASSUME NEW r \in Req, req[r].from # Nobody, Dev(req[r].from) = d
                 PROVE  FALSE
      OBVIOUS
    <2>1. req[r].from \in Thread /\ req[r].kind \in {"login", "refresh", "logout"}
      BY <1>1 DEF Request
    <2>2. thr[req[r].from].pc = Awaits[req[r].kind]
      BY DEF IInv, Waiting
    <2> QED BY <1>2, <2>1, <2>2 DEF Awaits
  <1>5. req' = req
    BY <1>1, <1>4
  <1>6. flight' = flight
    BY <1>1, <1>3
  <1>7. /\ thr'[Ui(d)].pc = "idle" /\ thr[Ui(d)].pc = "idle"
        /\ \A o \in Thread : Dev(o) # d => thr'[o] = thr[o]
        /\ \A e \in Device \ {d} : thr'[Ui(e)] = thr[Ui(e)]
        /\ \A e \in Device \ {d} : phase'[e] = phase[e]
        /\ phase'[d] = "bootstrapping"
    BY <1>1, <1>2, Threads, RestType
  <1>8. CASE Held(d)
    <2>1. Live(d) /\ \A e \in Device \ {d} : ~Held(e)
      BY <1>2, <1>7, <1>8, OneHolder DEF Place, Inside
    <2>2. Live(d)'
      BY <1>1, <1>3, <1>5, <1>6, <2>1 DEF Live, Busy
    <2>3. Held(d)' /\ Place(d)'
      BY <1>7, <2>2 DEF Held, Place, Live, In
    <2>4. verified' /\ \A r \in Req : req'[r].pc # "free" => req'[r].from # Nobody
      BY <1>1, <1>2, <1>5 DEF Calm, Busy
    <2> QED BY <1>1, <1>2, <1>7, <2>1, <2>3, <2>4, CalmHeld
  <1>9. CASE ~Held(d)
    <2>1. ~Held(d)' /\ phase'[d] # "signedIn"
      BY <1>1, <1>7, <1>9 DEF Held, In
    <2> QED BY <1>1, <1>2, <1>5, <1>6, <1>7, <1>9, <2>1, CalmAside
  <1> QED BY <1>8, <1>9

LEMMA CalmServer ==
    ASSUME IInv, Screens, Tidy, Calm, NEW r \in Req, ServerStep(r) \/ KvFails(r)
    PROVE  Calm'
  <1>1. CASE KvFails(r)
    BY <1>1, CalmOver DEF KvFails
  <1>2. CASE ServerStep(r)
    BY <1>2, CalmAuth, CalmTake, CalmCheckUser, CalmPrevious, CalmDrop, CalmRecord, CalmIndex,
       CalmRevoke, CalmForgets, CalmAnswer DEF ServerStep
  <1> QED BY <1>1, <1>2

LEMMA CalmInductive ==
    ASSUME IInv, Screens, Tidy, Calm, [Next]_vars
    PROVE  Calm'
  <1>1. ASSUME NEW r \in Req, ServerStep(r) \/ KvFails(r)
        PROVE  Calm'
    BY <1>1, CalmServer
  <1>2. ASSUME NEW p \in Thread, SyncStart(p) \/ CallStep(p)
        PROVE  Calm'
    BY <1>2, CalmCall
  <1>3. ASSUME NEW d \in Device,
               UiStep(d) \/ Login(d) \/ LeavePending(d) \/ Logout(d) \/ Kill(d)
        PROVE  Calm'
    BY <1>3, CalmScreens, CalmLogin, CalmLeavePending, CalmLogout, CalmKill
  <1>4. CASE Flip \/ Crash \/ \E t \in Token : Expire(t)
    BY <1>4, CalmOver DEF Flip, Crash, Expire
  <1>5. CASE UNCHANGED vars
    <2>1. Busy' = Busy /\ \A d \in Device : (Held(d)' <=> Held(d)) /\ (Place(d)' <=> Place(d))
      BY <1>5 DEF vars, Busy, Held, Place, Live, Wiping, In
    <2> QED BY <1>5, <2>1 DEF vars, Calm
  <1> QED BY <1>1, <1>2, <1>3, <1>4, <1>5 DEF Next

----------------------------------------------------------------------------
(* The theorems *)

LEMMA CalmInitially == Init => CInv
  <1> SUFFICES ASSUME Init PROVE CInv
    OBVIOUS
  <1>1. \A p \in Thread : thr[p].pc = "idle"
    BY RestType DEF Init
  <1>2. \A d \in Device : thr[Ui(d)].pc = "idle" /\ phase[d] = "bootstrapping" /\ ~Held(d)
    BY <1>1, Threads DEF Init, Held, In
  <1>3. Screens
    BY <1>1, <1>2 DEF Screens, AtPhase
  <1>4. Tidy
    BY <1>2 DEF Init, Tidy, Outside
  <1>5. Busy = {}
    BY FreeType DEF Init, Busy
  <1>6. Calm
    BY <1>2, <1>5 DEF Init, Calm
  <1> QED BY <1>3, <1>4, <1>6 DEF CInv

LEMMA CalmAlways == Spec => []CInv
  <1>1. IInv /\ CInv /\ [Next]_vars => CInv'
    BY ScreensInductive, TidyInductive, CalmInductive DEF CInv
  <1> QED BY <1>1, CalmInitially, Always, PTL DEF Spec

(***************************************************************************)
(* A user who is signed in stays so (auth_controller.dart, session_client    *)
(* .dart, auth.service.ts): while no answer is lost, no call fails, no key    *)
(* expires, no verification is taken back, no other device logs in and no     *)
(* two requests overlap, a device in the signed-in phase holds a token, and    *)
(* one the server exchanges unless the device is exchanging it.               *)
(***************************************************************************)
THEOREM SessionLasts == Spec => []CalmSessionLasts
  <1>1. CInv => CalmSessionLasts
    <2> SUFFICES ASSUME CInv, mishaps = {}, NEW d \in Device,
                        phase[d] = "signedIn", In(Ui(d), "idle")
                 PROVE  store[d] # NoToken /\ (~Refreshing(d) => store[d] \in rec)
      BY DEF CalmSessionLasts
    <2>1. Held(d) /\ Place(d)
      BY DEF CInv, Calm
    <2>2. Live(d)
      BY <2>1 DEF Place, Inside, In
    <2> QED BY <2>2 DEF Live, Refreshing
  <1> QED BY <1>1, CalmAlways, PTL

(***************************************************************************)
(* Signing out is final (AuthController.logout, restore): a guest's device    *)
(* holds no token unless the logout raced a refresh; and once every device    *)
(* of the user has signed out, with nothing lost or cut, the server           *)
(* exchanges none of the user's tokens.                                       *)
(***************************************************************************)
THEOREM SignedOutHolds == Spec => []SignedOutStaysOut
  <1>1. CInv => SignedOutStaysOut
    <2> SUFFICES ASSUME CInv PROVE SignedOutStaysOut
      OBVIOUS
    <2>1. "late" \notin mishaps => \A d \in Device : GuestAt(d) => store[d] = NoToken
      BY DEF CInv, Tidy, Outside, GuestAt, In
    <2>2. ASSUME mishaps = {}, \A d \in Device : GuestAt(d)
          PROVE  rec = {}
      <3>1. \A d \in Device : ~Held(d)
        BY <2>1, <2>2 DEF Held, GuestAt, In
      <3>2. (\A d \in Device : ~Held(d)) => rec = {}
        BY <2>2 DEF CInv, Calm
      <3> QED BY <3>1, <3>2
    <2> QED BY <2>1, <2>2 DEF SignedOutStaysOut
  <1> QED BY <1>1, CalmAlways, PTL
==============================================================================
