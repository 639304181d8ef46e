------------------------------ MODULE OpLedger ------------------------------
(***************************************************************************)
(* What POST /sync promises about the operations it is sent, whatever        *)
(* requests, retries, failures and crashes it takes: sync_ops is a ledger in *)
(* which every operation is decided once, for the session that carried it,   *)
(* "applied" only after its write, and a response only repeats the ledger.   *)
(***************************************************************************)
CONSTANTS
    Op,        \* the operations
    Senders,   \* Op -> the sessions that may carry it
    Entry,     \* decisions: [user, res]
    Result,    \* what a response says of an operation
    Refusal,   \* Op -> the Result that another session hears
    Success,   \* the results that report the operation applied
    Joining,   \* operations that may succeed by finding what another one wrote
    None

VARIABLES
    log,       \* Op -> the decision, or None
    written,   \* the operations whose write took effect
    answers    \* Op -> the results its senders heard

vars == <<log, written, answers>>

Init ==
    /\ log = [o \in Op |-> None] /\ written = {} /\ answers = [o \in Op |-> {}]

\* The write of an operation takes effect; a retry may write again.
Effect ==
    /\ \E o \in Op : written' = written \cup {o}
    /\ UNCHANGED <<log, answers>>

\* An operation nobody decided is decided.
Decide ==
    /\ UNCHANGED <<written, answers>>
    /\ \E o \in Op :
         /\ log[o] = None /\ log' = [log EXCEPT ![o] = log'[o]]
         /\ log'[o] \in Entry /\ log'[o].user \in Senders[o]
         /\ log'[o].res \in Success => o \in written \/ o \in Joining

\* What may be said of an operation.
Sayable(o) ==
    IF log[o] = None THEN {}
    ELSE {log[o].res} \cup {x \in {Refusal[o]} : \E u \in Senders[o] : u # log[o].user}

\* A response: it adds to what was heard nothing but what may be said.
Answer ==
    /\ UNCHANGED <<log, written>>
    /\ answers' \in [Op -> SUBSET Result]
    /\ \A o \in Op : answers[o] \subseteq answers'[o] /\ answers'[o] \ answers[o] \subseteq Sayable(o)

Next == Effect \/ Decide \/ Answer

Spec == Init /\ [][Next]_vars

=============================================================================
