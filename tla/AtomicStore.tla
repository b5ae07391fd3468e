----------------------------- MODULE AtomicStore -----------------------------
(***************************************************************************)
(* What DataStore (src/src/lib/DataStore.js) promises its callers: a value *)
(* that survives the process, to which accepted requests are applied one   *)
(* at a time in the order of their calls.  A request is answered ok only   *)
(* after it took effect, and one that is answered with an error has no     *)
(* effect - but for the one a destroy interrupts, whose rename may still   *)
(* land ("late").  DataStore.tla is shown to implement this module.        *)
(***************************************************************************)
EXTENDS Sequences

CONSTANTS Requests, Effect(_, _), IsRead(_), InitialValues

VARIABLES value,    \* what a reader of the file would get now
          line,     \* accepted, unanswered requests, in order
          landed,   \* the head of the line has taken effect
          late,     \* the set with the request that was refused in flight
          answer    \* what each caller was told

aVars == <<value, line, landed, late, answer>>

AbsInit == /\ value \in InitialValues
           /\ line = <<>>
           /\ landed = FALSE
           /\ late = {}
           /\ answer = [r \in Requests |-> "none"]

Accept(r) == /\ answer[r] = "none"
             /\ answer' = [answer EXCEPT ![r] = "open"]
             /\ line' = Append(line, r)
             /\ UNCHANGED <<value, landed, late>>

Refuse(r) == /\ answer[r] = "none"
             /\ answer' = [answer EXCEPT ![r] = "err"]
             /\ UNCHANGED <<value, line, landed, late>>

\* The head of the line takes effect.
Commit == /\ line # <<>> /\ ~landed
          /\ value' = Effect(Head(line), value)
          /\ landed' = TRUE
          /\ UNCHANGED <<line, late, answer>>

\* The head is answered: ok once it took effect, or at once for a read.
Ack == /\ line # <<>>
       /\ landed \/ IsRead(Head(line))
       /\ answer' = [answer EXCEPT ![Head(line)] = "ok"]
       /\ line' = Tail(line)
       /\ landed' = FALSE
       /\ UNCHANGED <<value, late>>

\* The head is refused, without an effect.
Fail == /\ line # <<>> /\ ~landed
        /\ answer' = [answer EXCEPT ![Head(line)] = "err"]
        /\ line' = Tail(line)
        /\ UNCHANGED <<value, landed, late>>

\* The store is destroyed: everyone in line is refused.
Close == /\ line # <<>>
         /\ answer' = [r \in Requests |->
                         IF answer[r] = "open" THEN "err" ELSE answer[r]]
         /\ late' = IF landed THEN {} ELSE {Head(line)}
         /\ line' = <<>>
         /\ landed' = FALSE
         /\ UNCHANGED value

LateCommit == \E r \in late : /\ value' = Effect(r, value)
                              /\ late' = {}
                              /\ UNCHANGED <<line, landed, answer>>

LateAbort == late' = {} /\ UNCHANGED <<value, line, landed, answer>>

\* The process dies: callers in line never hear, the value stays.
Lose == /\ answer' = [r \in Requests |->
                        IF answer[r] = "open" THEN "gone" ELSE answer[r]]
        /\ line' = <<>>
        /\ landed' = FALSE
        /\ late' = {}
        /\ UNCHANGED value

AbsNext == \/ \E r \in Requests : Accept(r) \/ Refuse(r)
           \/ Commit \/ Ack \/ Fail \/ Close
           \/ LateCommit \/ LateAbort \/ Lose

AbsSpec == AbsInit /\ [][AbsNext]_aVars
==============================================================================
