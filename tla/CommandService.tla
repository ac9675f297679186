--------------------------- MODULE CommandService ---------------------------
(***************************************************************************)
(* What sendCommand promises to its caller, whatever registers, streams    *)
(* and loops are in between: a command is processed in the order of the    *)
(* calls and once per upload of the script, and as long as nothing has     *)
(* disturbed the run, it is processed while its caller waits for it, a     *)
(* reported success means that it was, and the answer that a getter reads  *)
(* is the one of its own call.  A disturbed run only keeps the order.      *)
(***************************************************************************)
EXTENDS Naturals

VARIABLES
    calls,     \* number of calls so far
    open,      \* the last one has not returned
    blocking,  \* it waits until its command is processed
    running,   \* the call whose command is being processed, or 0
    begun,     \* the last call whose command was begun
    again,     \* no command was begun since the script was uploaded
    done,      \* the last call whose command was processed
    result,    \* what the last return said
    trusted    \* nothing has disturbed the run

vars == <<calls, open, blocking, running, begun, again, done, result, trusted>>

Init ==
    /\ calls = 0 /\ open = FALSE /\ blocking \in BOOLEAN
    /\ running = 0 /\ begun = 0 /\ again = TRUE /\ done = 0
    /\ result = [call |-> 0, ok |-> FALSE, sure |-> blocking, answer |-> 0]
    /\ trusted = TRUE

\* A call can make up for a disturbance only when the robot is not at work.
Call(blocks) ==
    /\ ~open
    /\ calls' = calls + 1 /\ open' = TRUE /\ blocking' = blocks
    /\ trusted' \in BOOLEAN
    /\ trusted => trusted'
    /\ trusted' => trusted \/ running = 0
    /\ UNCHANGED <<running, begun, again, done, result>>

\* The command of call c is begun.
Begin(c) ==
    /\ running = 0
    /\ c > begun \/ (c = begun /\ again)
    /\ trusted => open /\ blocking /\ c = calls /\ c > begun
    /\ running' = c /\ begun' = c /\ again' = FALSE
    /\ UNCHANGED <<calls, open, blocking, done, result, trusted>>

Finish ==
    /\ running # 0
    /\ done' = running /\ running' = 0
    /\ UNCHANGED <<calls, open, blocking, begun, again, result, trusted>>

\* The script ends in the middle of a command.
Drop ==
    /\ running # 0
    /\ running' = 0
    /\ UNCHANGED <<calls, open, blocking, begun, again, done, result, trusted>>

\* The script is uploaded again.
Replace ==
    /\ ~open
    /\ running' = 0 /\ again' = TRUE /\ trusted' = FALSE
    /\ UNCHANGED <<calls, open, blocking, begun, done, result>>

\* Nobody works on a command any more when its undisturbed call returns.
Return(ok) ==
    /\ open /\ open' = FALSE
    /\ trusted' \in BOOLEAN
    /\ trusted' => trusted /\ running = 0
    /\ ok /\ blocking /\ trusted' => done = calls
    /\ result' = [call |-> calls, ok |-> ok, sure |-> trusted' /\ blocking, answer |-> 0]
    /\ UNCHANGED <<calls, blocking, running, begun, again, done>>

\* A getter reads the answer, computed for call c, after its return.
Read(c) ==
    /\ ~open /\ result.ok
    /\ result.sure => c = result.call
    /\ result' = [result EXCEPT !.answer = c]
    /\ UNCHANGED <<calls, open, blocking, running, begun, again, done, trusted>>

Disturb ==
    /\ trusted /\ trusted' = FALSE
    /\ UNCHANGED <<calls, open, blocking, running, begun, again, done, result>>

Next ==
    \/ \E blocks \in BOOLEAN : Call(blocks)
    \/ \E c \in 1..calls : Begin(c)
    \/ Finish
    \/ Drop
    \/ Replace
    \/ \E ok \in BOOLEAN : Return(ok)
    \/ \E c \in 0..calls : Read(c)
    \/ Disturb

Spec == Init /\ [][Next]_vars
=============================================================================
