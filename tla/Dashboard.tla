------------------------------ MODULE Dashboard ------------------------------
(***************************************************************************)
(* DashboardClient: one thread that sends a line to the dashboard server   *)
(* and waits for a line with a deadline.  The persistent actor             *)
(* check_deadline runs only inside those waits, from the same io_service;  *)
(* the lines the server sends late, in pieces, or not at all are what      *)
(* could shift the answers.                                                *)
(***************************************************************************)
EXTENDS Naturals, Sequences

CONSTANTS
    Ops,            \* the functions the client calls
    MaxRequests     \* bound: lines sent to the server

VARIABLES
    conn_state,
    socket,         \* "null", "unconnected", "open" or "closed"
    peer,           \* the server holds its end of the connection
    due,            \* lines the server has still to send on this connection
    wire,           \* lines sent and not yet read
    input_buffer,   \* the line whose beginning is in input_buffer_, or None
    deadline,       \* deadline_: "infinite", "running" or "passed"
    wake,           \* a wait of the actor has ended, cancelled or expired
    pc, op, todo,   \* the call in progress, and the lines it will still send
    sent, asked,    \* lines sent so far; the one the call waits for
    got,            \* the line the last read returned
    outcome,        \* how the last call ended
    waited          \* the time of the current wait has run out

server == <<peer, due, wire>>
timer == <<deadline, wake, waited>>
call == <<pc, op, todo>>
vars == <<conn_state, socket, server, input_buffer, timer, call, sent, asked, got, outcome>>

Welcome == 0
None == MaxRequests + 1
Torn == MaxRequests + 2

\* The functions that throw unless the answer is the one hoped for.
Checking == {"loadURP", "play", "stop", "pause"}

\* The functions that answer a question with true or false.
Asking == {"running", "isProgramSaved"}
Unlocking == {"unlockProtectiveStop"}

\* The functions that drop the answer or hand it out as it is.
Ending == {"quit", "shutdown"}
Popups == {"popup", "closePopup"}
Powering == {"powerOn", "powerOff", "brakeRelease"}
Reporting == {"robotmode", "getRobotModel", "getLoadedProgram", "addToLog"}
Safety == {"setUserRole", "safetymode", "safetystatus", "closeSafetyPopup", "restartSafety"}
Version == {"polyscopeVersion", "programState"}
Plain == Ending \cup Popups \cup Powering \cup Reporting \cup Safety \cup Version

\* The functions that ask for the version first and need 5.6 or later.
Gated == {"isInRemoteControl", "getSerialNumber"}

ASSUME DashboardAssumption ==
    /\ Ops \subseteq Checking \cup Asking \cup Unlocking \cup Plain \cup Gated
    /\ MaxRequests \in Nat

\* The lines a function sends.
Lines(f) == IF f \in Gated THEN <<"PolyscopeVersion", f>> ELSE <<f>>

\* What a function makes of the answer to its last line.
Judge(f, yes) ==
    CASE f \in Checking \cup {"getSerialNumber"} -> IF yes THEN "returned" ELSE "threw"
      [] f \in Asking \cup Unlocking \cup {"isInRemoteControl"} -> IF yes THEN "true" ELSE "false"
      [] f \in Plain \cup {"connect"} -> "returned"

\* A version below 5.6.
Unsupported(f) == IF f = "getSerialNumber" THEN "threw" ELSE "false"

-----------------------------------------------------------------------------
Init ==
    /\ conn_state = "DISCONNECTED" /\ socket = "null"
    /\ peer = FALSE /\ due = <<>> /\ wire = <<>> /\ input_buffer = None
    /\ deadline = "infinite" /\ wake = FALSE /\ waited = FALSE
    /\ pc = "idle" /\ op = "connect" /\ todo = <<>>
    /\ sent = 0 /\ asked = Welcome /\ got = None /\ outcome = "none"

NoDeadline == deadline' = "infinite" /\ UNCHANGED wake /\ waited' = FALSE

\* deadline_.expires_from_now, which cancels the actor's wait.
SetDeadline == deadline' = "running" /\ wake' = TRUE /\ waited' = FALSE

\* The call ends.
End(how) == pc' = "idle" /\ outcome' = how /\ todo' = <<>> /\ UNCHANGED op

\* send and receive of one line: a socket that is closed or was never connected
\* throws; the server may be gone without the write noticing.
Exchange(f, lines) ==
    /\ op' = f
    /\ \/ /\ socket = "open" /\ sent < MaxRequests
          /\ sent' = sent + 1 /\ asked' = sent + 1
          /\ due' = IF peer THEN Append(due, sent + 1) ELSE due
          /\ pc' = "reading" /\ todo' = Tail(lines)
          /\ SetDeadline /\ UNCHANGED outcome
       \/ /\ socket # "open" \/ ~ peer
          /\ pc' = "idle" /\ todo' = <<>> /\ outcome' = "threw"
          /\ UNCHANGED <<sent, asked, due, timer>>

Call(f) ==
    /\ pc = "idle"
    /\ Exchange(f, Lines(f))
    /\ UNCHANGED <<conn_state, socket, peer, wire, input_buffer, got>>

(* connect *)

Connect ==
    /\ pc = "idle"
    /\ socket' = "unconnected"
    /\ peer' = FALSE /\ due' = <<>> /\ wire' = <<>>
    /\ pc' = "connecting" /\ op' = "connect" /\ todo' = <<>>
    /\ SetDeadline
    /\ UNCHANGED <<conn_state, input_buffer, sent, asked, got, outcome>>

\* The connection stands: the welcome line is read with a deadline of its own.
Connected ==
    /\ pc = "connecting" /\ socket = "unconnected"
    /\ socket' = "open" /\ conn_state' = "CONNECTED"
    /\ peer' = TRUE /\ due' = <<Welcome>>
    /\ pc' = "reading" /\ asked' = Welcome
    /\ SetDeadline
    /\ UNCHANGED <<wire, input_buffer, op, todo, sent, got, outcome>>

\* Refused, or the deadline has closed the socket: connect just returns.
ConnectFails ==
    /\ pc = "connecting"
    /\ End("returned")
    /\ UNCHANGED <<conn_state, socket, server, input_buffer, timer, sent, asked, got>>

\* Only the connection goes: the deadline and input_buffer_ stay.
Disconnect ==
    /\ pc = "idle"
    /\ socket' = "null" /\ conn_state' = "DISCONNECTED" /\ peer' = FALSE
    /\ UNCHANGED <<due, wire, input_buffer, timer, call, sent, asked, got, outcome>>

(* async_readline: handlers run one at a time until the read completes *)

CheckDeadlineAlways ==
    /\ wake /\ pc # "idle"
    /\ wake' = FALSE
    /\ socket' = "closed" /\ conn_state' = "DISCONNECTED" /\ deadline' = "infinite"
    /\ UNCHANGED <<server, input_buffer, waited, call, sent, asked, got, outcome>>

CheckDeadlineCancels ==
    /\ wake /\ pc # "idle"
    /\ wake' = FALSE
    /\ IF deadline = "passed"
       THEN deadline' = "infinite" /\ End("threw")
       ELSE UNCHANGED <<deadline, call, outcome>>
    /\ UNCHANGED <<conn_state, socket, server, input_buffer, waited, sent, asked, got>>

\* The actor: woken also when a new operation has moved the deadline.
CheckDeadline ==
    /\ wake /\ pc # "idle"
    /\ wake' = FALSE
    /\ IF deadline = "passed"
       THEN socket' = "closed" /\ conn_state' = "DISCONNECTED" /\ deadline' = "infinite"
       ELSE UNCHANGED <<conn_state, socket, deadline>>
    /\ UNCHANGED <<server, input_buffer, waited, call, sent, asked, got, outcome>>

\* The beginning of a line.
ReadPart ==
    /\ pc = "reading" /\ socket = "open" /\ wire # <<>>
    /\ input_buffer = None
    /\ input_buffer' = Head(wire)
    /\ UNCHANGED <<conn_state, socket, server, timer, call, sent, asked, got, outcome>>

\* A whole line, behind whatever input_buffer_ still held.  A gated function
\* goes on with its second line if the version allows.
ReadLine ==
    /\ pc = "reading" /\ socket = "open" /\ wire # <<>>
    /\ got' = IF input_buffer \in {None, Head(wire)} THEN Head(wire) ELSE Torn
    /\ input_buffer' = None /\ wire' = Tail(wire)
    /\ \/ /\ todo = <<>>
          /\ \E yes \in BOOLEAN : End(Judge(op, yes))
          /\ UNCHANGED <<due, timer, sent, asked>>
       \/ /\ todo # <<>>
          /\ End(Unsupported(op))
          /\ UNCHANGED <<due, timer, sent, asked>>
       \/ todo # <<>> /\ Exchange(op, todo)
    /\ UNCHANGED <<conn_state, socket, peer>>

\* End of file leaves conn_state_ as it is; so does the abort, which the actor
\* has already recorded.
ReadFails ==
    /\ pc = "reading"
    /\ socket = "closed" \/ (~ peer /\ wire = <<>>)
    /\ End("threw")
    /\ UNCHANGED <<conn_state, socket, server, input_buffer, timer, sent, asked, got>>

(* External *)

\* The deadline passes, during a wait or between two calls.
TimePasses ==
    /\ deadline = "running"
    /\ deadline' = "passed" /\ wake' = TRUE /\ waited' = TRUE
    /\ UNCHANGED <<conn_state, socket, server, input_buffer, call, sent, asked, got, outcome>>

ServerAnswers ==
    /\ peer /\ due # <<>>
    /\ wire' = Append(wire, Head(due)) /\ due' = Tail(due)
    /\ UNCHANGED <<conn_state, socket, peer, input_buffer, timer, call, sent, asked, got, outcome>>

\* The lines on the way, or the rest of one, may be lost with the connection.
ServerCloses ==
    /\ peer
    /\ peer' = FALSE /\ due' = <<>> /\ wire' \in {wire, <<>>}
    /\ UNCHANGED <<conn_state, socket, input_buffer, timer, call, sent, asked, got, outcome>>

ClientThread ==
    \/ Connected \/ ConnectFails \/ CheckDeadline \/ ReadPart \/ ReadLine \/ ReadFails

Next ==
    \/ \E f \in Ops : Call(f)
    \/ Connect \/ Disconnect
    \/ ClientThread
    \/ TimePasses \/ ServerAnswers \/ ServerCloses

\* The client thread is scheduled and time goes on; the server may never answer.
Spec == Init /\ [][Next]_vars /\ WF_vars(ClientThread) /\ WF_vars(TimePasses)

-----------------------------------------------------------------------------
(* Properties *)

\* The line a call returns with is the server's answer to its own request,
\* whatever came late, in pieces or over an earlier connection before: a timeout
\* closes the socket, and connect swallows what input_buffer_ still holds with
\* the welcome line.
AnswerIsOwn ==
    (pc = "idle" /\ op # "connect" /\ outcome \in {"returned", "true", "false"}) => got = asked

\* A call is cut off only when its own time is up: neither the wait that a new
\* operation cancels nor a deadline that passed between two calls closes the
\* socket under it.
TimeoutIsOwn == (pc # "idle" /\ socket = "closed") => waited

\* Every call returns or throws, also when the server is silent.
CallReturns == pc # "idle" ~> pc = "idle"
=============================================================================
