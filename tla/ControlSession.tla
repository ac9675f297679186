--------------------------- MODULE ControlSession ---------------------------
(***************************************************************************)
(* The session of RTDEControlInterface with the controller: the            *)
(* constructor and reconnect set it up request by request over one RTDE    *)
(* socket and start the receive thread; disconnect ends it; the client     *)
(* thread (in sendCommand) and every receive thread set it up again when   *)
(* they find it lost.  All of them share the RTDE object, stop_thread_ and *)
(* th_.  ControlProtocol says what commands do in a session that lasts,    *)
(* RtdeStream what the packages do to the state.                           *)
(***************************************************************************)
EXTENDS Naturals, Sequences

CONSTANTS
    MaxThreads,     \* bound: receive threads started, by the constructor or by reconnect
    MaxTexts        \* bound: text messages the controller sends during one set-up

ASSUME BoundAssumption == MaxThreads \in Nat \ {0} /\ MaxTexts \in Nat

VARIABLES
    mode,           \* flags_: upload the script, wait for a program, or do not wait
    conn,           \* conn_state_; socket_ is null when DISCONNECTED
    link,           \* the controller answers on the current connection
    inbox,          \* messages on the RTDE socket nobody has read
    texts,          \* text messages sent in this set-up
    acked,          \* requests of this set-up whose own reply was read for them
    first,          \* first_state_received_ of robot_state_
    stop_thread,
    thread,         \* receive threads
    should,         \* the threads whose should_reconnect is true
    th,             \* the thread th_ refers to, 0 before the first
    step, req,      \* where each actor is in the constructor or in reconnect
    client,         \* where the client thread is
    running,        \* a program runs on the controller
    lost,           \* the connection has been lost at some time
    crashed,        \* a null socket_ was dereferenced
    overlap         \* a set-up has begun while another thread used the session

socket == <<conn, inbox, texts, acked>>
robot == <<link, running, lost>>
threads == <<stop_thread, thread, should, th>>
actors == <<step, req, client>>
vars == <<mode, socket, robot, first, threads, actors, crashed, overlap>>

ClientThread == 0
ThreadIds == 1..MaxThreads
Actors == {ClientThread} \cup ThreadIds

isConnected == conn \in {"CONNECTED", "STARTED"}
streaming == link /\ conn = "STARTED"
alive(t) == thread[t] \notin {"none", "ended"}

\* The requests of a set-up, each followed by receive().
Requests == <<"negotiate", "version", "recipe version", "outputs", "inputs", "start">>
RequestIds == 1..Len(Requests)
StartRequest == Len(Requests)

\* What the controller says no to: unknown outputs, inputs in use, the start.
Refusable == {i \in RequestIds : Requests[i] \in {"outputs", "inputs", "start"}}
Replies(i) == {[to |-> i, ok |-> TRUE]} \cup
              (IF i \in Refusable THEN {[to |-> i, ok |-> FALSE]} ELSE {})
Text == [to |-> 0, ok |-> TRUE]

-----------------------------------------------------------------------------
Init ==
    /\ mode \in {"upload", "wait", "no_wait"}
    /\ conn = "DISCONNECTED" /\ link = TRUE
    /\ inbox = <<>> /\ texts = 0 /\ acked = {} /\ first = FALSE
    /\ stop_thread = FALSE /\ th = 0 /\ should = {}
    /\ thread = [t \in ThreadIds |-> "none"]
    /\ step = [a \in Actors |-> IF a = ClientThread THEN "connect" ELSE "none"]
    /\ req = [a \in Actors |-> 1]
    /\ client = "constructor"
    /\ running \in BOOLEAN
    /\ lost = FALSE /\ crashed = FALSE /\ overlap = FALSE

(* The constructor and reconnect, run by actor a *)

\* An exception leaves the set-up: it reaches the caller of the client thread;
\* receiveCallback catches it, sets stop_thread_ and returns.
Throw(a) ==
    /\ step' = [step EXCEPT ![a] = "none"]
    /\ IF a = ClientThread
       THEN /\ client' = IF client = "constructor" THEN "failed" ELSE "threw"
            /\ UNCHANGED <<stop_thread, thread>>
       ELSE /\ stop_thread' = TRUE /\ thread' = [thread EXCEPT ![a] = "ended"]
            /\ UNCHANGED client
    /\ UNCHANGED <<req, should, th>>

GoTo(a, s) ==
    /\ step' = [step EXCEPT ![a] = s]
    /\ UNCHANGED <<req, client, threads>>

\* RTDE::disconnect pauses a session that is connected and not started before it
\* resets the socket; without the controller that throws, and the socket stays.
PauseThrows == conn = "CONNECTED" /\ ~ link

Crash == crashed' = TRUE /\ UNCHANGED <<socket, actors, threads>>

\* The dashboard, the script server, then RTDE::connect.  The constructor also
\* throws when the robot is not in remote control.
Connect(a) ==
    /\ step[a] = "connect"
    /\ \/ /\ conn' = "CONNECTED" /\ link' = TRUE
          /\ inbox' = <<>> /\ texts' = 0 /\ acked' = {}
          /\ step' = [step EXCEPT ![a] = "request"] /\ req' = [req EXCEPT ![a] = 1]
          /\ UNCHANGED <<client, threads>>
       \/ /\ lost \/ (a = ClientThread /\ client = "constructor")
          /\ Throw(a) /\ UNCHANGED <<socket, link>>
    /\ overlap' = (overlap \/ (\E t \in ThreadIds \ {a} : alive(t))
                           \/ (a # ClientThread /\ step[ClientThread] # "none"))
    /\ UNCHANGED <<mode, running, lost, first, crashed>>

\* sendAll, which writes nothing when disconnected.  A new RobotState is made
\* just before the start.
Request(a) ==
    /\ step[a] = "request"
    /\ first' = (first /\ req[a] # StartRequest)
    /\ \/ /\ isConnected /\ link
          /\ \E r \in Replies(req[a]) : inbox' = Append(inbox, r)
          /\ GoTo(a, "reply")
       \/ /\ ~ (isConnected /\ link)
          /\ UNCHANGED inbox /\ GoTo(a, "reply")
       \/ isConnected /\ ~ link /\ Throw(a) /\ UNCHANGED inbox
    /\ UNCHANGED <<mode, conn, texts, acked, robot, crashed, overlap>>

StartOnAnyReply(a, m) == req[a] = StartRequest

\* receive(): what a message does is its own matter, whatever was asked.
StartReply(a, m) == m.to = StartRequest /\ m.ok

\* The next message, of whatever type, is taken for the reply.  Refused inputs
\* and outputs throw, a refused start leaves the state CONNECTED.
Reply(a) ==
    /\ step[a] = "reply"
    /\ \/ /\ isConnected /\ inbox # <<>>
          /\ LET m == Head(inbox)
             IN  /\ inbox' = Tail(inbox)
                 /\ acked' = IF m.to = req[a] /\ m.ok THEN acked \cup {m.to} ELSE acked
                 /\ conn' = IF StartReply(a, m) THEN "STARTED" ELSE conn
                 /\ IF ~ m.ok /\ m.to # StartRequest
                    THEN Throw(a)
                    ELSE /\ step' = [step EXCEPT ![a] =
                                       IF req[a] = StartRequest THEN "started" ELSE "request"]
                         /\ req' = [req EXCEPT ![a] = IF @ = StartRequest THEN @ ELSE @ + 1]
                         /\ UNCHANGED <<client, threads>>
          /\ UNCHANGED <<texts, crashed>>
       \/ isConnected /\ inbox = <<>> /\ ~ link /\ Throw(a) /\ UNCHANGED <<socket, crashed>>
       \/ ~ isConnected /\ Crash
    /\ UNCHANGED <<mode, robot, first, overlap>>

\* The wait for isStarted: the thread is spawned, or the time runs out.
Started(a) ==
    /\ step[a] = "started"
    /\ IF conn = "STARTED"
       THEN /\ th < MaxThreads
            /\ stop_thread' = FALSE
            /\ th' = th + 1 /\ thread' = [thread EXCEPT ![th + 1] = "check"]
            /\ step' = [step EXCEPT ![a] = "first"]
            /\ UNCHANGED <<req, client, should>>
       ELSE Throw(a)
    /\ UNCHANGED <<mode, socket, robot, first, crashed, overlap>>

\* The wait for the first state has no limit.
FirstState(a) ==
    /\ step[a] = "first" /\ first
    /\ GoTo(a, "clear")
    /\ UNCHANGED <<mode, socket, robot, first, crashed, overlap>>

\* sendClearCommand.
Clear(a) ==
    /\ step[a] = "clear"
    /\ \/ GoTo(a, "program")
       \/ isConnected /\ ~ link /\ Throw(a)
    /\ UNCHANGED <<mode, socket, robot, first, crashed, overlap>>

\* The upload stops a running program and sends the script, if it can; the
\* other modes send nothing.
Program(a) ==
    /\ step[a] = "program"
    /\ \/ /\ mode = "upload" /\ running' = FALSE
          /\ \E sent \in BOOLEAN : GoTo(a, IF sent THEN "await" ELSE "done")
       \/ mode = "wait" /\ UNCHANGED running /\ GoTo(a, IF running THEN "done" ELSE "await")
       \/ mode = "no_wait" /\ UNCHANGED running /\ GoTo(a, "done")
    /\ UNCHANGED <<mode, socket, link, lost, first, crashed, overlap>>

AwaitForEver(a) ==
    /\ step[a] = "await" /\ running
    /\ GoTo(a, "done")
    /\ UNCHANGED <<mode, socket, robot, first, crashed, overlap>>

AwaitOnlyThrows(a) ==
    /\ step[a] = "await"
    /\ IF running THEN GoTo(a, "done") ELSE Throw(a)
    /\ UNCHANGED <<mode, socket, robot, first, crashed, overlap>>

\* The program runs, or the time is up: waitForProgramRunning throws, the other
\* modes disconnect first.
Await(a) ==
    /\ step[a] = "await"
    /\ \/ running /\ GoTo(a, "done")
       \/ ~ running /\ mode = "upload" /\ Throw(a)
       \/ /\ ~ running /\ mode # "upload"
          /\ stop_thread' = TRUE
          /\ step' = [step EXCEPT ![a] = "disconnect"]
          /\ UNCHANGED <<req, client, thread, should, th>>
    /\ UNCHANGED <<mode, socket, robot, first, crashed, overlap>>

\* The rest of disconnect() within the set-up, then the exception.
AwaitFailed(a) ==
    /\ step[a] = "disconnect" /\ thread[th] = "ended"
    /\ conn' = "DISCONNECTED" \/ (PauseThrows /\ UNCHANGED conn)
    /\ Throw(a)
    /\ UNCHANGED <<mode, inbox, texts, acked, robot, first, crashed, overlap>>

\* Back to the caller.  receiveCallback goes on with its loop if connected,
\* sendCommand with the command.
Return(a) ==
    /\ step[a] = "done"
    /\ IF a = ClientThread
       THEN /\ step' = [step EXCEPT ![a] = "none"] /\ client' = "idle"
            /\ UNCHANGED <<req, threads>>
       ELSE IF isConnected
            THEN /\ step' = [step EXCEPT ![a] = "none"]
                 /\ thread' = [thread EXCEPT ![a] = "check"]
                 /\ UNCHANGED <<req, client, stop_thread, should, th>>
            ELSE Throw(a)
    /\ UNCHANGED <<mode, socket, robot, first, crashed, overlap>>

SetUp(a) ==
    \/ Connect(a) \/ Request(a) \/ Reply(a) \/ Started(a) \/ FirstState(a)
    \/ Clear(a) \/ Program(a) \/ Await(a) \/ AwaitFailed(a) \/ Return(a)

(* receiveCallback *)

\* The loop condition.
LoopCheck(t) ==
    /\ thread[t] = "check"
    /\ thread' = [thread EXCEPT ![t] = IF stop_thread \/ ~ isConnected THEN "ended" ELSE "read"]
    /\ UNCHANGED <<mode, socket, robot, first, stop_thread, should, th, actors, crashed, overlap>>

\* isDataAvailable and receiveData: a package; or the read fails, by an end of
\* file or because its deadline has reset the socket.  A receive thread that
\* reads during another actor's set-up takes that actor's reply.
Read(t) ==
    /\ thread[t] = "read"
    /\ \/ /\ streaming
          /\ first' = TRUE
          /\ thread' = [thread EXCEPT ![t] = "after"]
          /\ UNCHANGED <<socket, should, stop_thread, th, actors, crashed>>
       \/ /\ isConnected /\ ~ streaming /\ inbox # <<>>
          /\ inbox' = Tail(inbox)
          /\ thread' = [thread EXCEPT ![t] = "after"]
          /\ UNCHANGED <<conn, texts, acked, should, stop_thread, th, first, actors, crashed>>
       \/ /\ isConnected /\ ~ streaming /\ inbox = <<>>
          /\ conn' \in {conn, "DISCONNECTED"}
          /\ should' = should \cup {t}
          /\ thread' = [thread EXCEPT ![t] = "after"]
          /\ UNCHANGED <<inbox, texts, acked, stop_thread, th, first, actors, crashed>>
       \/ ~ isConnected /\ Crash /\ UNCHANGED first
    /\ UNCHANGED <<mode, robot, overlap>>

\* should_reconnect is never reset: from the first exception on, every turn of
\* the loop disconnects and reconnects.  A disconnect that throws ends the thread.
AfterRead(t) ==
    /\ thread[t] = "after"
    /\ \/ /\ t \notin should
          /\ thread' = [thread EXCEPT ![t] = "check"]
          /\ UNCHANGED <<conn, stop_thread, should, th, actors>>
       \/ /\ t \in should
          /\ conn' = "DISCONNECTED"
          /\ thread' = [thread EXCEPT ![t] = "reconnect"]
          /\ step' = [step EXCEPT ![t] = "connect"]
          /\ UNCHANGED <<stop_thread, should, th, req, client>>
       \/ t \in should /\ PauseThrows /\ Throw(t) /\ UNCHANGED conn
    /\ UNCHANGED <<mode, inbox, texts, acked, robot, first, crashed, overlap>>

ReceiveThread(t) == LoopCheck(t) \/ Read(t) \/ AfterRead(t)

(* Calls of the client thread *)

\* A constructor that threw leaves no object to call.
AtRest == client \in {"idle", "closed", "threw"}

\* sendCommand: sendAll asks isConnected and then writes; without a connection
\* the command is dropped and nothing changes here.
SendCommand ==
    /\ AtRest /\ isConnected
    /\ client' = "write"
    /\ UNCHANGED <<mode, socket, robot, first, threads, step, req, crashed, overlap>>

\* A write that throws makes sendCommand disconnect and reconnect; what the
\* disconnect throws leaves its catch block.
WriteCommand ==
    /\ client = "write"
    /\ \/ /\ isConnected
          /\ client' = "idle"
          /\ UNCHANGED <<conn, step, crashed>>
       \/ /\ isConnected /\ ~ link
          /\ conn' = "DISCONNECTED"
          /\ client' = "retry" /\ step' = [step EXCEPT ![ClientThread] = "connect"]
          /\ UNCHANGED crashed
       \/ PauseThrows /\ client' = "threw" /\ UNCHANGED <<conn, step, crashed>>
       \/ ~ isConnected /\ crashed' = TRUE /\ UNCHANGED <<conn, client, step>>
    /\ UNCHANGED <<mode, inbox, texts, acked, robot, first, threads, req, overlap>>

DisconnectUnjoined ==
    /\ AtRest
    /\ stop_thread' = TRUE
    /\ conn' = "DISCONNECTED"
    /\ client' = "closed"
    /\ UNCHANGED <<mode, inbox, texts, acked, robot, first, thread, should, th, step, req, crashed,
                   overlap>>

\* disconnect: stop_thread_, then the join.
Disconnect ==
    /\ AtRest
    /\ stop_thread' = TRUE
    /\ client' = "join"
    /\ UNCHANGED <<mode, socket, robot, first, thread, should, th, step, req, crashed, overlap>>

\* The rest of disconnect, RTDE::disconnect.
Joined ==
    /\ client = "join" /\ thread[th] = "ended"
    /\ \/ conn' = "DISCONNECTED" /\ client' = "closed"
       \/ PauseThrows /\ client' = "threw" /\ UNCHANGED conn
    /\ UNCHANGED <<mode, inbox, texts, acked, robot, first, threads, step, req, crashed, overlap>>

\* reconnect, called by a client that finds isConnected false.
Reconnect ==
    /\ AtRest /\ th > 0
    /\ ~ isConnected /\ th < MaxThreads
    /\ client' = "reconnect"
    /\ step' = [step EXCEPT ![ClientThread] = "connect"]
    /\ UNCHANGED <<mode, socket, robot, first, threads, req, crashed, overlap>>

ClientStep ==
    \/ SendCommand \/ WriteCommand \/ Disconnect \/ Joined \/ Reconnect

(* External *)

LinkLost ==
    /\ link /\ isConnected
    /\ link' = FALSE /\ lost' = TRUE
    /\ UNCHANGED <<mode, socket, running, first, threads, actors, crashed, overlap>>

\* A text message while no stream has been started.
TextMessage ==
    /\ conn = "CONNECTED" /\ link /\ texts < MaxTexts
    /\ texts' = texts + 1 /\ inbox' = Append(inbox, Text)
    /\ UNCHANGED <<mode, conn, acked, robot, first, threads, actors, crashed, overlap>>

ProgramStartsOrEnds ==
    /\ running' = ~ running
    /\ UNCHANGED <<mode, socket, link, lost, first, threads, actors, crashed, overlap>>

Next ==
    /\ ~ crashed
    /\ \/ \E a \in Actors : SetUp(a)
       \/ \E t \in ThreadIds : ReceiveThread(t)
       \/ ClientStep
       \/ LinkLost \/ TextMessage \/ ProgramStartsOrEnds

\* The threads are scheduled, and a call that has begun goes on; the client
\* need not call anything and the controller need not start or end a program.
Spec ==
    /\ Init /\ [][Next]_vars
    /\ \A a \in Actors : WF_vars(~ crashed /\ SetUp(a))
    /\ \A t \in ThreadIds : WF_vars(~ crashed /\ ReceiveThread(t))
    /\ WF_vars(~ crashed /\ (WriteCommand \/ Joined))

-----------------------------------------------------------------------------
(* Properties *)

\* The stream is started only in a session in which every request, the two
\* version requests and the recipes included, was answered by its own reply:
\* receive() takes any message for the reply, yet a text message in between can
\* only keep the session from starting, never start it with a wrong version or
\* a wrong recipe.
StartedMeansSetUp ==
    (conn = "STARTED" /\ ~ overlap) => acked = RequestIds

\* As long as the connection has not been lost, no order of constructing,
\* sending, disconnecting, reconnecting and failing to start makes one thread
\* use a socket that another has reset.
SafeUntilLost == ~ lost => ~ crashed

\* A disconnect that has returned, and a constructor or reconnect that gave up
\* waiting for a program or failed earlier, leaves no receive thread behind.
\* With an uploaded script this is not so: waitForProgramRunning throws past a
\* running thread.
ClosedMeansQuiet ==
    (client = "closed" \/ (client \in {"failed", "threw"} /\ mode # "upload")) /\ ~ lost
        => \A t \in ThreadIds : ~ alive(t)

\* Every call of the client ends, with a result or an exception, unless the
\* connection is lost meanwhile: the limits on the waits and the receive thread
\* see to it.
CallEnds ==
    client \in {"constructor", "reconnect", "write", "join"} ~>
        (AtRest \/ client = "failed" \/ lost)

\* "only if these two requirements are met, it is safe to access the rtde_
\* functions": receiveCallback checks stop_thread_ and isConnected, and the read
\* that follows the check finds the socket.  It does not (MCSessionLoss.cfg): the
\* client's sendCommand finds the connection lost and resets the socket after the
\* check of the receive thread.
SafeToAccess ==
    [][\A t \in ThreadIds : Read(t) => ~ crashed']_vars
=============================================================================
