-------------------------- MODULE ReceiveInterface --------------------------
(***************************************************************************)
(* RTDEReceiveInterface: the client thread that constructs it, disconnects *)
(* and reconnects it and records to a file; the receive thread; the        *)
(* recorder thread.  They share the connection, the two stop flags and the *)
(* RobotState.  RtdeStream says what receiveData does with the bytes,      *)
(* ReceiveGetters what the getters make of the state.                      *)
(***************************************************************************)
EXTENDS Naturals, FiniteSets

CONSTANTS
    EmptyPolls,         \* polls without data before a blocking read, 20 in the code
    MaxReconnects,      \* bound: calls of reconnect
    MaxRecordings       \* bound: calls of startFileRecording

ASSUME BoundAssumption == EmptyPolls \in Nat /\ MaxReconnects \in Nat

VARIABLES
    conn,           \* conn_state_ of the RTDE object; socket_ is null when DISCONNECTED
    link,           \* the controller answers
    stop_receive, stop_record,
    thread,         \* receive threads, one per construction or reconnection
    th,             \* the thread th_ refers to
    empty,          \* no_bytes_avail_cnt_
    first,          \* first_state_received_ of the current RobotState
    client,         \* where the client thread is
    constructed,    \* the constructor has returned
    threw,          \* the last reconnect ended with an exception
    crashed,        \* a null socket_ was dereferenced
    overlap,        \* a reconnect has started while an earlier thread was alive
    file, recorder, recordings

connection == <<conn, link>>
flags == <<stop_receive, stop_record>>
threads == <<thread, th, empty>>
clientVars == <<client, constructed, threw, overlap>>
recording == <<file, recorder, recordings>>
vars == <<connection, flags, threads, first, clientVars, crashed, recording>>

isConnected == conn \in {"CONNECTED", "STARTED"}
ThreadIds == 1..(MaxReconnects + 1)
Min2(a, b) == IF a <= b THEN a ELSE b

-----------------------------------------------------------------------------
Init ==
    /\ conn = "STARTED" /\ link = TRUE
    /\ stop_receive = FALSE /\ stop_record = FALSE
    /\ thread = [t \in ThreadIds |-> IF t = 1 THEN "check" ELSE "none"]
    /\ th = 1 /\ empty = 0 /\ first = FALSE
    /\ client = "wait" /\ constructed = FALSE /\ threw = FALSE
    /\ crashed = FALSE /\ overlap = FALSE
    /\ file = "none" /\ recorder = "none" /\ recordings = 0

\* External: the controller goes silent or closes the connection.
LinkDown ==
    /\ link /\ conn # "DISCONNECTED"
    /\ link' = FALSE
    /\ UNCHANGED <<conn, flags, threads, first, clientVars, crashed, recording>>

\* Packages arrive.
streaming == link /\ conn = "STARTED"

(* receiveCallback *)

Goes(t, from, to) == thread[t] = from /\ thread' = [thread EXCEPT ![t] = to]

CheckStop(t) ==
    /\ Goes(t, "check", IF stop_receive THEN "ended" ELSE "poll")
    /\ UNCHANGED <<connection, flags, th, empty, first, clientVars, crashed, recording>>

\* receiveData stores a package.
StorePackage == empty' = 0 /\ first' = TRUE

\* isDataAvailable, and receiveData.
PollData(t) ==
    /\ streaming
    /\ Goes(t, "poll", "check")
    /\ StorePackage
    /\ UNCHANGED <<connection, flags, th, clientVars, crashed, recording>>

PollEmptyForEver(t) ==
    /\ conn # "DISCONNECTED"
    /\ Goes(t, "poll", "check")
    /\ empty' = Min2(empty + 1, EmptyPolls)
    /\ UNCHANGED <<connection, flags, th, first, clientVars, crashed, recording>>

\* Nothing has arrived.  After EmptyPolls turns it reads anyway, to find out
\* whether the connection is still there.
PollEmpty(t) ==
    /\ conn # "DISCONNECTED"
    /\ Goes(t, "poll", IF empty + 1 > EmptyPolls THEN "read" ELSE "check")
    /\ empty' = empty + 1
    /\ UNCHANGED <<connection, flags, th, first, clientVars, crashed, recording>>

\* socket_->available() when another thread has reset the socket.
PollNull(t) ==
    /\ conn = "DISCONNECTED"
    /\ thread[t] \in {"poll", "read"}
    /\ thread' = [thread EXCEPT ![t] = "ended"]
    /\ crashed' = TRUE
    /\ UNCHANGED <<connection, flags, th, empty, first, clientVars, recording>>

ReadData(t) ==
    /\ streaming
    /\ Goes(t, "read", "check")
    /\ StorePackage
    /\ UNCHANGED <<connection, flags, th, clientVars, crashed, recording>>

\* The blocking read fails: end of file, or the deadline has closed the socket.
ReadFails(t) ==
    /\ conn # "DISCONNECTED" /\ ~ streaming
    /\ Goes(t, "read", "caught")
    /\ \E timeout \in BOOLEAN : conn' = IF timeout THEN "DISCONNECTED" ELSE conn
    /\ UNCHANGED <<link, flags, th, empty, first, clientVars, crashed, recording>>

\* The catch block, one shared write at a time.
CatchDisconnect(t) ==
    /\ Goes(t, "caught", "stop_receive")
    /\ conn' = "DISCONNECTED"
    /\ UNCHANGED <<link, flags, th, empty, first, clientVars, crashed, recording>>

\* RTDE::disconnect pauses a session whose start was refused, unless the read met
\* the end of the file; without the controller that throws.
PauseThrows == conn = "CONNECTED" /\ ~ link

\* What it throws in the catch block leaves the thread and ends the program.
CatchThrows(t) ==
    /\ PauseThrows
    /\ Goes(t, "caught", "terminated")
    /\ UNCHANGED <<connection, flags, th, empty, first, clientVars, crashed, recording>>

CatchStopReceive(t) ==
    /\ Goes(t, "stop_receive", "stop_record")
    /\ stop_receive' = TRUE
    /\ UNCHANGED <<connection, stop_record, th, empty, first, clientVars, crashed, recording>>

CatchStopRecord(t) ==
    /\ Goes(t, "stop_record", "check")
    /\ stop_record' = TRUE
    /\ UNCHANGED <<connection, stop_receive, th, empty, first, clientVars, crashed, recording>>

ReceiveThread(t) ==
    \/ CheckStop(t) \/ PollData(t) \/ PollEmpty(t) \/ PollNull(t)
    \/ ReadData(t) \/ ReadFails(t)
    \/ CatchDisconnect(t) \/ CatchThrows(t) \/ CatchStopReceive(t) \/ CatchStopRecord(t)

(* The client thread *)

WaitStateForEver ==
    /\ client = "wait" /\ first
    /\ client' = "idle" /\ constructed' = TRUE
    /\ UNCHANGED <<connection, flags, threads, first, threw, overlap, crashed, recording>>

\* The wait for the first state: the constructor gives up when the connection is
\* lost, reconnect does not.
WaitState ==
    /\ client = "wait"
    /\ first \/ (~ constructed /\ ~ isConnected)
    /\ client' = "idle" /\ constructed' = TRUE
    /\ UNCHANGED <<connection, flags, threads, first, threw, overlap, crashed, recording>>

DisconnectBeforeJoin ==
    /\ client = "idle"
    /\ stop_receive' = TRUE
    /\ conn' = "DISCONNECTED"
    /\ client' = "join"
    /\ UNCHANGED <<link, stop_record, threads, first, constructed, threw, overlap, crashed,
                   recording>>

\* disconnect: the flag, then the join, then the socket.
DisconnectStop ==
    /\ client = "idle"
    /\ stop_receive' = TRUE
    /\ client' = "join"
    /\ UNCHANGED <<connection, stop_record, threads, first, constructed, threw, overlap, crashed,
                   recording>>

\* What RTDE::disconnect throws reaches the client.
DisconnectJoined ==
    /\ client = "join" /\ thread[th] = "ended"
    /\ conn' = "DISCONNECTED" \/ (PauseThrows /\ UNCHANGED conn)
    /\ client' = "idle"
    /\ UNCHANGED <<link, flags, threads, first, constructed, threw, overlap, crashed, recording>>

\* reconnect, called by a client that found the connection lost.
ReconnectConnect ==
    /\ client = "idle" /\ ~ isConnected /\ th <= MaxReconnects
    /\ empty' = 0
    /\ \/ /\ conn' = "CONNECTED" /\ link' = TRUE /\ client' = "setup" /\ threw' = FALSE
          /\ overlap' = (overlap \/ \E t \in 1..th : thread[t] # "ended")
       \/ threw' = TRUE /\ UNCHANGED <<conn, link, client, overlap>>
    /\ UNCHANGED <<flags, thread, th, first, constructed, crashed, recording>>

\* Negotiation, recipes, a new RobotState and the start of the stream, which the
\* controller may refuse.
ReconnectSetup ==
    /\ client = "setup" /\ conn = "CONNECTED"
    /\ \/ /\ link
          /\ first' = FALSE /\ client' = "spawn"
          /\ conn' \in {"CONNECTED", "STARTED"}
          /\ UNCHANGED threw
       \/ /\ threw' = TRUE /\ client' = "idle"
          /\ UNCHANGED <<conn, first>>
    /\ UNCHANGED <<link, flags, threads, constructed, overlap, crashed, recording>>

\* An earlier thread has taken the new socket away.
ReconnectNull ==
    /\ client = "setup" /\ conn = "DISCONNECTED"
    /\ crashed' = TRUE /\ client' = "idle"
    /\ UNCHANGED <<connection, flags, threads, first, constructed, threw, overlap, recording>>

\* The flags are reset and the new thread replaces th_.
ReconnectSpawn ==
    /\ client = "spawn"
    /\ stop_receive' = FALSE /\ stop_record' = FALSE
    /\ th' = th + 1
    /\ thread' = [thread EXCEPT ![th + 1] = "check"]
    /\ client' = "wait"
    /\ UNCHANGED <<connection, empty, first, constructed, threw, overlap, crashed, recording>>

(* Recording *)

\* startFileRecording writes the header and starts the recorder.  A client
\* records to one file at a time.
StartFileRecording ==
    /\ client = "idle" /\ recordings < MaxRecordings
    /\ file # "open"
    /\ file' = "open" /\ recordings' = recordings + 1
    /\ recorder' = "check"
    /\ UNCHANGED <<connection, flags, threads, first, clientVars, crashed>>

RecordCheck ==
    /\ recorder = "check"
    /\ recorder' = IF stop_record THEN "ended" ELSE "row"
    /\ UNCHANGED <<connection, flags, threads, first, clientVars, crashed, file, recordings>>

RecordRow ==
    /\ recorder = "row"
    /\ recorder' = "check"
    /\ UNCHANGED <<connection, flags, threads, first, clientVars, crashed, file, recordings>>

StopFileRecording ==
    /\ client = "idle" /\ file = "open"
    /\ stop_record' = TRUE
    /\ client' = "join_recorder"
    /\ UNCHANGED <<connection, stop_receive, threads, first, constructed, threw, overlap, crashed,
                   recording>>

CloseWithoutJoin ==
    /\ client = "join_recorder"
    /\ file' = "closed" /\ client' = "idle"
    /\ UNCHANGED <<connection, flags, threads, first, constructed, threw, overlap, crashed,
                   recorder, recordings>>

CloseFile ==
    /\ client = "join_recorder" /\ recorder = "ended"
    /\ file' = "closed" /\ client' = "idle"
    /\ UNCHANGED <<connection, flags, threads, first, constructed, threw, overlap, crashed,
                   recorder, recordings>>

Client ==
    \/ WaitState \/ DisconnectStop \/ DisconnectJoined
    \/ ReconnectConnect \/ ReconnectSetup \/ ReconnectNull \/ ReconnectSpawn
    \/ StartFileRecording \/ StopFileRecording \/ CloseFile

halted == crashed \/ \E t \in ThreadIds : thread[t] = "terminated"

Next ==
    /\ ~ halted
    /\ \/ LinkDown
       \/ \E t \in ThreadIds : ReceiveThread(t)
       \/ RecordCheck \/ RecordRow
       \/ Client

\* The threads are scheduled; the client need not call anything, but its calls
\* go on once begun.
Spec ==
    /\ Init /\ [][Next]_vars
    /\ \A t \in ThreadIds : WF_vars(~ halted /\ ReceiveThread(t))
    /\ WF_vars(~ halted /\ (RecordCheck \/ RecordRow))
    /\ WF_vars(~ halted /\ (WaitState \/ DisconnectJoined \/ ReconnectSetup \/ ReconnectNull
               \/ ReconnectSpawn \/ CloseFile))

-----------------------------------------------------------------------------
(* Properties *)

\* The variables have their types, and the program counters their values.
TypeOK ==
    /\ conn \in {"DISCONNECTED", "CONNECTED", "STARTED"}
    /\ {link, stop_receive, stop_record, first, constructed, threw, crashed, overlap}
         \subseteq BOOLEAN
    /\ thread \in [ThreadIds -> {"none", "check", "poll", "read", "caught", "stop_receive",
                                 "stop_record", "ended", "terminated"}]
    /\ th \in ThreadIds /\ empty \in 0..(EmptyPolls + Cardinality(ThreadIds))
    /\ client \in {"wait", "idle", "join", "setup", "spawn", "join_recorder"}
    /\ file \in {"none", "open", "closed"} /\ recorder \in {"none", "check", "row", "ended"}
    /\ recordings \in 0..MaxRecordings

\* No thread ever uses a socket that another one has reset, in whatever order
\* the connection is lost, disconnect joins and the client reconnects, as long
\* as no reconnect begins before the last receive thread has run out.
SocketIsThere == ~ overlap => ~ crashed

\* The recorder never writes to a file that stopFileRecording has closed, also
\* when the receive thread has stopped the recorder before.
NoWriteAfterClose == recorder = "row" => file = "open"

\* A lost connection is noticed: isConnected becomes false unless the client
\* connects again first.
LossIsNoticed ==
    (conn = "STARTED" /\ ~ link /\ ~ overlap) ~> (conn # "STARTED" \/ link \/ overlap)

\* The wait for the first state ends: in the constructor always, because the
\* receive thread finds out that the controller is silent; in reconnect unless
\* the connection is lost again before the first state.
WaitReturns ==
    (client = "wait" /\ ~ overlap) ~> (client # "wait" \/ (constructed /\ ~ streaming))
=============================================================================
