----------------------------- MODULE RtdeStream -----------------------------
(***************************************************************************)
(* The stream of state packages: RTDE::receiveData cuts the bytes that the *)
(* socket delivers into messages and stores the variables of the data      *)
(* packages in RobotState, from which the getters of the interfaces read.  *)
(*                                                                         *)
(* The bytes of a connection are numbered from 0.  The three bytes of a    *)
(* header and the recipe id are bytes, the data behind them is counted in  *)
(* words of four bytes; buffer_ is the range base .. top - 1.  Bytes have  *)
(* no values: a decoded variable is the place its bytes were taken from.   *)
(***************************************************************************)
EXTENDS RobotState, SequencesExt, FiniteSets

CONSTANTS
    OutputNames,   \* output_names_, the recipe the client asked for, a sequence
    MaxPackages,   \* bound: packages made by the controller
    MaxTexts,      \* bound: text messages sent by the controller
    MaxReads,      \* bound: calls of a getter
    MaxReconnects  \* bound: reconnections

\* The names have a type, and the recipe does not ask for a variable twice.
ASSUME RecipeAssumption ==
    /\ OutputNames \in Seq(Unpacked)
    /\ IsInjective(OutputNames)

ASSUME BoundsAssumption == {MaxPackages, MaxTexts, MaxReads, MaxReconnects} \subseteq Nat

VARIABLES
    wire,       \* messages sent on this connection, in order
    made,       \* number of packages the controller has made
    texts,      \* number of text messages it has sent
    conn,       \* the socket is open
    framing,    \* no other reader has taken bytes out of the middle of a message
    base, top,  \* buffer_
    pc,         \* the receive thread: "read", "loop" or "store"
    packet,     \* the message in hand
    k, offset,  \* next output name and packet_data_offset
    locked,     \* update_state_mutex_ is held by the receive thread
    state,      \* state_data_: name -> place of its bytes
    first,      \* first_state_received_
    seen,       \* results of getters of the variables in Decodable
    reconnects

vars == <<wire, made, texts, conn, framing, base, top, pc, packet, k, offset,
          locked, state, first, seen, reconnects>>

HEADER_SIZE == 3

(* Messages *)

\* Words the controller sends for a variable.
ControllerWords(n) == Words(n)

Known == {i \in DOMAIN OutputNames : OutputNames[i] \in StateTypes}
KnownNames == {OutputNames[i] : i \in Known}

\* A name that the table does not have is passed over without consuming its
\* bytes, so only the names in front of it can be decoded.
Decodable == {OutputNames[i] : i \in {j \in Known : 1..j \subseteq Known}}

RECIPE_ID == 1
DataWords[i \in 0..Len(OutputNames)] ==
    IF i = 0 THEN 0 ELSE DataWords[i - 1] + ControllerWords(OutputNames[i])
Data(p) == [cmd |-> "RTDE_DATA_PACKAGE", package |-> p]
Text == [cmd |-> "RTDE_TEXT_MESSAGE", package |-> 0]
Version == [cmd |-> "RTDE_GET_URCONTROL_VERSION", package |-> 0]

DataSize == HEADER_SIZE + RECIPE_ID + DataWords[Len(OutputNames)]
Size(m) == CASE m.cmd = "RTDE_DATA_PACKAGE" -> DataSize
             [] m.cmd = "RTDE_TEXT_MESSAGE" -> HEADER_SIZE + 2
             [] m.cmd = "RTDE_GET_URCONTROL_VERSION" -> HEADER_SIZE + 4
Start(i) == LET upto[j \in 0..Len(wire)] == IF j = 0 THEN 0 ELSE upto[j - 1] + Size(wire[j])
            IN  upto[i - 1]
End == Start(Len(wire) + 1)

\* The bytes that belong to variable n of package p.
Place(p, from, words) == [package |-> p, from |-> from, words |-> words]
OwnFrom == [n \in Range(OutputNames) |->
    RECIPE_ID + DataWords[(CHOOSE j \in DOMAIN OutputNames : OutputNames[j] = n) - 1]]
Own(p, n) == Place(p, OwnFrom[n], ControllerWords(n))
Default == Place(0, 0, 0)

Init ==
    /\ wire = <<>> /\ made = 0 /\ texts = 0
    /\ conn = TRUE /\ framing = TRUE
    /\ base = 0 /\ top = 0
    /\ pc = "read" /\ packet = Text /\ k = 1 /\ offset = 0
    /\ locked = FALSE
    /\ state = [n \in KnownNames |-> Default]
    /\ first = FALSE
    /\ seen = <<>> /\ reconnects = 0

(* The controller, external *)

SendData ==
    /\ conn /\ made < MaxPackages
    /\ made' = made + 1
    /\ wire' = Append(wire, Data(made + 1))
    /\ UNCHANGED <<texts, conn, framing, base, top, pc, packet, k, offset, locked, state,
                   first, seen, reconnects>>

SendText ==
    /\ conn /\ texts < MaxTexts
    /\ texts' = texts + 1
    /\ wire' = Append(wire, Text)
    /\ UNCHANGED <<made, conn, framing, base, top, pc, packet, k, offset, locked, state,
                   first, seen, reconnects>>

(* RTDE::receiveData *)

\* async_read_some delivers what has arrived, cut anywhere.
ReadSome ==
    /\ pc = "read" /\ conn /\ framing
    /\ \E n \in 1..(End - top) : top' = top + n
    /\ pc' = "loop"
    /\ UNCHANGED <<wire, made, texts, conn, framing, base, packet, k, offset, locked, state,
                   first, seen, reconnects>>

\* check_deadline: nothing arrived for 2.5 seconds, or the peer closed.  The
\* socket is closed, buffer_ keeps what it has.
Deadline ==
    /\ pc = "read" /\ conn
    /\ conn' = FALSE
    /\ UNCHANGED <<wire, made, texts, framing, base, top, pc, packet, k, offset, locked, state,
                   first, seen, reconnects>>

\* The message whose header is at the front of buffer_, when it is complete.
Complete(i) ==
    /\ top - base >= HEADER_SIZE
    /\ base = Start(i)
    /\ top - base >= Size(wire[i])

MayBeSkippedAlways(i) == wire[i].cmd = "RTDE_DATA_PACKAGE"

\* The look-ahead at the next header.  message_offset is already 3, so it reads
\* the recipe id and data of the next message, or past the end of buffer_: any
\* value may come out.
MayBeSkipped(i) ==
    /\ wire[i].cmd = "RTDE_DATA_PACKAGE"
    /\ top - (base + Size(wire[i])) >= HEADER_SIZE

TakeErasesBody ==
    /\ pc = "loop"
    /\ \E i \in DOMAIN wire :
        /\ Complete(i)
        /\ base' = base + Size(wire[i]) - HEADER_SIZE
        /\ packet' = wire[i]
        /\ IF wire[i].cmd = "RTDE_DATA_PACKAGE"
           THEN pc' = "store" /\ k' = 1 /\ offset' = RECIPE_ID /\ locked' = TRUE
           ELSE UNCHANGED <<pc, k, offset, locked>>
    /\ UNCHANGED <<wire, made, texts, conn, framing, top, state, first, seen, reconnects>>

\* One turn of the loop that keeps its message: a data package goes on to be
\* stored under the lock, any other message is dropped.
Take ==
    /\ pc = "loop"
    /\ \E i \in DOMAIN wire :
        /\ Complete(i)
        /\ base' = base + Size(wire[i])
        /\ packet' = wire[i]
        /\ IF wire[i].cmd = "RTDE_DATA_PACKAGE"
           THEN pc' = "store" /\ k' = 1 /\ offset' = RECIPE_ID /\ locked' = TRUE
           ELSE UNCHANGED <<pc, k, offset, locked>>
    /\ UNCHANGED <<wire, made, texts, conn, framing, top, state, first, seen, reconnects>>

\* "skipping package(1)".
Skip ==
    /\ pc = "loop"
    /\ \E i \in DOMAIN wire :
        /\ Complete(i) /\ MayBeSkipped(i)
        /\ base' = base + Size(wire[i])
        /\ packet' = wire[i]
    /\ UNCHANGED <<wire, made, texts, conn, framing, top, pc, k, offset, locked, state, first,
                   seen, reconnects>>

\* Less than a message is left: receiveData returns.
Return ==
    /\ pc = "loop"
    /\ ~ \E i \in DOMAIN wire : Complete(i)
    /\ pc' = "read"
    /\ UNCHANGED <<wire, made, texts, conn, framing, base, top, packet, k, offset, locked, state,
                   first, seen, reconnects>>

\* One turn of the loop over output_names_.
Store ==
    /\ pc = "store" /\ k <= Len(OutputNames)
    /\ k' = k + 1
    /\ LET n == OutputNames[k]
       IN  IF n \in StateTypes
           THEN /\ state' = [state EXCEPT ![n] = Place(packet.package, offset, Words(n))]
                /\ offset' = offset + Words(n)
           ELSE UNCHANGED <<state, offset>>
    /\ UNCHANGED <<wire, made, texts, conn, framing, base, top, pc, packet, locked, first, seen,
                   reconnects>>

\* setFirstStateReceived and unlockUpdateStateMutex.
Stored ==
    /\ pc = "store" /\ k > Len(OutputNames)
    /\ first' = TRUE /\ locked' = FALSE /\ pc' = "loop"
    /\ UNCHANGED <<wire, made, texts, conn, framing, base, top, packet, k, offset, state, seen,
                   reconnects>>

(* Other threads *)

GetStateDataUnlocked(n) ==
    /\ Len(seen) < MaxReads
    /\ seen' = Append(seen, <<n, state[n]>>)
    /\ UNCHANGED <<wire, made, texts, conn, framing, base, top, pc, packet, k, offset, locked,
                   state, first, reconnects>>

\* RobotState::getStateData, one variable at a time under the lock.
GetStateData(n) ==
    /\ ~ locked
    /\ Len(seen) < MaxReads
    /\ seen' = Append(seen, <<n, state[n]>>)
    /\ UNCHANGED <<wire, made, texts, conn, framing, base, top, pc, packet, k, offset, locked,
                   state, first, reconnects>>

\* RTDEReceiveInterface::getRtdeFrequency asks for the version on the socket
\* the receive thread reads from and takes the next message as the answer.  It
\* takes one away when the receive thread stands between two messages and stays
\* out of the way; the two lose their place in the stream otherwise.
GetRtdeFrequency ==
    /\ conn /\ framing /\ texts < MaxTexts
    /\ texts' = texts + 1
    /\ \/ /\ \E i \in DOMAIN wire : top = Start(i) /\ wire' = Append(RemoveAt(wire, i), Version)
          /\ UNCHANGED framing
       \/ /\ framing' = FALSE
          /\ UNCHANGED wire
    /\ UNCHANGED <<made, conn, base, top, pc, packet, k, offset, locked, state, first, seen,
                   reconnects>>

ConnectKeepsFirst ==
    /\ ~ conn /\ pc = "read" /\ reconnects < MaxReconnects
    /\ reconnects' = reconnects + 1
    /\ conn' = TRUE /\ framing' = TRUE /\ wire' = <<>>
    /\ base' = 0 /\ top' = 0
    /\ state' = [n \in KnownNames |-> Default]
    /\ UNCHANGED <<made, texts, pc, packet, k, offset, locked, first, seen>>

\* RTDE::connect clears buffer_; the interface makes a new RobotState.
Connect ==
    /\ ~ conn /\ pc = "read" /\ reconnects < MaxReconnects
    /\ reconnects' = reconnects + 1
    /\ conn' = TRUE /\ framing' = TRUE /\ wire' = <<>>
    /\ base' = 0 /\ top' = 0
    /\ state' = [n \in KnownNames |-> Default] /\ first' = FALSE
    /\ UNCHANGED <<made, texts, pc, packet, k, offset, locked, seen>>

Next ==
    \/ SendData \/ SendText
    \/ ReadSome \/ Deadline \/ Take \/ Skip \/ Return \/ Store \/ Stored
    \/ \E n \in Decodable : GetStateData(n)
    \/ GetRtdeFrequency \/ Connect

Spec == Init /\ [][Next]_vars

-----------------------------------------------------------------------------
(* Properties *)

\* The variables have their types: buffer_ is a range of the bytes that were
\* sent, a stored variable lies inside its package.
TypeOK ==
    /\ made \in 0..MaxPackages /\ texts \in 0..MaxTexts /\ reconnects \in 0..MaxReconnects
    /\ \A i \in DOMAIN wire : wire[i] \in {Data(p) : p \in 1..made} \cup {Text, Version}
    /\ {conn, framing, locked, first} \subseteq BOOLEAN
    /\ base \in 0..top /\ top \in 0..End
    /\ pc \in {"read", "loop", "store"}
    /\ k \in 1..(Len(OutputNames) + 1)
    /\ DOMAIN state = KnownNames
    /\ \A n \in KnownNames : state[n].from + state[n].words <= Size(Data(1)) - HEADER_SIZE

\* receiveData never loses its place: as long as no other thread reads from the
\* socket, the front of buffer_ is the first byte of a message, however the
\* stream was cut, and also after a reconnection in the middle of a message.
BufferAligned == framing => \E i \in 1..(Len(wire) + 1) : base = Start(i)

\* Whoever sees that the first state was received reads variables of a package,
\* never the defaults the RobotState was made with.
FirstStateMeansData ==
    first => \A n \in Decodable : state[n].package > 0

\* A quiet stream is up to date: when receiveData has returned and the last
\* bytes it got were the end of a data package, RobotState shows that package,
\* although the look-ahead may throw packages away.
NewestWhenQuiet ==
    (pc = "read" /\ framing) =>
        \A i \in DOMAIN wire :
            (wire[i].cmd = "RTDE_DATA_PACKAGE" /\ top = Start(i + 1)) =>
                \A n \in Decodable : state[n] = Own(wire[i].package, n)

\* What the getters may rely on: the package in hand counts as shown from the
\* moment the lock is taken, a variable that was not cut out of its own bytes
\* shows no package at all.
Shown(n, place) == IF place = Default THEN 0
                   ELSE IF place = Own(place.package, n) THEN place.package
                   ELSE MaxPackages + 1
View == [n \in Decodable |-> IF locked THEN packet.package ELSE Shown(n, state[n])]
SeenView == [i \in DOMAIN seen |-> <<seen[i][1], Shown(seen[i][1], seen[i][2])>>]

Feed == INSTANCE StateFeed WITH Names <- Decodable, view <- View, seen <- SeenView

\* receiveData and RobotState implement StateFeed: cut, delayed and skipped
\* packages, reconnections and concurrent getters never show a variable from the
\* bytes of another one, a mixture of two packages, or an older package again.
FeedIsImplemented == Feed!Spec
=============================================================================
