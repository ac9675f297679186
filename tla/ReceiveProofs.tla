---------------------------- MODULE ReceiveProofs ----------------------------
(***************************************************************************)
(* Proofs about the two models of RTDEReceiveInterface: ReceiveInterface,  *)
(* for any number of reconnections, recordings and empty polls, and        *)
(* ReceiveGetters, for every version of the controller and all speeds.     *)
(***************************************************************************)
EXTENDS ReceiveInterface, ReceiveGetters, TLAPS

\* The threads before th_ have run out, those behind it are still to come.
ThreadInv ==
    /\ th \in ThreadIds
    /\ thread \in [ThreadIds -> {"none", "check", "poll", "read", "caught", "stop_receive",
                                 "stop_record", "ended", "terminated"}]
    /\ client \in {"setup", "spawn"} => th <= MaxReconnects
    /\ \A t \in ThreadIds : t > th => thread[t] = "none"

\* No reconnect has begun before the last receive thread had run out.  Then only
\* the thread of th_ is there, it looks at the socket only while there is one,
\* and it does not pass the test of stop_receive_thread when there is none.
SocketInv ==
    /\ ~ crashed
    /\ \A t \in ThreadIds : t # th => thread[t] \in {"none", "ended"}
    /\ thread[th] \in {"poll", "read"} => conn # "DISCONNECTED"
    /\ thread[th] = "stop_record" => stop_receive
    /\ thread[th] = "check" /\ conn = "DISCONNECTED" => stop_receive
    /\ client \in {"setup", "spawn"} => thread[th] = "ended" /\ conn # "DISCONNECTED"

-----------------------------------------------------------------------------
(* The threads *)

LEMMA ThreadStep == ThreadInv /\ [Next]_vars => ThreadInv'
  <1> SUFFICES ASSUME ThreadInv, [Next]_vars PROVE ThreadInv'
    OBVIOUS
  <1> USE DEF ThreadInv
  <1>0. ThreadIds \subseteq Nat
    BY BoundAssumption DEF ThreadIds
  <1>1. ASSUME NEW t \in ThreadIds, ReceiveThread(t) PROVE ThreadInv'
    <2>1. /\ UNCHANGED <<th, client>> /\ thread[t] # "none"
          /\ \E s \in {"check", "poll", "read", "caught", "stop_receive", "stop_record", "ended",
                      "terminated"} :
                thread' = [thread EXCEPT ![t] = s]
      BY <1>1 DEF ReceiveThread, CheckStop, PollData, PollEmpty, PollNull, ReadData, ReadFails,
         CatchDisconnect, CatchThrows, CatchStopReceive, CatchStopRecord, Goes, clientVars
    <2> QED
      BY <2>1
  <1>2. CASE ReconnectConnect
    BY <1>2 DEF ReconnectConnect
  <1>3. CASE ReconnectSpawn
    <2>1. /\ th' = th + 1 /\ thread' = [thread EXCEPT ![th + 1] = "check"] /\ client' = "wait"
          /\ th <= MaxReconnects
      BY <1>3 DEF ReconnectSpawn
    <2>2. th + 1 \in ThreadIds /\ \A t \in ThreadIds : t > th + 1 => t > th /\ t # th + 1
      BY <1>0, <2>1, BoundAssumption DEF ThreadIds
    <2> QED
      BY <2>1, <2>2
  <1>4. CASE WaitState \/ DisconnectStop \/ DisconnectJoined \/ StartFileRecording
    BY <1>4 DEF WaitState, DisconnectStop, DisconnectJoined, StartFileRecording, threads, clientVars
  <1>5. CASE ReconnectSetup \/ ReconnectNull \/ StopFileRecording \/ CloseFile
    BY <1>5 DEF ReconnectSetup, ReconnectNull, StopFileRecording, CloseFile, threads
  <1>6. CASE LinkDown \/ RecordCheck \/ RecordRow
    BY <1>6 DEF LinkDown, RecordCheck, RecordRow, threads, clientVars
  <1>7. CASE UNCHANGED vars
    BY <1>7 DEF vars, threads, clientVars
  <1> QED
    BY <1>1, <1>2, <1>3, <1>4, <1>5, <1>6, <1>7 DEF Next, Client

LEMMA SocketStep ==
  ThreadInv /\ (~ overlap => SocketInv) /\ [Next]_vars => (~ overlap' => SocketInv')
  <1> SUFFICES ASSUME ThreadInv, ~ overlap => SocketInv, [Next]_vars, ~ overlap' PROVE SocketInv'
    OBVIOUS
  <1>0. ThreadIds \subseteq Nat /\ th \in ThreadIds
    BY BoundAssumption DEF ThreadIds, ThreadInv
  <1> USE DEF ThreadInv, SocketInv
  <1>1. ASSUME NEW t \in ThreadIds, ReceiveThread(t) PROVE SocketInv'
    <2>0. ~ overlap /\ UNCHANGED <<th, client>>
      BY <1>1 DEF ReceiveThread, CheckStop, PollData, PollEmpty, PollNull, ReadData, ReadFails,
         CatchDisconnect, CatchThrows, CatchStopReceive, CatchStopRecord, clientVars
    <2>1. t = th
      BY <1>1, <2>0 DEF ReceiveThread, CheckStop, PollData, PollEmpty, PollNull, ReadData, ReadFails,
         CatchDisconnect, CatchThrows, CatchStopReceive, CatchStopRecord, Goes
    <2>2. CASE CheckStop(t)
      BY <2>0, <2>1, <2>2 DEF CheckStop, Goes, connection, flags
    <2>3. CASE PollData(t) \/ ReadData(t)
      BY <2>0, <2>1, <2>3 DEF PollData, ReadData, Goes, connection, flags
    <2>4. CASE PollEmpty(t)
      BY <2>0, <2>1, <2>4 DEF PollEmpty, Goes, connection, flags
    <2>5. CASE PollNull(t)
      BY <2>0, <2>1, <2>5 DEF PollNull
    <2>6. CASE ReadFails(t)
      BY <2>0, <2>1, <2>6 DEF ReadFails, Goes, flags
    <2>7. CASE CatchDisconnect(t)
      BY <2>0, <2>1, <2>7 DEF CatchDisconnect, Goes, flags
    <2>8. CASE CatchStopReceive(t)
      BY <2>0, <2>1, <2>8 DEF CatchStopReceive, Goes, connection
    <2>9. CASE CatchStopRecord(t)
      BY <2>0, <2>1, <2>9 DEF CatchStopRecord, Goes, connection
    <2>10. CASE CatchThrows(t)
      BY <2>0, <2>1, <2>10 DEF CatchThrows, PauseThrows, Goes, connection, flags
    <2> QED
      BY <1>1, <2>2, <2>3, <2>4, <2>5, <2>6, <2>7, <2>8, <2>9, <2>10 DEF ReceiveThread
  <1>2. CASE ReconnectConnect
    <2>0. ~ overlap
      BY <1>2, Zenon DEF ReconnectConnect
    <2>1. UNCHANGED <<stop_receive, thread, th, crashed>> /\ SocketInv
      BY <1>2, <2>0 DEF ReconnectConnect, flags
    <2>2. CASE UNCHANGED <<conn, client>>
      BY <2>1, <2>2
    <2>3. CASE ~ UNCHANGED <<conn, client>>
      <3>1. conn' = "CONNECTED" /\ \A t \in 1..th : thread[t] = "ended"
        BY <1>2, <2>3 DEF ReconnectConnect
      <3>2. th \in 1..th
        BY <1>0 DEF ThreadIds
      <3> QED
        BY <2>1, <3>1, <3>2
    <2> QED
      BY <2>2, <2>3
  <1>3. CASE ReconnectSpawn
    <2>1. /\ th' = th + 1 /\ thread' = [thread EXCEPT ![th + 1] = "check"] /\ client' = "wait"
          /\ th <= MaxReconnects /\ client = "spawn" /\ ~ overlap /\ UNCHANGED <<conn, crashed>>
      BY <1>3 DEF ReconnectSpawn, connection
    <2>2. th + 1 \in ThreadIds /\ th + 1 # th
      BY <1>0, <2>1, BoundAssumption DEF ThreadIds
    <2>3. \A t \in ThreadIds : thread[t] \in {"none", "ended"}
      BY <2>1
    <2> QED
      BY <2>1, <2>2, <2>3
  <1>4. CASE WaitState \/ DisconnectStop \/ DisconnectJoined \/ StartFileRecording
    BY <1>4 DEF WaitState, DisconnectStop, DisconnectJoined, StartFileRecording, threads, clientVars,
       connection, flags
  <1>5. CASE ReconnectSetup
    BY <1>5 DEF ReconnectSetup, threads, flags
  <1>6. CASE ReconnectNull \/ StopFileRecording \/ CloseFile
    BY <1>6 DEF ReconnectNull, StopFileRecording, CloseFile, threads, connection, flags
  <1>7. CASE LinkDown \/ RecordCheck \/ RecordRow
    BY <1>7 DEF LinkDown, RecordCheck, RecordRow, threads, clientVars, connection, flags
  <1>8. CASE UNCHANGED vars
    BY <1>8 DEF vars, threads, clientVars, connection, flags
  <1> QED
    BY <1>1, <1>2, <1>3, <1>4, <1>5, <1>6, <1>7, <1>8 DEF Next, Client

(***************************************************************************)
(* No thread of RTDEReceiveInterface uses a socket_ that another one has   *)
(* reset, however the loss of the connection, disconnect() and reconnect() *)
(* interleave, unless a reconnect() begins before the last receive thread  *)
(* has run out.                                                            *)
(***************************************************************************)
THEOREM SocketsAreThere == Spec => []SocketIsThere
  <1> DEFINE Inv == ThreadInv /\ (~ overlap => SocketInv)
  <1>1. Init => Inv
    <2> SUFFICES ASSUME Init PROVE Inv
      OBVIOUS
    <2>1. 1 \in ThreadIds /\ ThreadIds \subseteq Nat /\ \A t \in ThreadIds : t > 1 => t # 1
      BY BoundAssumption DEF ThreadIds
    <2>2. ThreadInv
      BY <2>1 DEF Init, ThreadInv
    <2>3. SocketInv
      BY <2>1 DEF Init, SocketInv
    <2> QED
      BY <2>2, <2>3
  <1>2. Inv /\ [Next]_vars => Inv'
    BY ThreadStep, SocketStep
  <1>3. Inv => SocketIsThere
    BY DEF SocketInv, SocketIsThere
  <1> QED
    BY <1>1, <1>2, <1>3, PTL DEF Spec

-----------------------------------------------------------------------------
(* The recorder *)

\* The recorder thread lives only while its file is open.
RecorderInv == recorder \in {"check", "row"} => file = "open"

(***************************************************************************)
(* recordCallback never writes to a file that stopFileRecording has        *)
(* closed, whichever thread has stopped it.                                *)
(***************************************************************************)
THEOREM RecordsToAnOpenFile == Spec => []NoWriteAfterClose
  <1>1. Init => RecorderInv
    BY DEF Init, RecorderInv
  <1>2. RecorderInv /\ [Next]_vars => RecorderInv'
    <2> SUFFICES ASSUME RecorderInv, [Next]_vars PROVE RecorderInv'
      OBVIOUS
    <2> USE DEF RecorderInv
    <2>1. ASSUME NEW t \in ThreadIds, ReceiveThread(t) PROVE RecorderInv'
      BY <2>1 DEF ReceiveThread, CheckStop, PollData, PollEmpty, PollNull, ReadData, ReadFails,
         CatchDisconnect, CatchThrows, CatchStopReceive, CatchStopRecord, recording
    <2>2. CASE StartFileRecording \/ StopFileRecording \/ CloseFile \/ RecordCheck \/ RecordRow
      BY <2>2 DEF StartFileRecording, StopFileRecording, CloseFile, RecordCheck, RecordRow, recording
    <2>3. CASE WaitState \/ DisconnectStop \/ DisconnectJoined \/ ReconnectConnect
      BY <2>3 DEF WaitState, DisconnectStop, DisconnectJoined, ReconnectConnect, recording
    <2>4. CASE ReconnectSetup \/ ReconnectNull \/ ReconnectSpawn \/ LinkDown
      BY <2>4 DEF ReconnectSetup, ReconnectNull, ReconnectSpawn, LinkDown, recording
    <2>5. CASE UNCHANGED vars
      BY <2>5 DEF vars, recording
    <2> QED
      BY <2>1, <2>2, <2>3, <2>4, <2>5 DEF Next, Client
  <1>3. RecorderInv => NoWriteAfterClose
    BY DEF RecorderInv, NoWriteAfterClose
  <1> QED
    BY <1>1, <1>2, <1>3, PTL DEF Spec

-----------------------------------------------------------------------------
(* The getters *)

\* The speeds are numbers of increments, and the ramp goes on as long as the value
\* is below the target and the target has not dropped.
RampInv ==
    /\ runtime \in RuntimeStates /\ pausing \in {"PAUSED", "RUNNING", "RAMPUP"}
    /\ combined \in Nat
    /\ rising \in {"no", "steady", "dropped"}
    /\ rising = "steady" => pausing = "RAMPUP"

\* Every step keeps them so.
LEMMA RampStep == ASSUME RampInv, [GettersNext]_getterVars PROVE RampInv'
  <1> USE GettersAssumption DEF RampInv
  <1>1. CASE Package
    BY <1>1 DEF Package
  <1>2. CASE \E g \in Getters \cup RegisterGetters : Get(g)
    BY <1>2 DEF Get
  <1>3. CASE GetSpeedScalingCombined
    BY <1>3 DEF GetSpeedScalingCombined, PausingAfter, RampFrom, RampCapped, RisingAfter, Resumed
  <1>4. CASE UNCHANGED getterVars
    BY <1>4 DEF getterVars
  <1> QED
    BY <1>1, <1>2, <1>3, <1>4 DEF GettersNext

\* After a pause that getSpeedScalingCombined has seen, its value starts from zero
\* and grows by at most the increment a call until it has reached the target it
\* read, for all speeds and whatever packages arrive between the calls; and
\* during a call, but for one that lowers the target between its two reads.  The
\* invariant says that the ramp does not end before: a call that returns less
\* than the target it read leaves pausing_state_ at RAMPUP.
THEOREM RampRises == GettersSpec => RampIsGradual
  <1>1. GettersInit => RampInv
    BY DEF GettersInit, RampInv, RuntimeStates
  <1>2. RampInv /\ [GettersNext]_getterVars => RampInv'
    BY RampStep
  <1>3. RampInv /\ [GettersNext]_getterVars =>
          [GetSpeedScalingCombined /\ runtime # "PAUSED" /\ (Resumed \/ rising = "steady")
              => Grows]_getterVars
    BY GettersAssumption DEF RampInv, GetSpeedScalingCombined, PausingAfter, RampFrom,
       RampCapped, Resumed, Grows
  <1> QED
    BY <1>1, <1>2, <1>3, PTL DEF GettersSpec, RampIsGradual

\* A variable that is no register has no register's name.
LEMMA PlainIsNoRegister ==
  \A v \in Plain, n \in 0..47 : v # OutIntReg(n) /\ v # OutDoubleReg(n)
  BY RegisterNames

\* What the getters of single variables ask for is in the table with their type,
\* and setupRecipes leaves out at most four of them.
LEMMA GetterTypes ==
  ASSUME NEW g \in Getters
  PROVE  /\ g[1] \in StateTypes /\ TypeOf(g[1]) = g[2]
         /\ g[1] \in AlwaysThere \cup {"ft_raw_wrench", "payload", "payload_cog", "payload_inertia"}
  <1> USE PlainIsNoRegister DEF StateTypes, Unpacked, Plain, TypeOf, Vector6d, Vector3d, Double,
             PlainDouble, Int32, PlainInt32, UInt32, UInt64, Vector6Int32, As, AlwaysThere
  <1>1. CASE g \in MotionGetters
    BY <1>1 DEF MotionGetters
  <1>2. CASE g \in StatusGetters
    BY <1>2 DEF StatusGetters
  <1>3. CASE g \in DeviceGetters
    BY <1>3 DEF DeviceGetters
  <1> QED
    BY <1>1, <1>2, <1>3 DEF Getters

\* So is what the getters of registers ask for; none of it is always there.
LEMMA RegisterTypes ==
  ASSUME NEW n \in 0..47
  PROVE  /\ OutIntReg(n) \in StateTypes /\ TypeOf(OutIntReg(n)) = "int32"
         /\ OutDoubleReg(n) \in StateTypes /\ TypeOf(OutDoubleReg(n)) = "double"
         /\ OutIntReg(n) \notin AlwaysThere /\ OutDoubleReg(n) \notin AlwaysThere
  <1>1. \A m \in 0..47 : OutIntReg(n) # OutDoubleReg(m) /\ OutIntReg(m) # OutDoubleReg(n)
    BY RegisterNames
  <1>2. OutIntReg(n) \notin Plain /\ OutDoubleReg(n) \notin Plain
    BY RegisterNames
  <1>3. OutIntReg(n) \in Int32 /\ OutDoubleReg(n) \in Double
    BY DEF Int32, Double
  <1>4. OutIntReg(n) \notin Double /\ OutDoubleReg(n) \notin Int32
    BY <1>1, <1>2 DEF Double, Int32, Plain
  <1>5. AlwaysThere \subseteq Plain /\ {"elbow_position", "elbow_velocity"} \subseteq Plain
    BY DEF AlwaysThere, Plain, Vector6d, Vector3d, PlainDouble, PlainInt32, UInt32, UInt64,
           Vector6Int32
  <1>6. \A v \in {OutIntReg(n), OutDoubleReg(n)} :
           /\ v \notin Vector6d \cup Vector3d /\ v \notin UInt32
           /\ v \notin UInt64 /\ v \notin Vector6Int32
    BY <1>2 DEF Plain
  <1>7. OutIntReg(n) \in StateTypes /\ OutDoubleReg(n) \in StateTypes
    BY <1>2, <1>3, <1>5 DEF StateTypes, Unpacked
  <1>8. TypeOf(OutIntReg(n)) = "int32" /\ TypeOf(OutDoubleReg(n)) = "double"
    BY <1>3, <1>4, <1>6 DEF TypeOf
  <1> QED
    BY <1>2, <1>5, <1>7, <1>8

\* A getter of a register asks for one that the recipe of its range may have.
LEMMA RegisterGetter ==
  ASSUME upper \in BOOLEAN, NEW g \in RegisterGetters
  PROVE  /\ \E n \in 0..47 : \/ g = <<OutIntReg(n), "int32">>
                              \/ g = <<OutDoubleReg(n), "double">>
         /\ g[1] \in Registers(IF upper THEN 24 ELSE 0)
  <1>1. PICK n \in RegisterRange : g = <<OutIntReg(n), "int32">> \/ g = <<OutDoubleReg(n), "double">>
    BY DEF RegisterGetters
  <1>2. n \in 0..47 /\ n - (IF upper THEN 24 ELSE 0) \in 12..19
    BY DEF RegisterRange
  <1>3. n = (IF upper THEN 24 ELSE 0) + (n - (IF upper THEN 24 ELSE 0))
    BY <1>2
  <1> QED
    BY <1>1, <1>2, <1>3 DEF Registers

\* GettersServed is about the version and the range of the object, which are fixed.
ServedInv == version \in Versions /\ upper \in BOOLEAN /\ GettersServed

\* A getter keeps it: its variable has its type, and is missing only where the
\* version says so.
LEMMA GetServed ==
  ASSUME ServedInv, NEW g \in Getters \cup RegisterGetters, Get(g)
  PROVE  ServedInv'
  <1>0. /\ version[1] \in {3, 5} /\ version[2] \in Nat /\ version[3] \in Nat
        /\ upper \in BOOLEAN
    BY GettersAssumption DEF ServedInv
  <1>1. /\ call' = <<g[1], Ask(g[1], g[2])>> /\ UNCHANGED <<version, upper>>
    BY DEF Get
  <1>2. SUFFICES GettersServed'
    BY <1>1 DEF ServedInv
  <1>3. g[1] \in StateTypes /\ TypeOf(g[1]) = g[2]
    <2>1. CASE g \in Getters
      BY <2>1, GetterTypes
    <2>2. CASE g \in RegisterGetters
      BY <1>0, <2>2, RegisterGetter, RegisterTypes
    <2> QED
      BY <2>1, <2>2
  <1>4. call[1]' = g[1] /\ call[2]' = IF g[1] \in Variables THEN "value" ELSE "throws"
    BY <1>1, <1>3 DEF Ask
  <1>5. CASE g \in Getters
    <2>1. g[1] \in AlwaysThere \cup {"ft_raw_wrench", "payload", "payload_cog", "payload_inertia"}
      BY <1>5, GetterTypes
    <2> QED
      BY <1>0, <1>1, <1>4, <2>1 DEF GettersServed, Variables, Since, major, minor, bugfix
  <1>6. CASE g \in RegisterGetters
    <2>1. g[1] \notin AlwaysThere
      BY <1>0, <1>6, RegisterGetter, RegisterTypes
    <2>2. g[1] \in Registers(IF upper THEN 24 ELSE 0)
      BY <1>0, <1>6, RegisterGetter
    <2> QED
      BY <1>0, <1>1, <1>4, <2>1, <2>2
         DEF GettersServed, Variables, RegisterVariables, Since, major, minor
  <1> QED
    BY <1>5, <1>6

\* For every version and both register ranges no getter asks for a type that its
\* variable does not have, and one throws only for what setupRecipes leaves out.
THEOREM GettersAreServed == GettersSpec => []GettersServed
  <1>1. GettersInit => ServedInv
    BY DEF GettersInit, ServedInv, GettersServed
  <1>2. ServedInv /\ [GettersNext]_getterVars => ServedInv'
    <2> SUFFICES ASSUME ServedInv, [GettersNext]_getterVars PROVE ServedInv'
      OBVIOUS
    <2>1. ASSUME NEW g \in Getters \cup RegisterGetters, Get(g) PROVE ServedInv'
      BY <2>1, GetServed
    <2>2. CASE Package \/ GetSpeedScalingCombined \/ UNCHANGED getterVars
      <3>1. UNCHANGED <<version, upper, call>>
        BY <2>2 DEF Package, GetSpeedScalingCombined, getterVars
      <3> QED
        BY <3>1 DEF ServedInv, GettersServed, major, minor
    <2> QED
      BY <2>1, <2>2 DEF GettersNext
  <1> QED
    BY <1>1, <1>2, PTL DEF GettersSpec, ServedInv
=============================================================================
