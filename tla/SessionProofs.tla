---------------------------- MODULE SessionProofs ----------------------------
(***************************************************************************)
(* Proofs about ControlSession, for any number of receive threads and of   *)
(* text messages: until the connection is lost no thread uses a socket     *)
(* that another has reset, a session that is closed has no thread left,    *)
(* and a session that is started has been set up by its own replies.       *)
(***************************************************************************)
EXTENDS ControlSession, TLAPS

Message == [to : Nat, ok : BOOLEAN]

\* The values of the threads' variables.  A receive thread is in a set-up only
\* while its loop is in reconnect.
ActorInv ==
    /\ th \in 0..MaxThreads
    /\ should \subseteq ThreadIds
    /\ thread \in [ThreadIds -> {"none", "check", "read", "after", "reconnect", "ended"}]
    /\ step \in [Actors -> {"none", "connect", "request", "reply", "started", "first", "clear",
                            "program", "await", "disconnect", "done"}]
    /\ req \in [Actors -> RequestIds]
    /\ \A t \in ThreadIds : step[t] # "none" => thread[t] = "reconnect"
    /\ \A t \in ThreadIds : t > th => thread[t] = "none"

TypeInv ==
    /\ conn \in {"DISCONNECTED", "CONNECTED", "STARTED"}
    /\ inbox \in Seq(Message)
    /\ ActorInv

\* Until the connection is lost: one receive thread at most, the one of th_, and
\* only while the stream is started; only the client sets the session up.
LiveInv ==
    /\ link /\ ~ crashed /\ should = {}
    /\ \A t \in ThreadIds : step[t] = "none"
    /\ \A t \in ThreadIds : alive(t) => t = th /\ conn = "STARTED"
    /\ step[ClientThread] # "none" <=> client \in {"constructor", "reconnect", "retry"}
    /\ step[ClientThread] \in {"request", "reply"} => isConnected
    /\ step[ClientThread] \in {"connect", "request", "reply", "started"} =>
          \A t \in ThreadIds : ~ alive(t)
    /\ client = "write" => isConnected
    /\ client = "closed" \/ (client \in {"failed", "threw"} /\ mode # "upload") =>
          \A t \in ThreadIds : ~ alive(t)

\* An actor whose set-up has not begun beside another thread has the session to
\* itself until its receive thread is spawned: the client may want to reconnect,
\* but its connect would be the overlap.
AloneInv ==
    \A a \in Actors : step[a] \in {"request", "reply", "started"} =>
        /\ \A t \in ThreadIds \ {a} : ~ alive(t)
        /\ a # ClientThread => step[ClientThread] \in {"none", "connect"}

\* Some request of the set-up was not answered by its own reply.
Shifted(a) == acked # 1..(req[a] - 1)

\* Where the replies are while an actor goes through the requests.  Once a reply
\* was taken for another's, the reply to every later request has at least one
\* message before it, so it is never the one that is read for it.
ShiftAt(a) ==
    /\ acked \subseteq 1..(req[a] - 1)
    /\ \A i \in 1..Len(inbox) : inbox[i].to <= req[a]
    /\ step[a] = "request" =>
          /\ \A i \in 1..Len(inbox) : inbox[i].to # req[a]
          /\ link /\ Shifted(a) => inbox # <<>>
    /\ step[a] = "reply" =>
          /\ Shifted(a) => \A i \in 1..Len(inbox) : inbox[i].to = req[a] => i > 1
          /\ link => \E i \in 1..Len(inbox) : inbox[i].to = req[a]

ShiftInv ==
    /\ \A a \in Actors : step[a] \in {"request", "reply"} =>
          conn # "STARTED" /\ (conn = "CONNECTED" => ShiftAt(a))
    /\ conn = "STARTED" => acked = RequestIds

-----------------------------------------------------------------------------
(* The requests *)

\* A set-up consists of six requests, of which the last is the start.
LEMMA RequestFacts ==
  /\ RequestIds = 1..6
  /\ StartRequest = 6
  BY DEF RequestIds, StartRequest, Requests

\* A reply tells which request it answers.
LEMMA ReplyFacts ==
  ASSUME NEW i \in RequestIds, NEW r \in Replies(i)
  PROVE  r \in Message /\ r.to = i
  <1>1. PICK b \in BOOLEAN : r = [to |-> i, ok |-> b]
    BY DEF Replies
  <1>2. i \in Nat
    BY RequestFacts
  <1> QED
    BY <1>1, <1>2 DEF Message

\* A text message answers no request.
LEMMA TextFacts == Text \in Message /\ Text.to = 0
  BY DEF Text, Message

\* Reading takes the first message, sending adds one at the end.
LEMMA InboxFacts ==
  ASSUME NEW q \in Seq(Message), NEW m \in Message
  PROVE  /\ Append(q, m) \in Seq(Message)
         /\ Append(q, m) # <<>>
         /\ Len(Append(q, m)) = Len(q) + 1
         /\ Append(q, m)[Len(q) + 1] = m
         /\ \A i \in 1..Len(q) : Append(q, m)[i] = q[i]
         /\ Len(q) \in Nat
         /\ q # <<>> => /\ Head(q) \in Message
                        /\ Head(q) = q[1]
                        /\ Tail(q) \in Seq(Message)
                        /\ Len(Tail(q)) = Len(q) - 1
                        /\ Len(q) > 0
                        /\ \A i \in 1..Len(Tail(q)) : Tail(q)[i] = q[i + 1]
         /\ q = <<>> <=> Len(q) = 0
  OBVIOUS

LEMMA ActorFacts ==
  /\ ClientThread = 0 /\ ClientThread \in Actors /\ ClientThread \notin ThreadIds
  /\ ThreadIds \subseteq Actors /\ ThreadIds \subseteq Nat
  /\ \A a \in Actors : a # ClientThread => a \in ThreadIds
  BY BoundAssumption DEF ClientThread, Actors, ThreadIds

-----------------------------------------------------------------------------
(* Types *)

LEMMA ThrowTypes ==
  ASSUME ActorInv, NEW a \in Actors, step[a] # "none", Throw(a)
  PROVE  ActorInv'
  BY ActorFacts DEF ActorInv, Throw

LEMMA GoToTypes ==
  ASSUME ActorInv, NEW a \in Actors, step[a] # "none",
         NEW s \in {"reply", "clear", "program", "await", "done"}, GoTo(a, s)
  PROVE  ActorInv'
  BY ActorFacts DEF ActorInv, GoTo, threads

\* A set-up keeps the types.
LEMMA SetUpTypes ==
  ASSUME TypeInv, NEW a \in Actors, SetUp(a)
  PROVE  TypeInv'
  <1>0. ActorInv /\ inbox \in Seq(Message) /\ conn \in {"DISCONNECTED", "CONNECTED", "STARTED"}
    BY DEF TypeInv
  <1>1. CASE Connect(a)
    <2>1. CASE Throw(a)
      <3>1. <<>> \in Seq(Message)
        OBVIOUS
      <3> QED
        BY <1>0, <1>1, <2>1, <3>1, ThrowTypes DEF TypeInv, Connect, socket
    <2>2. CASE ~ Throw(a)
      <3>1. /\ conn' = "CONNECTED" /\ inbox' = <<>>
            /\ step' = [step EXCEPT ![a] = "request"] /\ req' = [req EXCEPT ![a] = 1]
            /\ step[a] = "connect" /\ UNCHANGED threads
        BY <1>1, <2>2 DEF Connect
      <3>2. ActorInv'
        BY <1>0, <3>1, ActorFacts, RequestFacts DEF ActorInv, threads
      <3>3. <<>> \in Seq(Message)
        OBVIOUS
      <3> QED
        BY <3>1, <3>2, <3>3 DEF TypeInv
    <2> QED
      BY <2>1, <2>2
  <1>2. CASE Request(a)
    <2>1. ActorInv'
      BY <1>0, <1>2, ThrowTypes, GoToTypes DEF Request
    <2>2. inbox' \in Seq(Message)
      <3>1. req[a] \in RequestIds
        BY <1>0 DEF ActorInv
      <3> QED
        BY <1>0, <1>2, <3>1, ReplyFacts, InboxFacts DEF Request
    <2> QED
      BY <1>0, <1>2, <2>1, <2>2 DEF TypeInv, Request
  <1>3. CASE Reply(a)
    <2>1. inbox' \in Seq(Message) /\ conn' \in {"DISCONNECTED", "CONNECTED", "STARTED"}
      BY <1>0, <1>3, InboxFacts DEF Reply, Crash, socket
    <2>2. CASE Throw(a)
      BY <1>0, <1>3, <2>1, <2>2, ThrowTypes DEF TypeInv, Reply
    <2>3. CASE ~ Throw(a)
      <3>1. CASE UNCHANGED <<actors, threads>>
        BY <1>0, <2>1, <3>1 DEF TypeInv, ActorInv, actors, threads
      <3>2. CASE ~ UNCHANGED <<actors, threads>>
        <4>1. PICK s \in {"started", "request"}, r \in RequestIds :
                 step' = [step EXCEPT ![a] = s] /\ req' = [req EXCEPT ![a] = r]
                 /\ UNCHANGED threads
          <5>1. req[a] \in 1..6
            BY <1>0, RequestFacts DEF ActorInv
          <5>2. /\ step' = [step EXCEPT ![a] =
                                IF req[a] = StartRequest THEN "started" ELSE "request"]
                /\ req' = [req EXCEPT ![a] = IF @ = StartRequest THEN @ ELSE @ + 1]
                /\ UNCHANGED threads
            BY <1>3, <2>3, <3>2 DEF Reply, Crash
          <5>3. CASE req[a] = StartRequest
            BY <5>1, <5>2, <5>3, RequestFacts
          <5>4. CASE req[a] # StartRequest
            <6>1. req[a] + 1 \in RequestIds
              BY <5>1, <5>4, RequestFacts
            <6> QED
              BY <5>2, <5>4, <6>1
          <5> QED
            BY <5>3, <5>4
        <4>2. step[a] = "reply"
          BY <1>3 DEF Reply
        <4> QED
          BY <1>0, <2>1, <4>1, <4>2, ActorFacts DEF TypeInv, ActorInv, threads
      <3> QED
        BY <3>1, <3>2
    <2> QED
      BY <2>2, <2>3
  <1>4. CASE Started(a)
    <2>1. CASE Throw(a)
      BY <1>0, <1>4, <2>1, ThrowTypes DEF TypeInv, Started, socket
    <2>2. CASE ~ Throw(a)
      <3>1. /\ th < MaxThreads /\ th' = th + 1 /\ thread' = [thread EXCEPT ![th + 1] = "check"]
            /\ step' = [step EXCEPT ![a] = "first"] /\ step[a] = "started"
            /\ UNCHANGED <<req, should, conn, inbox>>
        BY <1>4, <2>2 DEF Started, socket
      <3>2. th + 1 \in ThreadIds /\ th' \in 0..MaxThreads /\ th + 1 > th
        BY <1>0, <3>1, BoundAssumption DEF ActorInv, ThreadIds
      <3>3. step[th + 1] = "none"
        BY <1>0, <3>2 DEF ActorInv
      <3>4. \A t \in ThreadIds : t > th' => t > th /\ t # th + 1
        BY <1>0, <3>1 DEF ActorInv, ThreadIds
      <3> QED
        BY <1>0, <3>1, <3>2, <3>3, <3>4, ActorFacts DEF TypeInv, ActorInv
    <2> QED
      BY <2>1, <2>2
  <1>5. CASE FirstState(a)
    BY <1>0, <1>5, GoToTypes DEF TypeInv, FirstState, socket
  <1>6. CASE Clear(a)
    BY <1>0, <1>6, GoToTypes, ThrowTypes DEF TypeInv, Clear, socket
  <1>7. CASE Program(a)
    BY <1>0, <1>7, GoToTypes DEF TypeInv, Program, socket
  <1>8. CASE Await(a)
    <2>1. CASE ~ running /\ mode # "upload"
      BY <1>0, <1>8, <2>1, ActorFacts DEF TypeInv, ActorInv, Await, socket
    <2>2. CASE ~ (~ running /\ mode # "upload")
      BY <1>0, <1>8, <2>2, GoToTypes, ThrowTypes DEF TypeInv, Await, socket
    <2> QED
      BY <2>1, <2>2
  <1>9. CASE AwaitFailed(a)
    BY <1>0, <1>9, ThrowTypes DEF TypeInv, AwaitFailed
  <1>10. CASE Return(a)
    <2>1. CASE Throw(a)
      BY <1>0, <1>10, <2>1, ThrowTypes DEF TypeInv, Return, socket
    <2>2. CASE ~ Throw(a)
      BY <1>0, <1>10, <2>2, ActorFacts DEF TypeInv, ActorInv, Return, socket, threads
    <2> QED
      BY <2>1, <2>2
  <1> QED
    BY <1>1, <1>2, <1>3, <1>4, <1>5, <1>6, <1>7, <1>8, <1>9, <1>10 DEF SetUp

LEMMA TypeStep == TypeInv /\ [Next]_vars => TypeInv'
  <1> SUFFICES ASSUME TypeInv, [Next]_vars PROVE TypeInv'
    OBVIOUS
  <1> USE DEF TypeInv, ActorInv
  <1>1. ASSUME NEW a \in Actors, SetUp(a) PROVE TypeInv'
    BY <1>1, SetUpTypes
  <1>2. ASSUME NEW t \in ThreadIds, LoopCheck(t) PROVE TypeInv'
    BY <1>2, ActorFacts DEF LoopCheck, socket, actors
  <1>3. ASSUME NEW t \in ThreadIds, Read(t) PROVE TypeInv'
    BY <1>3, ActorFacts, InboxFacts DEF Read, Crash, socket, actors, threads
  <1>4. ASSUME NEW t \in ThreadIds, AfterRead(t) PROVE TypeInv'
    BY <1>4, ActorFacts DEF AfterRead, Throw, PauseThrows, actors
  <1>5. CASE ClientStep
    BY <1>5, ActorFacts DEF ClientStep, SendCommand, WriteCommand, Disconnect, Joined,
       Reconnect, PauseThrows, socket, threads
  <1>6. CASE LinkLost
    BY <1>6 DEF LinkLost, socket, threads, actors
  <1>7. CASE TextMessage
    BY <1>7, TextFacts, InboxFacts DEF TextMessage, threads, actors
  <1>8. CASE ProgramStartsOrEnds
    BY <1>8 DEF ProgramStartsOrEnds, socket, threads, actors
  <1>9. CASE UNCHANGED vars
    BY <1>9 DEF vars, socket, threads, actors
  <1> QED
    BY <1>1, <1>2, <1>3, <1>4, <1>5, <1>6, <1>7, <1>8, <1>9 DEF Next, ReceiveThread

-----------------------------------------------------------------------------
(* Until the connection is lost *)

\* A set-up that is given up before the thread is spawned, or after it has ended.
LEMMA ThrowLive ==
  ASSUME TypeInv, LiveInv, Throw(ClientThread), \A t \in ThreadIds : ~ alive(t),
         UNCHANGED <<link, crashed, mode>>, step[ClientThread] # "none"
  PROVE  LiveInv'
  BY ActorFacts DEF TypeInv, ActorInv, LiveInv, Throw, alive, isConnected

LEMMA SetUpLive ==
  ASSUME TypeInv, LiveInv, ~ lost, NEW a \in Actors, SetUp(a)
  PROVE  LiveInv'
  <1>0. step[a] # "none" => a = ClientThread
    BY ActorFacts DEF LiveInv
  <1> USE DEF TypeInv, ActorInv, LiveInv, alive, isConnected
  <1>1. CASE Connect(a)
    <2>1. a = ClientThread /\ step[a] = "connect"
      BY <1>0, <1>1 DEF Connect
    <2>2. CASE Throw(a) /\ UNCHANGED <<socket, link>>
      BY <1>1, <2>1, <2>2, ThrowLive DEF Connect
    <2>3. CASE ~ (Throw(a) /\ UNCHANGED <<socket, link>>)
      <3>1. /\ conn' = "CONNECTED" /\ link' = TRUE /\ step' = [step EXCEPT ![a] = "request"]
            /\ UNCHANGED <<client, threads, mode, crashed>>
        BY <1>1, <2>3 DEF Connect
      <3> QED
        BY <2>1, <3>1, ActorFacts DEF threads
    <2> QED
      BY <2>2, <2>3
  <1>2. CASE Request(a)
    <2>1. a = ClientThread /\ step[a] = "request" /\ link /\ isConnected
      BY <1>0, <1>2 DEF Request
    <2> QED
      BY <1>2, <2>1, ActorFacts DEF Request, GoTo, robot, threads
  <1>3. CASE Reply(a)
    <2>1. a = ClientThread /\ step[a] = "reply" /\ link /\ isConnected
      BY <1>0, <1>3 DEF Reply
    <2>2. CASE Throw(a)
      BY <1>3, <2>1, <2>2, ThrowLive DEF Reply, robot
    <2>3. CASE ~ Throw(a)
      <3>1. PICK s \in {"started", "request"} : step' = [step EXCEPT ![a] = s]
        BY <1>3, <2>1, <2>3 DEF Reply
      <3>2. /\ conn' \in {"STARTED", conn} /\ UNCHANGED <<client, threads, mode, robot>>
            /\ UNCHANGED crashed
        BY <1>3, <2>1, <2>3 DEF Reply
      <3> QED
        BY <2>1, <3>1, <3>2, ActorFacts DEF threads, robot
    <2> QED
      BY <2>2, <2>3
  <1>4. CASE Started(a)
    <2>1. a = ClientThread /\ step[a] = "started"
      BY <1>0, <1>4 DEF Started
    <2>2. CASE Throw(a)
      BY <1>4, <2>1, <2>2, ThrowLive DEF Started, robot
    <2>3. CASE ~ Throw(a)
      BY <1>4, <2>1, <2>3, ActorFacts DEF Started, robot, socket
    <2> QED
      BY <2>2, <2>3
  <1>5. CASE FirstState(a)
    BY <1>0, <1>5, ActorFacts DEF FirstState, GoTo, threads, robot, socket
  <1>6. CASE Clear(a)
    BY <1>0, <1>6, ActorFacts DEF Clear, GoTo, threads, robot, socket
  <1>7. CASE Program(a)
    BY <1>0, <1>7, ActorFacts DEF Program, GoTo, threads, socket
  <1>8. CASE Await(a)
    BY <1>0, <1>8, ActorFacts DEF Await, GoTo, Throw, threads, robot, socket
  <1>9. CASE AwaitFailed(a)
    <2>1. a = ClientThread /\ step[a] = "disconnect" /\ thread[th] = "ended"
      BY <1>0, <1>9 DEF AwaitFailed
    <2>2. \A t \in ThreadIds : ~ alive(t)
      BY <2>1
    <2> QED
      BY <1>9, <2>1, <2>2, ThrowLive DEF AwaitFailed, robot
  <1>10. CASE Return(a)
    BY <1>0, <1>10, ActorFacts DEF Return, threads, robot, socket
  <1> QED
    BY <1>1, <1>2, <1>3, <1>4, <1>5, <1>6, <1>7, <1>8, <1>9, <1>10 DEF SetUp

LEMMA LiveStep == TypeInv /\ (~ lost => LiveInv) /\ [Next]_vars => (~ lost' => LiveInv')
  <1> SUFFICES ASSUME TypeInv, ~ lost => LiveInv, [Next]_vars, ~ lost' PROVE LiveInv'
    OBVIOUS
  <1>1. ASSUME NEW a \in Actors, SetUp(a) PROVE LiveInv'
    <2>1. ~ lost
      BY <1>1 DEF SetUp, Connect, Request, Reply, Started, FirstState, Clear, Program, Await,
         AwaitFailed, Return, robot
    <2> QED
      BY <1>1, <2>1, SetUpLive
  <1> USE DEF TypeInv, ActorInv, LiveInv, alive, isConnected
  <1>2. ASSUME NEW t \in ThreadIds, LoopCheck(t) PROVE LiveInv'
    BY <1>2, ActorFacts DEF LoopCheck, socket, robot, actors
  <1>3. ASSUME NEW t \in ThreadIds, Read(t) PROVE LiveInv'
    <2>1. ~ lost /\ streaming /\ alive(t)
      BY <1>3 DEF Read, robot, streaming
    <2>2. /\ thread' = [thread EXCEPT ![t] = "after"]
          /\ UNCHANGED <<conn, should, th, step, client, crashed, mode, link>>
      BY <1>3, <2>1 DEF Read, socket, robot, actors, streaming
    <2> QED
      BY <2>1, <2>2, ActorFacts
  <1>4. ASSUME NEW t \in ThreadIds, AfterRead(t) PROVE LiveInv'
    BY <1>4, ActorFacts DEF AfterRead, Throw, PauseThrows, robot, actors
  <1>5. CASE SendCommand
    BY <1>5, ActorFacts DEF SendCommand, AtRest, socket, robot, threads
  <1>6. CASE WriteCommand
    BY <1>6, ActorFacts DEF WriteCommand, PauseThrows, robot, threads
  <1>7. CASE Disconnect
    BY <1>7, ActorFacts DEF Disconnect, AtRest, socket, robot
  <1>8. CASE Joined
    BY <1>8, ActorFacts DEF Joined, PauseThrows, robot, threads
  <1>9. CASE Reconnect
    BY <1>9, ActorFacts DEF Reconnect, AtRest, socket, robot, threads
  <1>10. CASE LinkLost
    BY <1>10 DEF LinkLost
  <1>11. CASE TextMessage
    BY <1>11 DEF TextMessage, robot, threads, actors
  <1>12. CASE ProgramStartsOrEnds
    BY <1>12 DEF ProgramStartsOrEnds, socket, threads, actors
  <1>13. CASE UNCHANGED vars
    BY <1>13 DEF vars, socket, robot, threads, actors
  <1> QED
    BY <1>1, <1>2, <1>3, <1>4, <1>5, <1>6, <1>7, <1>8, <1>9, <1>10, <1>11, <1>12, <1>13
       DEF Next, ReceiveThread, ClientStep

LEMMA SessionStarts == Init => TypeInv /\ LiveInv /\ AloneInv /\ ShiftInv
  <1> SUFFICES ASSUME Init PROVE TypeInv /\ LiveInv /\ AloneInv /\ ShiftInv
    OBVIOUS
  <1>1. <<>> \in Seq(Message) /\ 0 \in 0..MaxThreads
    BY BoundAssumption
  <1>2. TypeInv
    BY <1>1, ActorFacts, RequestFacts DEF Init, TypeInv, ActorInv
  <1>3. LiveInv
    BY ActorFacts DEF Init, LiveInv, alive, isConnected
  <1>4. \A a \in Actors : step[a] \in {"none", "connect"}
    BY DEF Init
  <1>5. conn = "DISCONNECTED"
    BY DEF Init
  <1> QED
    BY <1>2, <1>3, <1>4, <1>5 DEF AloneInv, ShiftInv

(***************************************************************************)
(* Until the connection is lost, no order of constructing, sending,        *)
(* disconnecting, reconnecting and failing to start lets a thread of       *)
(* RTDEControlInterface use a socket_ that another has reset.              *)
(***************************************************************************)
THEOREM SessionIsSafe == Spec => []SafeUntilLost
  <1> DEFINE Inv == TypeInv /\ (~ lost => LiveInv)
  <1>1. Init => Inv
    BY SessionStarts
  <1>2. Inv /\ [Next]_vars => Inv'
    BY TypeStep, LiveStep
  <1>3. Inv => SafeUntilLost
    BY DEF LiveInv, SafeUntilLost
  <1> QED
    BY <1>1, <1>2, <1>3, PTL DEF Spec

(***************************************************************************)
(* Unless the connection was lost, a disconnect() that has returned, and a *)
(* constructor or reconnect() that gave up, leaves no receive thread       *)
(* behind (with an uploaded script: a disconnect() only).                  *)
(***************************************************************************)
THEOREM ClosedIsQuiet == Spec => []ClosedMeansQuiet
  <1> DEFINE Inv == TypeInv /\ (~ lost => LiveInv)
  <1>1. Init => Inv
    BY SessionStarts
  <1>2. Inv /\ [Next]_vars => Inv'
    BY TypeStep, LiveStep
  <1>3. Inv => ClosedMeansQuiet
    BY DEF LiveInv, ClosedMeansQuiet
  <1> QED
    BY <1>1, <1>2, <1>3, PTL DEF Spec

-----------------------------------------------------------------------------
(* One set-up at a time *)

\* Two actors are never both between connecting and spawning a thread.
LEMMA Exclusive ==
  ASSUME TypeInv, AloneInv, NEW a \in Actors, NEW b \in Actors,
         step[a] \in {"request", "reply", "started"},
         step[b] \in {"request", "reply", "started"}
  PROVE  a = b
  BY ActorFacts DEF TypeInv, ActorInv, AloneInv, alive

LEMMA ThrowAlone ==
  ASSUME TypeInv, AloneInv, NEW b \in Actors, Throw(b)
  PROVE  AloneInv'
  BY ActorFacts DEF TypeInv, ActorInv, AloneInv, Throw, alive

\* An actor that goes on within its set-up.
LEMMA GoToAlone ==
  ASSUME TypeInv, AloneInv, NEW b \in Actors, step[b] \notin {"none", "connect"},
         NEW s, s \in {"request", "reply", "started"} => step[b] \in {"request", "reply"},
         step' = [step EXCEPT ![b] = s], UNCHANGED thread
  PROVE  AloneInv'
  BY ActorFacts DEF TypeInv, ActorInv, AloneInv, alive

LEMMA SetUpAlone ==
  ASSUME TypeInv, AloneInv, NEW b \in Actors, SetUp(b), ~ overlap'
  PROVE  AloneInv'
  <1> USE DEF TypeInv, ActorInv, alive
  <1>1. CASE Connect(b)
    <2>1. CASE Throw(b)
      BY <2>1, ThrowAlone
    <2>2. CASE ~ Throw(b)
      <3>1. /\ step' = [step EXCEPT ![b] = "request"] /\ UNCHANGED threads
            /\ \A t \in ThreadIds \ {b} : ~ alive(t)
            /\ b # ClientThread => step[ClientThread] = "none"
        BY <1>1, <2>2 DEF Connect
      <3> QED
        BY <3>1, ActorFacts DEF AloneInv, threads
    <2> QED
      BY <2>1, <2>2
  <1>2. CASE Request(b)
    BY <1>2, ThrowAlone, GoToAlone DEF Request, GoTo, threads
  <1>3. CASE Reply(b)
    <2>1. CASE Throw(b)
      BY <2>1, ThrowAlone
    <2>2. CASE UNCHANGED <<actors, threads>>
      BY <2>2 DEF AloneInv, actors, threads
    <2>3. CASE ~ Throw(b) /\ ~ UNCHANGED <<actors, threads>>
      <3>1. PICK s : step' = [step EXCEPT ![b] = s] /\ UNCHANGED threads /\ step[b] = "reply"
        BY <1>3, <2>3 DEF Reply, Crash
      <3> QED
        BY <3>1, GoToAlone DEF threads
    <2> QED
      BY <2>1, <2>2, <2>3
  <1>4. CASE Started(b)
    <2>1. CASE Throw(b)
      BY <2>1, ThrowAlone
    <2>2. CASE ~ Throw(b)
      <3>1. step' = [step EXCEPT ![b] = "first"] /\ step[b] = "started"
        BY <1>4, <2>2 DEF Started
      <3>2. \A a \in Actors : step'[a] \notin {"request", "reply", "started"}
        BY <3>1, Exclusive
      <3> QED
        BY <3>2 DEF AloneInv
    <2> QED
      BY <2>1, <2>2
  <1>5. CASE FirstState(b)
    BY <1>5, GoToAlone DEF FirstState, GoTo, threads
  <1>6. CASE Clear(b)
    BY <1>6, ThrowAlone, GoToAlone DEF Clear, GoTo, threads
  <1>7. CASE Program(b)
    BY <1>7, GoToAlone DEF Program, GoTo, threads
  <1>8. CASE Await(b)
    BY <1>8, ThrowAlone, GoToAlone DEF Await, GoTo, threads
  <1>9. CASE AwaitFailed(b)
    BY <1>9, ThrowAlone DEF AwaitFailed
  <1>10. CASE Return(b)
    <2>1. CASE Throw(b)
      BY <2>1, ThrowAlone
    <2>2. CASE ~ Throw(b)
      BY <1>10, <2>2, ActorFacts DEF AloneInv, Return, threads
    <2> QED
      BY <2>1, <2>2
  <1> QED
    BY <1>1, <1>2, <1>3, <1>4, <1>5, <1>6, <1>7, <1>8, <1>9, <1>10 DEF SetUp

\* A set-up that overlaps another is marked for good.
LEMMA OverlapStays == [Next]_vars /\ ~ overlap' => ~ overlap
  BY DEF Next, SetUp, Connect, Request, Reply, Started, FirstState, Clear, Program, Await,
     AwaitFailed, Return, ReceiveThread, LoopCheck, Read, AfterRead, ClientStep, SendCommand,
     WriteCommand, Disconnect, Joined, Reconnect, LinkLost, TextMessage, ProgramStartsOrEnds, vars

LEMMA AloneStep ==
  TypeInv /\ (~ overlap => AloneInv) /\ [Next]_vars => (~ overlap' => AloneInv')
  <1> SUFFICES ASSUME TypeInv, AloneInv, [Next]_vars, ~ overlap' PROVE AloneInv'
    BY OverlapStays
  <1>1. ASSUME NEW a \in Actors, SetUp(a) PROVE AloneInv'
    BY <1>1, SetUpAlone
  <1> USE DEF TypeInv, ActorInv, AloneInv, alive
  <1>2. ASSUME NEW t \in ThreadIds, LoopCheck(t) PROVE AloneInv'
    BY <1>2, ActorFacts DEF LoopCheck, actors
  <1>3. ASSUME NEW t \in ThreadIds, Read(t) PROVE AloneInv'
    BY <1>3, ActorFacts DEF Read, Crash, actors, threads
  <1>4. ASSUME NEW t \in ThreadIds, AfterRead(t) PROVE AloneInv'
    BY <1>4, ActorFacts DEF AfterRead, Throw, PauseThrows, actors
  <1>5. CASE ClientStep
    BY <1>5, ActorFacts DEF ClientStep, SendCommand, WriteCommand, Disconnect, Joined,
       Reconnect, PauseThrows, threads
  <1>6. CASE LinkLost
    BY <1>6 DEF LinkLost, threads, actors
  <1>7. CASE TextMessage
    BY <1>7 DEF TextMessage, threads, actors
  <1>8. CASE ProgramStartsOrEnds
    BY <1>8 DEF ProgramStartsOrEnds, threads, actors
  <1>9. CASE UNCHANGED vars
    BY <1>9 DEF vars, threads, actors
  <1> QED
    BY <1>1, <1>2, <1>3, <1>4, <1>5, <1>6, <1>7, <1>8, <1>9 DEF Next, ReceiveThread

-----------------------------------------------------------------------------
(* Replies and requests *)

\* What nobody but the actor in the requests does: here the messages stay, the
\* connection at most goes.
LEMMA ShiftFrame ==
  ASSUME ShiftInv,
         \A a \in Actors : step'[a] \in {"request", "reply"} =>
                              step'[a] = step[a] /\ req'[a] = req[a],
         UNCHANGED <<inbox, acked>>, link' => link, conn' \in {conn, "DISCONNECTED"}
  PROVE  ShiftInv'
  BY DEF ShiftInv, ShiftAt, Shifted

LEMMA ThrowShift ==
  ASSUME TypeInv, ShiftInv, NEW b \in Actors, Throw(b), UNCHANGED <<inbox, acked, link>>,
         conn' \in {conn, "DISCONNECTED"}
  PROVE  ShiftInv'
  <1>1. \A a \in Actors : step'[a] \in {"request", "reply"} =>
                             step'[a] = step[a] /\ req'[a] = req[a]
    BY DEF TypeInv, ActorInv, Throw
  <1> QED
    BY <1>1, ShiftFrame

\* An actor that leaves the requests or was not among them.
LEMMA GoToShift ==
  ASSUME TypeInv, ShiftInv, NEW b \in Actors, NEW s, s \notin {"request", "reply"},
         step' = [step EXCEPT ![b] = s], UNCHANGED <<req, inbox, acked>>, link' => link,
         conn' \in {conn, "DISCONNECTED"}
  PROVE  ShiftInv'
  <1>1. \A a \in Actors : step'[a] \in {"request", "reply"} =>
                             step'[a] = step[a] /\ req'[a] = req[a]
    BY DEF TypeInv, ActorInv
  <1> QED
    BY <1>1, ShiftFrame

\* The connection is new: no message, no reply.
LEMMA ConnectShift ==
  ASSUME TypeInv, AloneInv, ShiftInv, NEW b \in Actors, Connect(b), ~ overlap', AloneInv', TypeInv'
  PROVE  ShiftInv'
  <1>1. CASE Throw(b) /\ UNCHANGED <<socket, link>>
    BY <1>1, ThrowShift DEF socket
  <1>2. CASE ~ (Throw(b) /\ UNCHANGED <<socket, link>>)
    <2>1. /\ conn' = "CONNECTED" /\ inbox' = <<>> /\ acked' = {}
          /\ step' = [step EXCEPT ![b] = "request"] /\ req' = [req EXCEPT ![b] = 1]
      BY <1>2 DEF Connect
    <2>2. step'[b] = "request" /\ req'[b] = 1
      BY <2>1 DEF TypeInv, ActorInv
    <2>3. ASSUME NEW a \in Actors, step'[a] \in {"request", "reply"} PROVE a = b
      BY <2>2, <2>3, ActorFacts DEF TypeInv, ActorInv, AloneInv, alive
    <2>4. 1..(req'[b] - 1) = {} /\ 1..Len(inbox') = {}
      BY <2>1, <2>2
    <2>5. ShiftAt(b)'
      BY <2>1, <2>2, <2>4 DEF ShiftAt, Shifted
    <2> QED
      BY <2>1, <2>3, <2>5 DEF ShiftInv
  <1> QED
    BY <1>1, <1>2

\* The request is sent, or nothing is without a connection.
LEMMA RequestShift ==
  ASSUME TypeInv, AloneInv, ShiftInv, NEW b \in Actors, Request(b), TypeInv'
  PROVE  ShiftInv'
  <1>0. step[b] = "request" /\ UNCHANGED <<conn, acked, link>> /\ req[b] \in RequestIds
    BY DEF Request, robot, TypeInv, ActorInv
  <1>1. CASE Throw(b) /\ UNCHANGED inbox
    BY <1>0, <1>1, ThrowShift DEF Request
  <1>2. CASE ~ (Throw(b) /\ UNCHANGED inbox)
    <2>1. step' = [step EXCEPT ![b] = "reply"] /\ UNCHANGED req
      BY <1>2 DEF Request, GoTo
    <2>2. step'[b] = "reply" /\ req'[b] = req[b]
      BY <2>1 DEF TypeInv, ActorInv
    <2>3. ASSUME NEW a \in Actors, step'[a] \in {"request", "reply"} PROVE a = b
      BY <1>0, <2>1, <2>3, Exclusive DEF TypeInv, ActorInv
    <2>4. conn # "STARTED"
      BY <1>0 DEF ShiftInv
    <2>5. ASSUME conn = "CONNECTED" PROVE ShiftAt(b)'
      <3>1. ShiftAt(b)
        BY <1>0, <2>5 DEF ShiftInv
      <3>2. CASE link
        <4>1. PICK r \in Replies(req[b]) : inbox' = Append(inbox, r)
          BY <1>2, <2>5, <3>2 DEF Request, isConnected
        <4>2. r \in Message /\ r.to = req[b]
          BY <1>0, ReplyFacts
        <4>3. /\ Len(inbox') = Len(inbox) + 1 /\ Len(inbox) \in Nat
              /\ inbox'[Len(inbox) + 1].to = req[b]
              /\ \A i \in 1..Len(inbox) : inbox'[i] = inbox[i]
              /\ inbox = <<>> <=> Len(inbox) = 0
          BY <4>1, <4>2, InboxFacts DEF TypeInv
        <4>4. ASSUME NEW i \in 1..Len(inbox')
              PROVE  /\ inbox'[i].to <= req[b]
                     /\ inbox'[i].to = req[b] => i = Len(inbox) + 1
          <5>1. i \in 1..Len(inbox) \/ i = Len(inbox) + 1
            BY <4>3
          <5>2. req[b] \in Nat
            BY <1>0, RequestFacts
          <5> QED
            BY <1>0, <3>1, <4>3, <5>1, <5>2 DEF ShiftAt
        <4>5. Len(inbox) + 1 \in 1..Len(inbox')
          BY <4>3
        <4>6. Shifted(b)' => Len(inbox) > 0
          BY <1>0, <2>2, <3>1, <3>2, <4>3 DEF ShiftAt, Shifted
        <4>7. Shifted(b)' => \A i \in 1..Len(inbox') : inbox'[i].to = req[b] => i > 1
          BY <4>3, <4>4, <4>6
        <4>8. \E i \in 1..Len(inbox') : inbox'[i].to = req[b]
          BY <4>3, <4>5
        <4> QED
          BY <1>0, <2>2, <3>1, <4>4, <4>7, <4>8 DEF ShiftAt
      <3>3. CASE ~ link
        <4>1. UNCHANGED inbox /\ ~ link'
          BY <1>0, <1>2, <3>3 DEF Request
        <4> QED
          BY <1>0, <2>2, <3>1, <4>1 DEF ShiftAt
      <3> QED
        BY <3>2, <3>3
    <2> QED
      BY <1>0, <2>3, <2>4, <2>5 DEF ShiftInv
  <1> QED
    BY <1>1, <1>2

\* The next message is read.  It is the reply only if nothing was shifted; from
\* a shift on, the reply stays behind.
LEMMA ReplyShift ==
  ASSUME TypeInv, AloneInv, ShiftInv, NEW b \in Actors, Reply(b), TypeInv'
  PROVE  ShiftInv'
  <1>0. step[b] = "reply" /\ UNCHANGED link /\ req[b] \in 1..6
    BY RequestFacts DEF Reply, robot, TypeInv, ActorInv
  <1>1. CASE ~ isConnected
    BY <1>1, ShiftFrame DEF Reply, Crash, robot, socket, actors
  <1>2. CASE isConnected /\ inbox = <<>>
    BY <1>2, ThrowShift DEF Reply, robot, socket
  <1>3. CASE isConnected /\ inbox # <<>>
    <2> DEFINE m == Head(inbox)
    <2>1. /\ inbox' = Tail(inbox)
          /\ acked' = IF m.to = req[b] /\ m.ok THEN acked \cup {m.to} ELSE acked
          /\ conn' = IF StartReply(b, m) THEN "STARTED" ELSE conn
      BY <1>3 DEF Reply
    <2>2. /\ m \in Message /\ m = inbox[1] /\ Len(inbox) > 0 /\ Len(inbox) \in Nat
          /\ Len(inbox') = Len(inbox) - 1
          /\ \A i \in 1..Len(inbox') : inbox'[i] = inbox[i + 1]
          /\ (inbox' = <<>> <=> Len(inbox') = 0)
      <3>1. inbox \in Seq(Message) /\ inbox # <<>> /\ inbox' \in Seq(Message)
        BY <1>3 DEF TypeInv
      <3>2. inbox' = Tail(inbox)
        BY <2>1
      <3> HIDE DEF m
      <3>3. /\ Head(inbox) \in Message /\ Head(inbox) = inbox[1]
            /\ Len(inbox) > 0 /\ Len(inbox) \in Nat
            /\ Len(Tail(inbox)) = Len(inbox) - 1
            /\ \A i \in 1..Len(Tail(inbox)) : Tail(inbox)[i] = inbox[i + 1]
        BY <3>1, InboxFacts, TextFacts
      <3>4. inbox' = <<>> <=> Len(inbox') = 0
        BY <3>1, InboxFacts, TextFacts
      <3> QED
        BY <3>2, <3>3, <3>4 DEF m
    <2>3. ShiftAt(b) /\ conn = "CONNECTED"
      BY <1>0, <1>3 DEF ShiftInv, isConnected
    <2>4. 1 \in 1..Len(inbox) /\ m.to \in Nat /\ m.to <= req[b]
      BY <2>2, <2>3 DEF Message, ShiftAt
    <2>5. m.to = req[b] => acked = 1..(req[b] - 1)
      BY <2>2, <2>3, <2>4, <1>0 DEF ShiftAt, Shifted
    <2>6. conn' = "STARTED" => acked' = RequestIds
      <3> SUFFICES ASSUME conn' = "STARTED" PROVE acked' = 1..6
        BY RequestFacts
      <3>1. m.to = 6 /\ m.ok
        BY <2>1, <2>3, RequestFacts DEF StartReply
      <3>2. req[b] = 6 /\ acked = 1..5
        BY <1>0, <2>4, <2>5, <3>1
      <3> QED
        BY <2>1, <3>1, <3>2
    <2>7. ASSUME NEW a \in Actors, step'[a] \in {"request", "reply"}
          PROVE  a = b /\ step'[b] = "request" /\ req[b] # 6 /\ req'[b] = req[b] + 1
      <3>1. CASE Throw(b)
        BY <1>0, <2>7, <3>1, Exclusive DEF Throw, TypeInv, ActorInv
      <3>2. CASE ~ Throw(b)
        <4>1. /\ step' = [step EXCEPT ![b] =
                             IF req[b] = StartRequest THEN "started" ELSE "request"]
              /\ req' = [req EXCEPT ![b] = IF @ = StartRequest THEN @ ELSE @ + 1]
          BY <1>3, <3>2 DEF Reply
        <4> QED
          BY <1>0, <2>7, <4>1, Exclusive, RequestFacts DEF TypeInv, ActorInv
      <3> QED
        BY <3>1, <3>2
    <2>8. ASSUME NEW a \in Actors, step'[a] \in {"request", "reply"}
          PROVE  conn' = "CONNECTED" /\ ShiftAt(a)'
      <3>1. a = b /\ step'[b] = "request" /\ req[b] # 6 /\ req'[b] = req[b] + 1
        BY <2>7, <2>8
      <3>2. conn' = "CONNECTED"
        BY <1>0, <2>1, <2>3, <2>4, <3>1, RequestFacts DEF StartReply
      <3>3. acked' \subseteq 1..req[b] /\ (m.to # req[b] => acked' = acked)
        <4>1. acked \subseteq 1..(req[b] - 1)
          BY <2>3 DEF ShiftAt
        <4>2. acked' \subseteq acked \cup {req[b]}
          BY <2>1
        <4>3. 1..(req[b] - 1) \cup {req[b]} = 1..req[b]
          BY <1>0
        <4> QED
          BY <2>1, <4>1, <4>2, <4>3
      <3>4. ASSUME NEW i \in 1..Len(inbox')
            PROVE  inbox'[i].to <= req'[b] /\ inbox'[i].to # req'[b]
        <4>1. i + 1 \in 1..Len(inbox) /\ inbox'[i] = inbox[i + 1]
          BY <2>2
        <4>2. inbox[i + 1] \in Message
          BY <4>1 DEF TypeInv
        <4>3. inbox[i + 1].to <= req[b] /\ inbox[i + 1].to \in Nat
          BY <2>3, <4>1, <4>2 DEF ShiftAt, Message
        <4>4. inbox'[i].to <= req[b] /\ inbox'[i].to \in Nat
          BY <4>1, <4>3
        <4>5. req'[b] = req[b] + 1 /\ req[b] \in Nat
          BY <1>0, <3>1
        <4> QED
          BY <4>4, <4>5
      <3>5. ASSUME link, Shifted(b)' PROVE inbox' # <<>>
        <4>1. acked' # 1..req[b]
          BY <1>0, <3>1, <3>5 DEF Shifted
        <4>2. CASE m.to = req[b]
          <5>1. ~ m.ok /\ acked = 1..(req[b] - 1)
            <6>1. 1..(req[b] - 1) \cup {req[b]} = 1..req[b]
              BY <1>0
            <6> QED
              BY <2>1, <2>5, <4>1, <4>2, <6>1
          <5>2. Throw(b)
            BY <1>0, <1>3, <3>1, <4>2, <5>1, RequestFacts DEF Reply
          <5> QED
            BY <3>1, <5>2 DEF Throw, TypeInv, ActorInv
        <4>3. CASE m.to # req[b]
          <5>1. PICK i \in 1..Len(inbox) : inbox[i].to = req[b]
            BY <1>0, <2>3, <3>5 DEF ShiftAt
          <5>2. i # 1
            BY <2>2, <4>3, <5>1
          <5> QED
            BY <2>2, <5>1, <5>2
        <4> QED
          BY <4>2, <4>3
      <3>6. acked' \subseteq 1..(req'[b] - 1)
        BY <1>0, <3>1, <3>3
      <3> QED
        BY <1>0, <3>1, <3>2, <3>4, <3>5, <3>6 DEF ShiftAt
    <2> QED
      BY <2>6, <2>8 DEF ShiftInv
  <1> QED
    BY <1>1, <1>2, <1>3

LEMMA SetUpShift ==
  ASSUME TypeInv, AloneInv, ShiftInv, NEW b \in Actors, SetUp(b), ~ overlap', TypeInv', AloneInv'
  PROVE  ShiftInv'
  <1>1. CASE Connect(b)
    BY <1>1, ConnectShift
  <1>2. CASE Request(b)
    BY <1>2, RequestShift
  <1>3. CASE Reply(b)
    BY <1>3, ReplyShift
  <1>4. CASE Started(b)
    <2>1. CASE Throw(b)
      BY <1>4, <2>1, ThrowShift DEF Started, socket, robot
    <2>2. CASE ~ Throw(b)
      BY <1>4, <2>2, GoToShift DEF Started, socket, robot
    <2> QED
      BY <2>1, <2>2
  <1>5. CASE FirstState(b)
    BY <1>5, GoToShift DEF FirstState, GoTo, socket, robot
  <1>6. CASE Clear(b)
    BY <1>6, GoToShift, ThrowShift DEF Clear, GoTo, socket, robot
  <1>7. CASE Program(b)
    <2>1. PICK s \in {"await", "done"} : GoTo(b, s)
      BY <1>7 DEF Program
    <2> QED
      BY <1>7, <2>1, GoToShift DEF Program, GoTo, socket
  <1>8. CASE Await(b)
    BY <1>8, GoToShift, ThrowShift DEF Await, GoTo, socket, robot
  <1>9. CASE AwaitFailed(b)
    BY <1>9, ThrowShift DEF AwaitFailed, robot
  <1>10. CASE Return(b)
    <2>1. CASE Throw(b)
      BY <1>10, <2>1, ThrowShift DEF Return, socket, robot
    <2>2. CASE ~ Throw(b)
      BY <1>10, <2>2, GoToShift DEF Return, socket, robot
    <2> QED
      BY <2>1, <2>2
  <1> QED
    BY <1>1, <1>2, <1>3, <1>4, <1>5, <1>6, <1>7, <1>8, <1>9, <1>10 DEF SetUp

\* A text message comes behind what is there and answers nothing.
LEMMA TextShift ==
  ASSUME TypeInv, ShiftInv, TextMessage
  PROVE  ShiftInv'
  <1>1. /\ inbox' = Append(inbox, Text)
        /\ UNCHANGED <<conn, acked, link, step, req>>
    BY DEF TextMessage, robot, actors
  <1>2. /\ inbox' # <<>> /\ Len(inbox') = Len(inbox) + 1 /\ Len(inbox) \in Nat
        /\ inbox'[Len(inbox) + 1].to = 0
        /\ \A i \in 1..Len(inbox) : inbox'[i] = inbox[i]
    BY <1>1, TextFacts, InboxFacts DEF TypeInv
  <1>3. ASSUME NEW a \in Actors, ShiftAt(a) PROVE ShiftAt(a)'
    <2>1. req[a] \in 1..6
      BY RequestFacts DEF TypeInv, ActorInv
    <2>2. ASSUME NEW i \in 1..Len(inbox')
          PROVE  (i \in 1..Len(inbox) /\ inbox'[i] = inbox[i]) \/ inbox'[i].to = 0
      BY <1>2
    <2>3. 1..Len(inbox) \subseteq 1..Len(inbox')
      BY <1>2
    <2> QED
      BY <1>1, <1>2, <1>3, <2>1, <2>2, <2>3 DEF ShiftAt, Shifted
  <1> QED
    BY <1>1, <1>3 DEF ShiftInv

LEMMA ShiftStep ==
  TypeInv /\ (~ overlap => AloneInv /\ ShiftInv) /\ [Next]_vars => (~ overlap' => ShiftInv')
  <1> SUFFICES ASSUME TypeInv, AloneInv, ShiftInv, [Next]_vars, ~ overlap' PROVE ShiftInv'
    BY OverlapStays
  <1>0. TypeInv' /\ AloneInv'
    BY TypeStep, AloneStep
  <1>1. ASSUME NEW a \in Actors, SetUp(a) PROVE ShiftInv'
    BY <1>0, <1>1, SetUpShift
  <1>2. ASSUME NEW t \in ThreadIds, LoopCheck(t) PROVE ShiftInv'
    BY <1>2, ShiftFrame DEF LoopCheck, socket, robot, actors
  <1>3. ASSUME NEW t \in ThreadIds, Read(t) PROVE ShiftInv'
    <2>1. UNCHANGED <<link, step, req, acked>> /\ conn' \in {conn, "DISCONNECTED"}
      BY <1>3 DEF Read, Crash, socket, robot, actors
    <2>2. CASE UNCHANGED inbox
      BY <2>1, <2>2, ShiftFrame
    <2>3. CASE inbox' # inbox
      <3>1. \A a \in Actors : step[a] \notin {"request", "reply"}
        BY <1>3, ActorFacts DEF Read, TypeInv, ActorInv, AloneInv, alive
      <3> QED
        BY <2>1, <3>1 DEF ShiftInv
    <2> QED
      BY <2>2, <2>3
  <1>4. ASSUME NEW t \in ThreadIds, AfterRead(t) PROVE ShiftInv'
    <2>1. t \in Actors
      BY ActorFacts
    <2>2. CASE t \in should
      BY <1>4, <2>1, <2>2, GoToShift DEF AfterRead, Throw, PauseThrows, robot, actors
    <2>3. CASE t \notin should
      BY <1>4, <2>3, ShiftFrame DEF AfterRead, Throw, PauseThrows, robot, actors
    <2> QED
      BY <2>2, <2>3
  <1>5. CASE ClientStep
    <2>1. CASE UNCHANGED step
      BY <1>5, <2>1, ShiftFrame DEF ClientStep, SendCommand, WriteCommand, Disconnect, Joined,
         Reconnect, socket, robot
    <2>2. CASE ~ UNCHANGED step
      BY <1>5, <2>2, GoToShift, ActorFacts DEF ClientStep, SendCommand, WriteCommand, Disconnect,
         Joined, Reconnect, socket, robot
    <2> QED
      BY <2>1, <2>2
  <1>6. CASE LinkLost
    BY <1>6, ShiftFrame DEF LinkLost, socket, actors
  <1>7. CASE TextMessage
    BY <1>7, TextShift
  <1>8. CASE ProgramStartsOrEnds
    BY <1>8, ShiftFrame DEF ProgramStartsOrEnds, socket, actors
  <1>9. CASE UNCHANGED vars
    BY <1>9, ShiftFrame DEF vars, socket, robot, actors
  <1> QED
    BY <1>1, <1>2, <1>3, <1>4, <1>5, <1>6, <1>7, <1>8, <1>9 DEF Next, ReceiveThread

(***************************************************************************)
(* A session of RTDE that is STARTED, set up while no other thread used    *)
(* it, was set up by the replies to its own requests: RTDE::receive takes  *)
(* any message for the reply, yet text messages and refusals in between,   *)
(* any number of them, only keep it from starting.                         *)
(***************************************************************************)
THEOREM StartedIsSetUp == Spec => []StartedMeansSetUp
  <1> DEFINE Inv == TypeInv /\ (~ overlap => AloneInv) /\ (~ overlap => ShiftInv)
  <1>1. Init => Inv
    BY SessionStarts
  <1>2. Inv /\ [Next]_vars => Inv'
    BY TypeStep, AloneStep, ShiftStep
  <1>3. Inv => StartedMeansSetUp
    BY DEF ShiftInv, StartedMeansSetUp
  <1> QED
    BY <1>1, <1>2, <1>3, PTL DEF Spec
=============================================================================
