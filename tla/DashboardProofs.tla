--------------------------- MODULE DashboardProofs ---------------------------
(***************************************************************************)
(* Proofs about Dashboard, for every set of functions that the client      *)
(* calls and any number of requests, connections and timeouts.             *)
(***************************************************************************)
EXTENDS Dashboard, TLAPS

\* The timer.  A deadline that has passed is the one of the last wait, so the
\* socket that check_deadline closes during a call is closed for that call.
TimerInv ==
    /\ deadline = "passed" => waited
    /\ TimeoutIsOwn

\* Nothing of an earlier request is left anywhere.
Quiet == wire = <<>> /\ due = <<>>

\* What the call that reads can get: the answer to its own line, once.
Pending ==
    \/ Quiet
    \/ wire = <<asked>> /\ due = <<>>
    \/ wire = <<>> /\ due = <<asked>>

\* The lines of an open connection belong to the line the call waits for.  A
\* beginning of a line in input_buffer_ is the beginning of the line to come,
\* unless nothing will come any more or the line is the welcome line.
LinesInv ==
    /\ socket = "open" /\ ~ peer => due = <<>>
    /\ pc = "connecting" => /\ socket \in {"unconnected", "closed"}
                            /\ ~ peer /\ Quiet /\ op = "connect"
    /\ pc = "idle" /\ socket = "open" => /\ Quiet
                                         /\ peer => input_buffer = None
    /\ pc = "reading" /\ socket = "open" =>
          /\ Pending
          /\ op = "connect" \/ (Quiet /\ ~ peer) \/ input_buffer \in {None, asked}

StateInv ==
    /\ pc \in {"idle", "connecting", "reading"}
    /\ peer \in BOOLEAN
    /\ sent \in Nat
    /\ op = "connect" => todo = <<>>

-----------------------------------------------------------------------------
(* The timer *)

LEMMA TimerStep == TimerInv /\ [Next]_vars => TimerInv'
  <1> SUFFICES ASSUME TimerInv, [Next]_vars PROVE TimerInv'
    OBVIOUS
  <1> USE DEF TimerInv, TimeoutIsOwn
  <1>1. ASSUME NEW f \in Ops, Call(f) PROVE TimerInv'
    BY <1>1 DEF Call, Exchange, SetDeadline, timer
  <1>2. CASE Connect
    BY <1>2 DEF Connect, SetDeadline
  <1>3. CASE Disconnect
    BY <1>3 DEF Disconnect, timer, call
  <1>4. CASE Connected
    BY <1>4 DEF Connected, SetDeadline
  <1>5. CASE ConnectFails
    BY <1>5 DEF ConnectFails, End, timer
  <1>6. CASE CheckDeadline
    BY <1>6 DEF CheckDeadline, call
  <1>7. CASE ReadPart
    BY <1>7 DEF ReadPart, timer, call
  <1>8. CASE ReadLine
    BY <1>8 DEF ReadLine, End, Exchange, SetDeadline, timer
  <1>9. CASE ReadFails
    BY <1>9 DEF ReadFails, End, timer
  <1>10. CASE TimePasses
    BY <1>10 DEF TimePasses, call
  <1>11. CASE ServerAnswers
    BY <1>11 DEF ServerAnswers, timer, call
  <1>12. CASE ServerCloses
    BY <1>12 DEF ServerCloses, timer, call
  <1>13. CASE UNCHANGED vars
    BY <1>13 DEF vars, timer, call
  <1> QED
    BY <1>1, <1>2, <1>3, <1>4, <1>5, <1>6, <1>7, <1>8, <1>9, <1>10, <1>11, <1>12, <1>13
       DEF Next, ClientThread

(***************************************************************************)
(* A call finds its socket closed only when its own time is up:            *)
(* DashboardClient::check_deadline closes it by the deadline of the wait   *)
(* in progress, never by an earlier one.                                   *)
(***************************************************************************)
THEOREM TimeoutsAreOwn == Spec => []TimeoutIsOwn
  <1>1. Init => TimerInv
    BY DEF Init, TimerInv, TimeoutIsOwn
  <1>2. TimerInv => TimeoutIsOwn
    BY DEF TimerInv
  <1> QED
    BY <1>1, <1>2, TimerStep, PTL DEF Spec

-----------------------------------------------------------------------------
(* The lines *)

\* Queues of at most one line.
LEMMA OneLine ==
  ASSUME NEW a
  PROVE  /\ Append(<<>>, a) = <<a>>
         /\ Head(<<a>>) = a
         /\ Tail(<<a>>) = <<>>
         /\ <<a>> # <<>>
  OBVIOUS

\* The program counter and the counters keep their values.
LEMMA StateStep == StateInv /\ [Next]_vars => StateInv'
  <1> SUFFICES ASSUME StateInv, [Next]_vars PROVE StateInv'
    OBVIOUS
  <1> USE DEF StateInv
  <1>1. ASSUME NEW f \in Ops, Call(f) PROVE StateInv'
    <2>1. f # "connect"
      BY DashboardAssumption DEF Checking, Asking, Unlocking, Plain, Gated, Ending, Popups,
         Powering, Reporting, Safety, Version
    <2> QED
      BY <1>1, <2>1 DEF Call, Exchange
  <1>2. CASE Connect
    BY <1>2 DEF Connect
  <1>3. CASE Disconnect
    BY <1>3 DEF Disconnect, call
  <1>4. CASE Connected
    BY <1>4 DEF Connected
  <1>5. CASE ConnectFails
    BY <1>5 DEF ConnectFails, End, server
  <1>6. CASE CheckDeadline
    BY <1>6 DEF CheckDeadline, call, server
  <1>7. CASE ReadPart
    BY <1>7 DEF ReadPart, call, server
  <1>8. CASE ReadLine
    BY <1>8 DEF ReadLine, End, Exchange
  <1>9. CASE ReadFails
    BY <1>9 DEF ReadFails, End, server
  <1>10. CASE TimePasses
    BY <1>10 DEF TimePasses, call, server
  <1>11. CASE ServerAnswers
    BY <1>11 DEF ServerAnswers, call
  <1>12. CASE ServerCloses
    BY <1>12 DEF ServerCloses, call
  <1>13. CASE UNCHANGED vars
    BY <1>13 DEF vars, call, server
  <1> QED
    BY <1>1, <1>2, <1>3, <1>4, <1>5, <1>6, <1>7, <1>8, <1>9, <1>10, <1>11, <1>12, <1>13
       DEF Next, ClientThread

LEMMA LinesStep ==
  StateInv /\ LinesInv /\ AnswerIsOwn /\ [Next]_vars => LinesInv' /\ AnswerIsOwn'
  <1> SUFFICES ASSUME StateInv, LinesInv, AnswerIsOwn, [Next]_vars
               PROVE  LinesInv' /\ AnswerIsOwn'
    OBVIOUS
  <1> USE DEF StateInv, LinesInv, AnswerIsOwn, Quiet, Pending
  <1>1. ASSUME NEW f \in Ops, Call(f) PROVE LinesInv' /\ AnswerIsOwn'
    BY <1>1, OneLine DEF Call, Exchange
  <1>2. CASE Connect
    BY <1>2 DEF Connect
  <1>3. CASE Disconnect
    BY <1>3 DEF Disconnect, call
  <1>4. CASE Connected
    BY <1>4 DEF Connected
  <1>5. CASE ConnectFails
    BY <1>5 DEF ConnectFails, End, server
  <1>6. CASE CheckDeadline
    BY <1>6 DEF CheckDeadline, call, server
  <1>7. CASE ReadPart
    BY <1>7, OneLine DEF ReadPart, call, server
  <1>8. CASE ReadLine
    <2>1. wire = <<asked>> /\ due = <<>> /\ Head(wire) = asked /\ Tail(wire) = <<>>
      BY <1>8, OneLine DEF ReadLine
    <2>2. op # "connect" => got' = asked
      BY <1>8, <2>1, OneLine DEF ReadLine
    <2> QED
      BY <1>8, <2>1, <2>2, OneLine DEF ReadLine, End, Exchange
  <1>9. CASE ReadFails
    BY <1>9 DEF ReadFails, End, server
  <1>10. CASE TimePasses
    BY <1>10 DEF TimePasses, call, server
  <1>11. CASE ServerAnswers
    BY <1>11, OneLine DEF ServerAnswers, call
  <1>12. CASE ServerCloses
    BY <1>12 DEF ServerCloses, call
  <1>13. CASE UNCHANGED vars
    BY <1>13 DEF vars, call, server
  <1> QED
    BY <1>1, <1>2, <1>3, <1>4, <1>5, <1>6, <1>7, <1>8, <1>9, <1>10, <1>11, <1>12, <1>13
       DEF Next, ClientThread

(***************************************************************************)
(* A function of DashboardClient returns with the server's answer to its   *)
(* own request, for any number of timeouts, reconnections, late and split  *)
(* answers before it.                                                      *)
(***************************************************************************)
THEOREM AnswersAreOwn == Spec => []AnswerIsOwn
  <1> DEFINE Inv == StateInv /\ LinesInv /\ AnswerIsOwn
  <1>1. Init => Inv
    <2> SUFFICES ASSUME Init PROVE Inv
      OBVIOUS
    <2>1. StateInv
      BY DEF Init, StateInv
    <2>2. LinesInv
      BY DEF Init, LinesInv
    <2>3. AnswerIsOwn
      BY DEF Init, AnswerIsOwn
    <2> QED
      BY <2>1, <2>2, <2>3
  <1>2. Inv /\ [Next]_vars => Inv'
    BY StateStep, LinesStep
  <1> QED
    BY <1>1, <1>2, PTL DEF Spec
=============================================================================
