---------------------------- MODULE AsyncProofs ----------------------------
(***************************************************************************)
(* Proofs about AsyncProgress for every number of commands and waypoints   *)
(* and every size of the two counters that fits the status word.           *)
(***************************************************************************)
EXTENDS AsyncProgress, TLAPS

-----------------------------------------------------------------------------
(* The status word.                                                        *)

\* Division takes the upper bits off, one lemma per shift of the status word.
LEMMA Shift15 ==
  ASSUME NEW q \in Nat, NEW r \in Nat, r < 32768
  PROVE  (q * 32768 + r) \div 32768 = q
  OBVIOUS

\* The same for the bits of the counters.
LEMMA Shift16 ==
  ASSUME NEW q \in Nat, NEW r \in Nat, r < 65536
  PROVE  (q * 65536 + r) \div 65536 = q
  OBVIOUS

\* The same for the bits of the operation id.
LEMMA Shift24 ==
  ASSUME NEW q \in Nat, NEW r \in Nat, r < 16777216
  PROVE  (q * 16777216 + r) \div 16777216 = q
  OBVIOUS

\* The running bit is the parity of the word without its progress.
LEMMA Parity ==
  ASSUME NEW k \in Nat
  PROVE  (2 * k) % 2 = 0 /\ (2 * k + 1) % 2 = 1
  OBVIOUS

\* The change counter is the low byte of the upper half.
LEMMA LowByte ==
  ASSUME NEW k \in Nat, NEW c \in 0 .. 255
  PROVE  (256 * k + c) % 256 = c
  OBVIOUS

\* What the host decodes is what the script packed.
LEMMA WordParts ==
  ASSUME NEW id \in 0 .. 127, NEW count \in 0 .. 127, NEW value \in Int
  PROVE  /\ Word(id, count, value) \in Nat
         /\ isAsyncOperationRunning(Word(id, count, value)) <=> value >= 0
         /\ operationId(Word(id, count, value)) = id
         /\ changeCount(Word(id, count, value)) = count
<1>1. PICK w : w = Word(id, count, value)
  OBVIOUS
<1>2. PICK p \in Nat :
         /\ p < 65536
         /\ w = count * 65536 + id * 16777216 + p
         /\ (value >= 0 /\ p >= 32768) \/ (value < 0 /\ p = 0)
  <2>1. CASE value < 0
    <3>1. w = count * 65536 + id * 16777216 + 0
      BY <1>1, <2>1 DEF Word
    <3> QED
      BY <2>1, <3>1
  <2>2. CASE value >= 0
    <3>1. PICK v \in Nat : v = Progress(value) /\ v < 32768
      BY <2>2 DEF Progress
    <3>2. w = count * 65536 + id * 16777216 + (v + 32768)
      BY <1>1, <2>2, <3>1 DEF Word
    <3>3. v + 32768 \in Nat /\ v + 32768 < 65536 /\ v + 32768 >= 32768
      BY <3>1
    <3> QED
      BY <2>2, <3>2, <3>3
  <2> QED
    BY <2>1, <2>2
<1>3. isAsyncOperationRunning(w) <=> value >= 0
  <2>k. PICK k \in Nat : k = count + id * 256
    OBVIOUS
  <2>1. CASE value >= 0
    <3>1. PICK r \in Nat : r < 32768 /\ w = (2 * k + 1) * 32768 + r
      <4>1. p - 32768 \in Nat /\ p - 32768 < 32768
        BY <1>2, <2>1
      <4>2. w = (2 * k + 1) * 32768 + (p - 32768)
        BY <1>2, <2>k
      <4> QED
        BY <4>1, <4>2
    <3>2. w \div 32768 = 2 * k + 1
      BY <3>1, Shift15
    <3> QED
      BY <2>1, <3>2, Parity DEF isAsyncOperationRunning
  <2>2. CASE value < 0
    <3>1. w = (2 * k) * 32768 + 0
      BY <1>2, <2>2, <2>k
    <3>2. w \div 32768 = 2 * k
      BY <3>1, Shift15
    <3>3. (2 * k) % 2 = 0
      BY Parity
    <3>4. ~isAsyncOperationRunning(w)
      BY <3>2, <3>3 DEF isAsyncOperationRunning
    <3> QED
      BY <2>2, <3>4
  <2> QED
    BY <2>1, <2>2
<1>4. operationId(w) = id
  <2>1. PICK r \in Nat : r < 16777216 /\ r = count * 65536 + p
    BY <1>2
  <2>2. w = id * 16777216 + r
    BY <1>2, <2>1
  <2>3. w \div 16777216 = id
    BY <2>1, <2>2, Shift24
  <2>4. id % 128 = id
    OBVIOUS
  <2> QED
    BY <2>3, <2>4 DEF operationId
<1>5. changeCount(w) = count
  <2>1. PICK k \in Nat : k = 256 * id + count
    OBVIOUS
  <2>2. w = k * 65536 + p
    BY <1>2, <2>1
  <2>3. w \div 65536 = 256 * id + count
    BY <2>1, <2>2, <1>2, Shift16
  <2>4. (256 * id + count) % 256 = count
    BY LowByte
  <2> QED
    BY <2>3, <2>4 DEF changeCount
<1>6. w \in Nat
  BY <1>2
<1> QED
  BY <1>1, <1>3, <1>4, <1>5, <1>6

-----------------------------------------------------------------------------
(* Writes of the register.                                                 *)

\* The successors of the two counters are counters, and fit their bits.
LEMMA NextTypes ==
  ASSUME NEW c \in 0 .. Counts - 1, NEW i \in 0 .. Ids - 1
  PROVE  /\ NextCount(c) \in 0 .. Counts - 1 /\ NextId(i) \in 0 .. Ids - 1
         /\ c \in 0 .. 127 /\ i \in 0 .. 127
  BY AsyncAssumption DEF NextCount, NextId

\* A write packs the new counters, and sets the running bit unless it
\* announces the end.
LEMMA WriteParts ==
  ASSUME RegTypeOK, NEW value \in Int, NEW main \in BOOLEAN, WriteProgress(value, main)
  PROVE  /\ RegTypeOK' /\ WordIsDecoded'
         /\ isAsyncOperationRunning(reg') <=> value >= 0
         /\ byMain' = main
<1>1. wrCount' \in 0 .. Counts - 1 /\ opId' \in 0 .. Ids - 1
  BY NextTypes DEF WriteProgress, RegTypeOK
<1>2. wrCount' \in 0 .. 127 /\ opId' \in 0 .. 127
  BY <1>1, NextTypes
<1>3. reg' = Word(opId', wrCount', value)
  BY DEF WriteProgress
<1>4. missed' \in Nat \cup {-1}
  BY DEF WriteProgress, RegTypeOK
<1>5. byMain' = main
  BY DEF WriteProgress
<1>6. /\ reg' \in Nat
      /\ isAsyncOperationRunning(reg') <=> value >= 0
      /\ operationId(reg') = opId' /\ changeCount(reg') = wrCount'
  BY <1>2, <1>3, WordParts
<1> QED
  BY <1>1, <1>4, <1>5, <1>6 DEF RegTypeOK, WordIsDecoded

\* The register after a write of "finished".
LEMMA FinishedParts ==
  ASSUME RegTypeOK, SignalFinished
  PROVE  RegTypeOK' /\ WordIsDecoded' /\ ~isAsyncOperationRunning(reg')
<1>1. PICK v \in Int : v = -1 /\ ~(v >= 0)
  OBVIOUS
<1>2. WriteProgress(v, FALSE)
  BY <1>1 DEF SignalFinished
<1>3. /\ RegTypeOK' /\ WordIsDecoded'
      /\ isAsyncOperationRunning(reg') <=> v >= 0
  BY <1>2, WriteParts
<1> QED
  BY <1>1, <1>3

\* The register after an upload.
LEMMA BootParts ==
  ASSUME Boot
  PROVE  RegTypeOK' /\ WordIsDecoded' /\ ~isAsyncOperationRunning(reg')
<1>1. wrCount' \in 0 .. Counts - 1 /\ opId' \in 0 .. Ids - 1 /\ opId' = 0
  BY AsyncAssumption, NextTypes DEF Boot
<1>2. wrCount' \in 0 .. 127 /\ 0 \in 0 .. 127
  BY <1>1, NextTypes
<1>v. PICK v \in Int : v = -1 /\ ~(v >= 0)
  OBVIOUS
<1>3. reg' = Word(0, wrCount', v)
  BY <1>v DEF Boot
<1>4. /\ reg' \in Nat
      /\ isAsyncOperationRunning(reg') <=> v >= 0
      /\ operationId(reg') = 0 /\ changeCount(reg') = wrCount'
  BY <1>2, <1>3, WordParts
<1>5. missed' \in Nat \cup {-1} /\ byMain' \in BOOLEAN
  BY DEF Boot
<1> QED
  BY <1>1, <1>v, <1>4, <1>5 DEF RegTypeOK, WordIsDecoded

\* stop_async_move: no handle is left; a thread that was killed has its end
\* announced.
LEMMA KillParts ==
  ASSUME TypeOK, WordIsDecoded, KillMove
  PROVE  /\ RegTypeOK' /\ WordIsDecoded'
         /\ thr' \in [Numbers -> {"none", "new", "busy", "last"}]
         /\ moveThrd' = 0
         /\ \A n \in Numbers : thr'[n] = IF n = moveThrd THEN "none" ELSE thr[n]
         /\ isAsyncOperationRunning(reg') =>
               reg' = reg /\ thr' = thr /\ byMain' = byMain
<1>1. CASE moveThrd # 0
  <2>1. moveThrd \in Numbers
    BY <1>1 DEF TypeOK, Numbers
  <2>2. /\ thr' = [thr EXCEPT ![moveThrd] = "none"] /\ moveThrd' = 0
        /\ SignalFinished
    BY <1>1 DEF KillMove
  <2>3. RegTypeOK' /\ WordIsDecoded' /\ ~isAsyncOperationRunning(reg')
    BY <2>2, FinishedParts DEF TypeOK
  <2> QED
    BY <2>1, <2>2, <2>3 DEF TypeOK
<1>2. CASE moveThrd = 0
  <2>1. UNCHANGED <<thr, moveThrd, wrCount, opId, reg, missed, byMain>>
    BY <1>2 DEF KillMove, regVars
  <2>2. RegTypeOK' /\ WordIsDecoded'
    BY <2>1 DEF TypeOK, RegTypeOK, WordIsDecoded
  <2>3. 0 \notin Numbers
    BY DEF Numbers
  <2> QED
    BY <1>2, <2>1, <2>2, <2>3 DEF TypeOK
<1> QED
  BY <1>1, <1>2

\* A command that is at work has a number.
AtWork == mpc # "ready" => ops \in Numbers

\* A step leaves the register and its history alone, writes it once, starts
\* the script over, or is the host's.
LEMMA WhoWrites ==
  ASSUME TypeOK, AtWork, [Next]_vars
  PROVE  \/ UNCHANGED <<wrCount, opId, reg, missed, byMain, seen>>
         \/ seen' = seen /\ \E v \in Int, m \in BOOLEAN : WriteProgress(v, m)
         \/ Boot
         \/ HostReads
<1>1. ASSUME SignalFinished
      PROVE  \E v \in Int, m \in BOOLEAN : WriteProgress(v, m)
  <2>1. PICK v \in Int : v = -1
    OBVIOUS
  <2> QED
    BY <1>1, <2>1 DEF SignalFinished
<1>2. ASSUME KillMove
      PROVE  \/ UNCHANGED <<wrCount, opId, reg, missed, byMain>>
             \/ \E v \in Int, m \in BOOLEAN : WriteProgress(v, m)
  BY <1>1, <1>2 DEF KillMove, regVars
<1>3. ASSUME NEW a \in BOOLEAN,
             MoveCommand(a) \/ StopScript(a) \/ \E k \in Stops : StopCommand(k, a)
      PROVE  \/ UNCHANGED <<wrCount, opId, reg, missed, byMain, seen>>
             \/ seen' = seen /\ \E v \in Int, m \in BOOLEAN : WriteProgress(v, m)
  BY <1>1, <1>2, <1>3 DEF MoveCommand, StopCommand, StopScript, regVars
<1>4. CASE StopMove \/ PathCommand
  BY <1>2, <1>4 DEF StopMove, PathCommand
<1>5. CASE RunThread \/ Unblock
  BY <1>5 DEF RunThread, Unblock, regVars
<1>6. CASE MainWaypoint
  <2>1. WriteProgress(step[ops], TRUE) /\ seen' = seen
    BY <1>6 DEF MainWaypoint
  <2>2. step[ops] \in Int
    BY <1>6, AsyncAssumption DEF MainWaypoint, AtWork, TypeOK
  <2> QED
    BY <2>1, <2>2
<1>7. ASSUME NEW n \in Numbers, Thread(n)
      PROVE  \/ UNCHANGED <<wrCount, opId, reg, missed, byMain, seen>>
             \/ seen' = seen /\ \E v \in Int, m \in BOOLEAN : WriteProgress(v, m)
  <2>1. CASE ThreadStarts(n)
    <3>1. WriteProgress(0, FALSE) /\ seen' = seen
      BY <2>1 DEF ThreadStarts
    <3>2. 0 \in Int
      OBVIOUS
    <3> QED
      BY <3>1, <3>2
  <2>2. CASE ThreadWaypoint(n)
    <3>1. step[n] \in Int
      BY AsyncAssumption DEF TypeOK
    <3> QED
      BY <2>2, <3>1 DEF ThreadWaypoint
  <2>3. CASE ThreadClears(n)
    BY <2>3 DEF ThreadClears, regVars
  <2>4. CASE ThreadFinishes(n)
    BY <2>4, <1>1 DEF ThreadFinishes
  <2> QED
    BY <1>7, <2>1, <2>2, <2>3, <2>4 DEF Thread
<1>8. CASE UNCHANGED vars
  BY <1>8 DEF vars, regVars
<1> QED
  BY <1>3, <1>4, <1>5, <1>6, <1>7, <1>8 DEF Next, Main

-----------------------------------------------------------------------------
(* Types.                                                                  *)

\* The next command is filed under the next number.
LEMMA ArriveParts ==
  ASSUME TypeOK, NEW k \in Kinds, NEW a \in BOOLEAN, Arrives(k, a)
  PROVE  /\ mpc = "ready"
         /\ ops' = ops + 1 /\ ops' \in Numbers
         /\ kind' \in [Numbers -> Kinds]
         /\ async' \in [Numbers -> BOOLEAN]
         /\ kind'[ops'] = k
         /\ async'[ops'] = a
         /\ \A n \in Numbers : n # ops' => kind'[n] = kind[n]
<1>1. ops' = ops + 1 /\ ops' \in Numbers
  BY AsyncAssumption DEF Arrives, TypeOK, Numbers
<1> QED
  BY <1>1 DEF Arrives, TypeOK

\* The initial state has the types, and the host can decode the word.
LEMMA TypeInit ==
  Init => TypeOK /\ AtWork /\ WordIsDecoded
<1> SUFFICES ASSUME Init PROVE TypeOK /\ AtWork /\ WordIsDecoded
  OBVIOUS
<1>1. PICK v \in Int : v = -1
  OBVIOUS
<1>2. reg = Word(opId, wrCount, v) /\ wrCount \in 0 .. 127 /\ opId \in 0 .. 127
  BY <1>1 DEF Init
<1>3. reg \in Nat /\ WordIsDecoded
  BY <1>2, WordParts DEF WordIsDecoded
<1>4. RegTypeOK
  <2>1. wrCount \in 0 .. Counts - 1 /\ opId \in 0 .. Ids - 1 /\ missed \in Nat
    BY AsyncAssumption DEF Init
  <2>2. byMain \in BOOLEAN
    BY DEF Init
  <2> QED
    BY <1>3, <2>1, <2>2 DEF RegTypeOK
<1> QED
  BY <1>3, <1>4, AsyncAssumption DEF Init, TypeOK, AtWork, Kinds, Stops

\* The register keeps its type, and stays decodable.
LEMMA RegStep ==
  ASSUME TypeOK, AtWork, WordIsDecoded, [Next]_vars
  PROVE  RegTypeOK' /\ WordIsDecoded' /\ seen' \in Nat
<1>1. CASE UNCHANGED <<wrCount, opId, reg, missed, byMain, seen>>
  BY <1>1 DEF TypeOK, RegTypeOK, WordIsDecoded
<1>2. CASE seen' = seen /\ \E v \in Int, m \in BOOLEAN : WriteProgress(v, m)
  BY <1>2, WriteParts DEF TypeOK
<1>3. CASE Boot
  BY <1>3, BootParts DEF Boot, TypeOK
<1>4. CASE HostReads
  BY <1>4 DEF HostReads, TypeOK, RegTypeOK, WordIsDecoded
<1> QED
  BY <1>1, <1>2, <1>3, <1>4, WhoWrites

\* The commands, the threads and their handles keep their types.
LEMMA TypeStep ==
  ASSUME TypeOK, AtWork, WordIsDecoded, [Next]_vars
  PROVE  TypeOK' /\ AtWork'
<1>r. RegTypeOK' /\ seen' \in Nat
  BY RegStep
<1>0. 0 \in 0 .. MaxOps /\ (\A n \in Numbers : n \in 0 .. MaxOps)
  BY AsyncAssumption DEF Numbers
<1>1. ASSUME NEW a \in BOOLEAN, MoveCommand(a) PROVE TypeOK' /\ AtWork'
  <2>1. Arrives("move", a) /\ KillMove /\ Proceed(ops') /\ UNCHANGED <<step, stopThrd, stopType>>
    BY <1>1 DEF MoveCommand
  <2>2. "move" \in Kinds
    BY DEF Kinds, Stops
  <2>3. mpc' \in {"run", "block"}
    BY <2>1 DEF Proceed
  <2>4. ops' \in Numbers /\ kind' \in [Numbers -> Kinds] /\ async' \in [Numbers -> BOOLEAN]
    BY <2>1, <2>2, ArriveParts
  <2>5. thr' \in [Numbers -> {"none", "new", "busy", "last"}] /\ moveThrd' = 0
    BY <2>1, KillParts
  <2> QED
    BY <1>0, <1>r, <2>1, <2>3, <2>4, <2>5 DEF TypeOK, AtWork
<1>2. ASSUME NEW a \in BOOLEAN, NEW k \in Stops, StopCommand(k, a) PROVE TypeOK' /\ AtWork'
  <2>1. Arrives(k, a) /\ UNCHANGED <<step, moveThrd, stopType>>
    BY <1>2 DEF StopCommand
  <2>2. k \in Kinds
    BY DEF Kinds, Stops
  <2>3. mpc' \in {"run", "block", "stopMove"} /\ stopThrd' \in {0, stopThrd}
        /\ thr' \in [Numbers -> {"none", "new", "busy", "last"}]
    BY <1>2 DEF StopCommand, Proceed, TypeOK
  <2>4. ops' \in Numbers /\ kind' \in [Numbers -> Kinds] /\ async' \in [Numbers -> BOOLEAN]
    BY <2>1, <2>2, ArriveParts
  <2> QED
    BY <1>0, <1>r, <2>1, <2>3, <2>4 DEF TypeOK, AtWork
<1>3. ASSUME NEW a \in BOOLEAN, StopScript(a) PROVE TypeOK' /\ AtWork'
  <2>1. Arrives("path", a) /\ UNCHANGED <<step, moveThrd, stopThrd, stopType>> /\ mpc' = "off"
        /\ thr' = [n \in Numbers |-> "none"]
    BY <1>3 DEF StopScript, handleVars
  <2>2. "path" \in Kinds
    BY DEF Kinds, Stops
  <2>4. ops' \in Numbers /\ kind' \in [Numbers -> Kinds] /\ async' \in [Numbers -> BOOLEAN]
    BY <2>1, <2>2, ArriveParts
  <2> QED
    BY <1>0, <1>r, <2>1, <2>4 DEF TypeOK, AtWork
<1>4. CASE StopMove \/ PathCommand
  <2>1. /\ KillMove /\ mpc' \in {"run", "block"} /\ mpc # "ready"
        /\ UNCHANGED <<ops, kind, async, step, stopThrd, stopType>>
    BY <1>4 DEF StopMove, PathCommand, cmdVars
  <2>2. thr' \in [Numbers -> {"none", "new", "busy", "last"}] /\ moveThrd' = 0
    BY <2>1, KillParts
  <2> QED
    BY <1>0, <1>r, <2>1, <2>2 DEF TypeOK, AtWork
<1>5. CASE RunThread
  BY <1>0, <1>r, <1>5 DEF RunThread, TypeOK, AtWork, cmdVars, Stops
<1>6. CASE MainWaypoint
  <2>1. /\ UNCHANGED <<mpc, ops, kind, async, thr, moveThrd, stopThrd, stopType>>
        /\ step' = [step EXCEPT ![ops] = @ + 1] /\ step[ops] < Waypoints
        /\ ops \in Numbers
    BY <1>6 DEF MainWaypoint, cmdVars, handleVars, AtWork
  <2>2. step' \in [Numbers -> 0 .. Waypoints]
    BY <2>1, AsyncAssumption DEF TypeOK
  <2> QED
    BY <1>r, <2>1, <2>2 DEF TypeOK, AtWork
<1>7. CASE Unblock
  BY <1>r, <1>7 DEF Unblock, TypeOK, AtWork, cmdVars, threadVars, handleVars
<1>8. CASE Boot
  BY <1>0, <1>r, <1>8 DEF Boot, TypeOK, AtWork, cmdVars, threadVars, Stops
<1>9. ASSUME NEW n \in Numbers, Thread(n) PROVE TypeOK' /\ AtWork'
  <2>1. CASE ThreadStarts(n)
    BY <1>r, <2>1 DEF ThreadStarts, TypeOK, AtWork, cmdVars, handleVars
  <2>2. CASE ThreadWaypoint(n)
    <3>1. /\ UNCHANGED <<mpc, ops, kind, async, thr, moveThrd, stopThrd, stopType>>
          /\ step' = [step EXCEPT ![n] = @ + 1] /\ step[n] < Waypoints
      BY <2>2 DEF ThreadWaypoint, cmdVars, handleVars
    <3>2. step' \in [Numbers -> 0 .. Waypoints]
      BY <3>1, AsyncAssumption DEF TypeOK
    <3> QED
      BY <1>r, <3>1, <3>2 DEF TypeOK, AtWork
  <2>3. CASE ThreadClears(n)
    BY <1>0, <1>r, <2>3 DEF ThreadClears, TypeOK, AtWork, cmdVars
  <2>4. CASE ThreadFinishes(n)
    BY <1>r, <2>4 DEF ThreadFinishes, TypeOK, AtWork, cmdVars, handleVars
  <2> QED
    BY <1>9, <2>1, <2>2, <2>3, <2>4 DEF Thread
<1>10. CASE HostReads
  BY <1>r, <1>10 DEF HostReads, TypeOK, AtWork, cmdVars, threadVars, handleVars
<1>11. CASE UNCHANGED vars
  BY <1>r, <1>11 DEF vars, TypeOK, AtWork, cmdVars, threadVars, handleVars
<1> QED
  BY <1>1, <1>2, <1>3, <1>4, <1>5, <1>6, <1>7, <1>8, <1>9, <1>10, <1>11 DEF Next, Main

\* Every variable keeps its type, for every number of commands: the write
\* counter and the operation id of the script never outgrow the bits that
\* write_async_progress_register leaves them.
THEOREM AsyncTypeCorrect == Spec => []TypeOK
<1>1. TypeOK /\ AtWork /\ WordIsDecoded /\ [Next]_vars => (TypeOK /\ AtWork /\ WordIsDecoded)'
  BY TypeStep, RegStep
<1> QED
  BY <1>1, TypeInit, PTL DEF Spec

\* The operation id and the change counter that AsyncOperationStatus takes
\* out of the status word are the ones the script packed into it.
THEOREM HostDecodes == Spec => []WordIsDecoded
<1>1. TypeOK /\ AtWork /\ WordIsDecoded /\ [Next]_vars => (TypeOK /\ AtWork /\ WordIsDecoded)'
  BY TypeStep, RegStep
<1> QED
  BY <1>1, TypeInit, PTL DEF Spec

-----------------------------------------------------------------------------
(* The movers.                                                             *)

\* A thread that is not through is the one its handle names.
HandleInv ==
    \A n \in Numbers :
        thr[n] \in {"new", "busy"} =>
            IF kind[n] \in Stops THEN stopThrd = n ELSE moveThrd = n

\* Where process_cmd stands, and the handles it has cleared on the way.
MainInv ==
    /\ \A n \in Numbers : n > ops => thr[n] = "none"
    /\ mpc # "ready" => thr[ops] = "none"
    /\ mpc \in {"run", "block"} /\ kind[ops] \notin Stops => moveThrd = 0
    /\ mpc = "run" /\ kind[ops] \in Stops => stopThrd = 0
    /\ mpc = "stopMove" => kind[ops] \in Stops /\ stopThrd = 0
    /\ mpc \in {"off", "path"} => kind[ops] = "path" /\ \A n \in Numbers : thr[n] = "none"

MoverInv == HandleInv /\ MainInv

\* The invariant of the movers gives the property.
LEMMA MoverGivesOne ==
  ASSUME TypeOK, AtWork, MoverInv
  PROVE  OneMover
  BY DEF MoverInv, HandleInv, MainInv, OneMover, Moving, Numbers, AtWork

\* Each step keeps the handles in line with the threads.
LEMMA MoverStep ==
  ASSUME TypeOK, AtWork, WordIsDecoded, MoverInv, [Next]_vars
  PROVE  MoverInv'
<1>0. 0 \notin Numbers /\ ops \in Int /\ (\A n \in Numbers : n \in Int)
  BY DEF Numbers, TypeOK
<1>h. HandleInv /\ MainInv
  BY DEF MoverInv
<1>1. ASSUME NEW a \in BOOLEAN, MoveCommand(a) PROVE MoverInv'
  <2>1. Arrives("move", a) /\ KillMove /\ mpc' \in {"run", "block"} /\ stopThrd' = stopThrd
    BY <1>1 DEF MoveCommand, Proceed
  <2>2. "move" \in Kinds
    BY DEF Kinds, Stops
  <2>3. /\ ops' = ops + 1 /\ ops' \in Numbers /\ kind'[ops'] = "move"
        /\ \A n \in Numbers : n # ops' => kind'[n] = kind[n]
    BY <2>1, <2>2, ArriveParts
  <2>4. /\ moveThrd' = 0
        /\ \A n \in Numbers : thr'[n] = IF n = moveThrd THEN "none" ELSE thr[n]
    BY <2>1, KillParts
  <2>5. HandleInv'
    BY <1>0, <1>h, <2>1, <2>3, <2>4 DEF HandleInv, MainInv
  <2>6. MainInv'
    BY <1>0, <1>h, <2>1, <2>3, <2>4 DEF MainInv, Stops
  <2> QED
    BY <2>5, <2>6 DEF MoverInv
<1>2. ASSUME NEW a \in BOOLEAN, NEW k \in Stops, StopCommand(k, a) PROVE MoverInv'
  <2>1. Arrives(k, a) /\ moveThrd' = moveThrd /\ mpc' \in {"run", "block", "stopMove"}
    BY <1>2 DEF StopCommand, Proceed
  <2>2. k \in Kinds
    BY DEF Kinds, Stops
  <2>3. /\ ops' = ops + 1 /\ ops' \in Numbers /\ kind'[ops'] = k
        /\ \A n \in Numbers : n # ops' => kind'[n] = kind[n]
    BY <2>1, <2>2, ArriveParts
  <2>4. /\ stopThrd' = 0
        /\ \A n \in Numbers : thr'[n] = IF n = stopThrd THEN "none" ELSE thr[n]
    BY <1>0, <1>2 DEF StopCommand, TypeOK
  <2>5. HandleInv'
    BY <1>0, <1>h, <2>1, <2>3, <2>4 DEF HandleInv, MainInv
  <2>6. MainInv'
    BY <1>0, <1>h, <2>1, <2>3, <2>4 DEF MainInv, Stops
  <2> QED
    BY <2>5, <2>6 DEF MoverInv
<1>3. ASSUME NEW a \in BOOLEAN, StopScript(a) PROVE MoverInv'
  <2>1. Arrives("path", a) /\ mpc' = "off" /\ \A n \in Numbers : thr'[n] = "none"
    BY <1>3 DEF StopScript
  <2>2. "path" \in Kinds
    BY DEF Kinds, Stops
  <2>3. ops' \in Numbers /\ kind'[ops'] = "path"
    BY <2>1, <2>2, ArriveParts
  <2> QED
    BY <2>1, <2>3 DEF MoverInv, HandleInv, MainInv
<1>4. CASE StopMove \/ PathCommand
  <2>1. /\ KillMove /\ mpc' \in {"run", "block"} /\ ops \in Numbers
        /\ mpc \in {"stopMove", "path"}
        /\ UNCHANGED <<ops, kind, stopThrd>>
    BY <1>4 DEF StopMove, PathCommand, cmdVars, AtWork
  <2>2. /\ moveThrd' = 0
        /\ \A n \in Numbers : thr'[n] = IF n = moveThrd THEN "none" ELSE thr[n]
    BY <2>1, KillParts
  <2>3. HandleInv'
    BY <1>0, <1>h, <2>1, <2>2 DEF HandleInv, MainInv
  <2>4. MainInv'
    BY <1>0, <1>h, <2>1, <2>2 DEF MainInv, Stops
  <2> QED
    BY <2>3, <2>4 DEF MoverInv
<1>5. CASE RunThread
  <2>1. /\ mpc = "run" /\ mpc' = "ready" /\ UNCHANGED <<ops, kind>> /\ ops \in Numbers
        /\ \A n \in Numbers : thr'[n] = IF n = ops THEN "new" ELSE thr[n]
        /\ IF kind[ops] \in Stops THEN stopThrd' = ops /\ moveThrd' = moveThrd
                                ELSE moveThrd' = ops /\ stopThrd' = stopThrd
    BY <1>5 DEF RunThread, cmdVars, AtWork, TypeOK
  <2>2. HandleInv'
    BY <1>0, <1>h, <2>1 DEF HandleInv, MainInv
  <2>3. MainInv'
    BY <1>0, <1>h, <2>1 DEF MainInv
  <2> QED
    BY <2>2, <2>3 DEF MoverInv
<1>6. CASE MainWaypoint \/ Unblock
  BY <1>6, <1>h DEF MainWaypoint, Unblock, MoverInv, HandleInv, MainInv, cmdVars, handleVars, threadVars
<1>8. CASE Boot
  BY <1>8, <1>h DEF Boot, MoverInv, HandleInv, MainInv, cmdVars, threadVars
<1>9. ASSUME NEW n \in Numbers, Thread(n) PROVE MoverInv'
  <2>1. CASE ThreadStarts(n)
    BY <1>0, <1>h, <2>1 DEF ThreadStarts, TypeOK, MoverInv, HandleInv, MainInv, AtWork, cmdVars, handleVars
  <2>2. CASE ThreadWaypoint(n)
    BY <1>h, <2>2 DEF ThreadWaypoint, MoverInv, HandleInv, MainInv, cmdVars, handleVars
  <2>3. CASE ThreadClears(n)
    BY <1>0, <1>h, <2>3 DEF ThreadClears, TypeOK, MoverInv, HandleInv, MainInv, AtWork, cmdVars
  <2>4. CASE ThreadFinishes(n)
    BY <1>0, <1>h, <2>4 DEF ThreadFinishes, TypeOK, MoverInv, HandleInv, MainInv, AtWork, cmdVars, handleVars
  <2> QED
    BY <1>9, <2>1, <2>2, <2>3, <2>4 DEF Thread
<1>10. CASE HostReads
  BY <1>10, <1>h DEF HostReads, MoverInv, HandleInv, MainInv, cmdVars, threadVars, handleVars
<1>11. CASE UNCHANGED vars
  BY <1>11, <1>h DEF vars, MoverInv, HandleInv, MainInv, cmdVars, threadVars, handleVars
<1> QED
  BY <1>1, <1>2, <1>3, <1>4, <1>5, <1>6, <1>8, <1>9, <1>10, <1>11 DEF Next, Main

\* Whatever the order in which commands arrive and threads end, at most one
\* move thread drives the robot, and none while process_cmd moves it itself.
THEOREM OneThreadMoves == Spec => []OneMover
<1> DEFINE IInv == TypeOK /\ AtWork /\ WordIsDecoded /\ MoverInv
<1>1. Init => IInv
  <2>1. Init => MoverInv
    BY DEF Init, MoverInv, HandleInv, MainInv
  <2> QED
    BY <2>1, TypeInit
<1>2. IInv /\ [Next]_vars => IInv'
  BY TypeStep, RegStep, MoverStep
<1>3. IInv => OneMover
  BY MoverGivesOne
<1> QED
  BY <1>1, <1>2, <1>3, PTL DEF Spec

-----------------------------------------------------------------------------
(* The running bit.                                                        *)

\* A write of the register leaves the running bit answered, when a live
\* thread made it, the main thread in a path, or it said "finished".
LEMMA AnsweredStep ==
  ASSUME TypeOK, AtWork, WordIsDecoded, MoverInv, RunningIsAnswered, [Next]_vars
  PROVE  RunningIsAnswered'
<1>r. RegTypeOK
  BY DEF TypeOK
<1>k. ASSUME KillMove, mpc # "off"
      PROVE  RunningIsAnswered'
  <2>1. isAsyncOperationRunning(reg') => reg' = reg /\ thr' = thr /\ byMain' = byMain
    BY <1>k, KillParts
  <2> QED
    BY <1>k, <2>1 DEF RunningIsAnswered, Live
<1>f. ASSUME SignalFinished
      PROVE  RunningIsAnswered'
  BY <1>r, <1>f, FinishedParts DEF RunningIsAnswered
<1>1. ASSUME NEW a \in BOOLEAN, MoveCommand(a) PROVE RunningIsAnswered'
  BY <1>1, <1>k DEF MoveCommand, Arrives
<1>2. ASSUME NEW a \in BOOLEAN, NEW k \in Stops, StopCommand(k, a) PROVE RunningIsAnswered'
  <2>1. CASE SignalFinished
    BY <2>1, <1>f
  <2>2. CASE UNCHANGED <<thr, wrCount, opId, reg, missed, byMain>>
    <3>1. mpc # "off"
      BY <1>2 DEF StopCommand, Arrives
    <3> QED
      BY <2>2, <3>1 DEF RunningIsAnswered, Live
  <2> QED
    BY <1>2, <2>1, <2>2 DEF StopCommand, regVars
<1>3. ASSUME NEW a \in BOOLEAN, StopScript(a) PROVE RunningIsAnswered'
  BY <1>3 DEF StopScript, RunningIsAnswered
<1>4. CASE StopMove \/ PathCommand
  BY <1>4, <1>k DEF StopMove, PathCommand
<1>5. CASE RunThread
  <2>1. /\ reg' = reg /\ byMain' = byMain /\ mpc # "off" /\ ops \in Numbers
        /\ thr' = [thr EXCEPT ![ops] = "new"]
    BY <1>5 DEF RunThread, regVars, AtWork
  <2>2. thr[ops] = "none"
    BY <1>5 DEF RunThread, MoverInv, MainInv
  <2> QED
    BY <2>1, <2>2 DEF RunningIsAnswered, Live, TypeOK
<1>6. CASE MainWaypoint
  <2>1. byMain' = TRUE
    BY <1>6 DEF MainWaypoint, WriteProgress
  <2> QED
    BY <2>1 DEF RunningIsAnswered
<1>7. CASE Unblock
  BY <1>7 DEF Unblock, RunningIsAnswered, Live, threadVars, regVars
<1>8. CASE Boot
  BY <1>8, BootParts DEF RunningIsAnswered
<1>9. ASSUME NEW n \in Numbers, Thread(n) PROVE RunningIsAnswered'
  <2>1. CASE ThreadStarts(n)
    <3>1. thr'[n] = "busy"
      BY <2>1 DEF ThreadStarts, TypeOK
    <3> QED
      BY <3>1 DEF RunningIsAnswered, Live
  <2>2. CASE ThreadWaypoint(n)
    <3>1. thr'[n] = "busy"
      BY <2>2 DEF ThreadWaypoint
    <3> QED
      BY <3>1 DEF RunningIsAnswered, Live
  <2>3. CASE ThreadClears(n)
    <3>1. thr'[n] = "last"
      BY <2>3 DEF ThreadClears, TypeOK
    <3> QED
      BY <3>1 DEF RunningIsAnswered, Live
  <2>4. CASE ThreadFinishes(n)
    BY <2>4, <1>f DEF ThreadFinishes
  <2> QED
    BY <1>9, <2>1, <2>2, <2>3, <2>4 DEF Thread
<1>10. CASE HostReads
  BY <1>10 DEF HostReads, RunningIsAnswered, Live, threadVars
<1>11. CASE UNCHANGED vars
  BY <1>11 DEF vars, RunningIsAnswered, Live, threadVars, regVars
<1> QED
  BY <1>1, <1>2, <1>3, <1>4, <1>5, <1>6, <1>7, <1>8, <1>9, <1>10, <1>11 DEF Next, Main

\* The running bit that isAsyncOperationRunning reads is set only while some
\* thread of the script is still going to clear it, the script is stopped for
\* an upload, or a synchronous path has set it.
THEOREM RunningHasOwner == Spec => []RunningIsAnswered
<1> DEFINE IInv == TypeOK /\ AtWork /\ WordIsDecoded /\ MoverInv /\ RunningIsAnswered
<1>1. Init => IInv
  <2>1. Init => MoverInv
    BY DEF Init, MoverInv, HandleInv, MainInv
  <2>2. Init => RunningIsAnswered
    <3> SUFFICES ASSUME Init PROVE RunningIsAnswered
      OBVIOUS
    <3>1. PICK v \in Int : v = -1 /\ ~(v >= 0)
      OBVIOUS
    <3>2. reg = Word(opId, wrCount, v) /\ wrCount \in 0 .. 127 /\ opId \in 0 .. 127
      BY <3>1 DEF Init
    <3>3. isAsyncOperationRunning(reg) <=> v >= 0
      BY <3>2, WordParts
    <3> QED
      BY <3>1, <3>3 DEF RunningIsAnswered
  <2> QED
    BY <2>1, <2>2, TypeInit
<1>2. IInv /\ [Next]_vars => IInv'
  BY TypeStep, RegStep, MoverStep, AnsweredStep
<1>3. IInv => RunningIsAnswered
  OBVIOUS
<1> QED
  BY <1>1, <1>2, <1>3, PTL DEF Spec

-----------------------------------------------------------------------------
(* The change counter.                                                     *)

\* Until the counter has come round, it tells how many writes were missed.
SeenInv ==
    missed \in 0 .. Counts - 1 =>
        /\ changeCount(seen) \in 0 .. Counts - 1
        /\ \/ wrCount = changeCount(seen) + missed
           \/ wrCount = changeCount(seen) + missed - Counts

\* Each write moves the counter and the number of missed writes together.
LEMMA SeenStep ==
  ASSUME TypeOK, AtWork, WordIsDecoded, SeenInv, [Next]_vars
  PROVE  SeenInv'
<1>t. wrCount \in 0 .. Counts - 1 /\ missed \in Nat \cup {-1} /\ changeCount(reg) = wrCount
  BY DEF TypeOK, RegTypeOK, WordIsDecoded
<1>1. CASE UNCHANGED <<wrCount, opId, reg, missed, byMain, seen>>
  BY <1>1 DEF SeenInv
<1>2. ASSUME seen' = seen, NEW v \in Int, NEW m \in BOOLEAN, WriteProgress(v, m)
      PROVE  SeenInv'
  <2>1. wrCount' = NextCount(wrCount) /\ missed' = IF missed = -1 THEN -1 ELSE missed + 1
    BY <1>2 DEF WriteProgress
  <2>2. changeCount(seen)' = changeCount(seen)
    BY <1>2 DEF changeCount
  <2> QED
    BY <1>t, <2>1, <2>2, AsyncAssumption DEF SeenInv, NextCount
<1>3. CASE Boot
  <2>1. missed' = -1
    BY <1>3 DEF Boot
  <2> QED
    BY <2>1 DEF SeenInv
<1>4. CASE HostReads
  <2>1. seen' = reg /\ missed' = 0 /\ wrCount' = wrCount
    BY <1>4 DEF HostReads
  <2>2. changeCount(seen)' = wrCount
    BY <1>t, <2>1
  <2> QED
    BY <1>t, <2>1, <2>2 DEF SeenInv
<1> QED
  BY <1>1, <1>2, <1>3, <1>4, WhoWrites

\* A status word that the host finds again has been written at least Counts
\* times in between, or never, or the script was uploaded again: comparing two
\* status words is a sound way to see a change, within that limit.
THEOREM ComparingIsSound == Spec => []EqualMeansUnchanged
<1> DEFINE IInv == TypeOK /\ AtWork /\ WordIsDecoded /\ SeenInv
<1>1. Init => IInv
  <2>1. Init => SeenInv
    <3> SUFFICES ASSUME Init PROVE SeenInv
      OBVIOUS
    <3>1. WordIsDecoded /\ TypeOK
      BY TypeInit
    <3>2. seen = reg /\ missed = 0 /\ wrCount \in 0 .. Counts - 1 /\ changeCount(reg) = wrCount
      BY <3>1 DEF Init, WordIsDecoded, TypeOK, RegTypeOK
    <3> QED
      BY <3>2 DEF SeenInv
  <2> QED
    BY <2>1, TypeInit
<1>2. IInv /\ [Next]_vars => IInv'
  BY TypeStep, RegStep, SeenStep
<1>3. IInv => EqualMeansUnchanged
  <2> SUFFICES ASSUME IInv, seen = reg, missed > 0, ~(missed >= Counts) PROVE FALSE
    BY DEF EqualMeansUnchanged
  <2>1. missed \in 1 .. Counts - 1 /\ changeCount(seen) = wrCount /\ wrCount \in 0 .. Counts - 1
    BY AsyncAssumption DEF TypeOK, RegTypeOK, WordIsDecoded
  <2> QED
    BY <2>1, AsyncAssumption DEF SeenInv
<1> QED
  BY <1>1, <1>2, <1>3, PTL DEF Spec
=============================================================================
