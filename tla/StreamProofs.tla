---------------------------- MODULE StreamProofs ----------------------------
(***************************************************************************)
(* Proofs about RtdeStream: receiveData keeps its place in the stream, and *)
(* what RobotState shows is what StateFeed promises.                       *)
(*                                                                         *)
(* Where a message starts is a sum over the messages before it, a function *)
(* defined by recursion.  The first lemmas justify such a definition:      *)
(* induction over the naturals for a set, from the well-foundedness of <,  *)
(* and a function that is built up step by step exists.                    *)
(***************************************************************************)
EXTENDS RtdeStream, WellFoundedInduction, TLAPS

(* Induction and recursion *)

\* < is a well-founded relation on the naturals, as a set of pairs.
LEMMA LessThan ==
    \E R : IsWellFoundedOn(R, Nat) /\ \A m, n \in Nat : m < n => <<m, n>> \in R
  <1>1. IsWellFoundedOn(OpToRel(<, Nat), Nat)
    BY NatLessThanWellFounded, Zenon
  <1>2. \A m, n \in Nat : m < n => <<m, n>> \in OpToRel(<, Nat)
    BY DEF OpToRel
  <1> QED
    BY <1>1, <1>2, Zenon

\* Induction: a set that has 0 and with n also n + 1 has every natural number.
LEMMA Induction ==
    ASSUME NEW S, 0 \in S, \A n \in Nat : n \in S => n + 1 \in S
    PROVE  Nat \subseteq S
  <1> DEFINE T == Nat \ S
  <1> SUFFICES ASSUME T # {} PROVE FALSE
    OBVIOUS
  <1>1. PICK R : IsWellFoundedOn(R, Nat) /\ \A m, n \in Nat : m < n => <<m, n>> \in R
    BY LessThan
  <1>2. PICK x \in T : \A y \in T : ~ (<<y, x>> \in R)
    <2>1. T \subseteq Nat /\ T # {} /\ IsWellFoundedOn(R, Nat)
      BY <1>1
    <2> HIDE DEF T
    <2> QED
      BY <2>1, WFMin
  <1>3. x # 0 /\ x - 1 \in T /\ x - 1 < x
    OBVIOUS
  <1> QED
    BY <1>1, <1>2, <1>3

\* The partial sums of d are a function.
LEMMA Sums ==
    ASSUME NEW N \in Nat, NEW d \in [1..N -> Nat]
    PROVE  \E g \in [0..N -> Nat] : g[0] = 0 /\ \A i \in 1..N : g[i] = g[i - 1] + d[i]
  <1> DEFINE Upto(m) == \E g \in [0..m -> Nat] : g[0] = 0 /\ \A i \in 1..m : g[i] = g[i - 1] + d[i]
             S == {m \in Nat : m <= N => Upto(m)}
  <1>1. 0 \in S
    <2> DEFINE g == [i \in 0..0 |-> 0]
    <2>1. g \in [0..0 -> Nat] /\ g[0] = 0 /\ \A i \in 1..0 : g[i] = g[i - 1] + d[i]
      OBVIOUS
    <2>2. Upto(0)
      BY <2>1
    <2> QED
      BY <2>2
  <1>2. ASSUME NEW m \in Nat, m \in S PROVE m + 1 \in S
    <2>0. SUFFICES ASSUME m + 1 <= N PROVE Upto(m + 1)
      <3> HIDE DEF Upto
      <3> QED
        OBVIOUS
    <2>1. Upto(m)
      <3> HIDE DEF Upto
      <3> QED
        BY <1>2, <2>0
    <2>2. PICK g \in [0..m -> Nat] : g[0] = 0 /\ \A i \in 1..m : g[i] = g[i - 1] + d[i]
      BY <2>1
    <2> DEFINE h == [i \in 0..(m + 1) |-> IF i = m + 1 THEN g[m] + d[m + 1] ELSE g[i]]
    <2>3. h \in [0..(m + 1) -> Nat] /\ h[0] = 0
      BY <2>0, <2>2
    <2>4. ASSUME NEW i \in 1..(m + 1) PROVE h[i] = h[i - 1] + d[i]
      <3>1. CASE i = m + 1
        BY <3>1
      <3>2. CASE i # m + 1
        <4>1. i \in 1..m /\ i - 1 \in 0..m /\ h[i] = g[i] /\ h[i - 1] = g[i - 1]
          BY <3>2
        <4> QED
          BY <2>2, <4>1
      <3> QED
        BY <3>1, <3>2
    <2> HIDE DEF h
    <2> QED
      BY <2>3, <2>4
  <1>3. Nat \subseteq S
    <2> HIDE DEF S
    <2> QED
      BY <1>1, <1>2, Induction
  <1>4. Upto(N)
    <2> HIDE DEF Upto
    <2> QED
      BY <1>3
  <1> QED
    BY <1>4

(* Sizes and places *)

Messages == [cmd : {"RTDE_DATA_PACKAGE", "RTDE_TEXT_MESSAGE", "RTDE_GET_URCONTROL_VERSION"},
             package : Nat]

\* Start, of any sequence of messages.
At(w, i) == LET upto[j \in 0..Len(w)] == IF j = 0 THEN 0 ELSE upto[j - 1] + Size(w[j])
            IN  upto[i - 1]

LEMMA WordsPositive == \A n \in Unpacked : Words(n) \in Nat /\ Words(n) > 0
  <1>1. \A n \in Unpacked : Words(n) \in {12, 6, 2, 1}
    BY Zenon DEF Words, Unpacked
  <1> QED
    BY <1>1

\* The recursive definition of DataWords defines a function.
LEMMA DataWordsDef ==
    /\ DataWords \in [0..Len(OutputNames) -> Nat]
    /\ DataWords[0] = 0
    /\ \A i \in 1..Len(OutputNames) : DataWords[i] = DataWords[i - 1] + Words(OutputNames[i])
  <1> DEFINE N == Len(OutputNames)
             d == [i \in 1..N |-> Words(OutputNames[i])]
             Body(g) == [i \in 0..N |->
                           IF i = 0 THEN 0 ELSE g[i - 1] + ControllerWords(OutputNames[i])]
  <1>1. N \in Nat /\ \A i \in 1..N : Words(OutputNames[i]) \in Nat
    BY RecipeAssumption, WordsPositive
  <1>2. d \in [1..N -> Nat]
    BY <1>1
  <1>3. PICK g \in [0..N -> Nat] : g[0] = 0 /\ \A i \in 1..N : g[i] = g[i - 1] + d[i]
    <2> HIDE DEF d, N
    <2> QED
      BY <1>1, <1>2, Sums
  <1>4. g = Body(g)
    <2>1. ASSUME NEW i \in 1..N PROVE g[i] = g[i - 1] + Words(OutputNames[i])
      BY <1>1, <1>3
    <2> QED
      BY <1>1, <1>3, <2>1 DEF ControllerWords
  <1>5. DataWords = Body(DataWords)
    <2> HIDE DEF d, N
    <2>1. DataWords = CHOOSE f : f = Body(f)
      BY Zenon DEF DataWords, N
    <2> HIDE DEF Body
    <2> QED
      BY <1>4, <2>1, Zenon
  <1>6. DataWords[0] = 0
    BY <1>1, <1>5
  <1>7. \A i \in 1..N : DataWords[i] = DataWords[i - 1] + Words(OutputNames[i])
    BY <1>1, <1>5 DEF ControllerWords
  <1>8. \A i \in 0..N : DataWords[i] \in Nat
    <2> DEFINE S == {i \in Nat : i <= N => DataWords[i] \in Nat}
    <2>1. 0 \in S
      BY <1>6
    <2>2. \A i \in Nat : i \in S => i + 1 \in S
      BY <1>1, <1>7
    <2>3. Nat \subseteq S
      <3> HIDE DEF S
      <3> QED
        BY <2>1, <2>2, Induction
    <2> QED
      BY <1>1, <2>3
  <1>9. DataWords \in [0..N -> Nat]
    BY <1>5, <1>8
  <1> QED
    BY <1>6, <1>7, <1>9

LEMMA SizePositive ==
    \A m \in Messages : Size(m) \in Nat /\ Size(m) >= HEADER_SIZE
  <1>1. DataWords[Len(OutputNames)] \in Nat
    BY DataWordsDef, RecipeAssumption
  <1>2. \A m \in Messages : Size(m) \in {DataSize, HEADER_SIZE + 2, HEADER_SIZE + 4}
    BY Zenon DEF Messages, Size
  <1> QED
    BY <1>1, <1>2 DEF DataSize, HEADER_SIZE, RECIPE_ID

\* The recursive definition of the start of a message defines a function.
LEMMA AtDef ==
    ASSUME NEW w \in Seq(Messages)
    PROVE  /\ \A i \in 1..(Len(w) + 1) : At(w, i) \in Nat
           /\ At(w, 1) = 0
           /\ \A i \in 1..Len(w) : At(w, i + 1) = At(w, i) + Size(w[i])
  <1> DEFINE N == Len(w)
             d == [i \in 1..N |-> Size(w[i])]
             Body(g) == [j \in 0..Len(w) |-> IF j = 0 THEN 0 ELSE g[j - 1] + Size(w[j])]
             f == CHOOSE g : g = Body(g)
  <1>1. N \in Nat /\ \A i \in 1..N : Size(w[i]) \in Nat
    BY SizePositive
  <1>2. d \in [1..N -> Nat]
    BY <1>1
  <1>3. PICK g \in [0..N -> Nat] : g[0] = 0 /\ \A i \in 1..N : g[i] = g[i - 1] + d[i]
    <2> HIDE DEF d, N
    <2> QED
      BY <1>1, <1>2, Sums
  <1>4. g = Body(g)
    <2>1. ASSUME NEW i \in 1..N PROVE g[i] = g[i - 1] + Size(w[i])
      BY <1>1, <1>3
    <2> QED
      BY <1>1, <1>3, <2>1
  <1>5. f = Body(f)
    <2> HIDE DEF Body
    <2> QED
      BY <1>4, Zenon
  <1>6. \A i : At(w, i) = f[i - 1]
    BY Zenon DEF At
  <1> HIDE DEF f
  <1>7. f[0] = 0 /\ \A i \in 1..N : f[i] = f[i - 1] + Size(w[i])
    BY <1>1, <1>5
  <1>8. \A i \in 0..N : f[i] \in Nat
    <2> DEFINE S == {i \in Nat : i <= N => f[i] \in Nat}
    <2>1. 0 \in S
      BY <1>7
    <2>2. \A i \in Nat : i \in S => i + 1 \in S
      BY <1>1, <1>7
    <2>3. Nat \subseteq S
      <3> HIDE DEF S
      <3> QED
        BY <2>1, <2>2, Induction
    <2> QED
      BY <1>1, <2>3
  <1>9. At(w, 1) = f[0] /\ \A i \in 1..N : At(w, i + 1) = f[i]
    BY <1>1, <1>6
  <1> HIDE DEF d, Body
  <1>10. ASSUME NEW i \in 1..(N + 1) PROVE At(w, i) \in Nat
    BY <1>1, <1>6, <1>8
  <1>11. ASSUME NEW i \in 1..N PROVE At(w, i + 1) = At(w, i) + Size(w[i])
    BY <1>1, <1>6, <1>7, <1>9
  <1> QED
    BY <1>7, <1>9, <1>10, <1>11

\* Later messages start later, by at least a header.
LEMMA AtGrows ==
    ASSUME NEW w \in Seq(Messages), NEW i \in 1..(Len(w) + 1), NEW j \in 1..(Len(w) + 1), i < j
    PROVE  At(w, i) + HEADER_SIZE <= At(w, j)
  <1> DEFINE S == {n \in Nat : i + 1 + n <= Len(w) + 1 =>
                                 At(w, i) + HEADER_SIZE <= At(w, i + 1 + n)}
  <1>0. Len(w) \in Nat /\ HEADER_SIZE = 3
    BY DEF HEADER_SIZE
  <1>1. ASSUME NEW n \in 1..Len(w) PROVE At(w, n + 1) >= At(w, n) + HEADER_SIZE
    <2>1. Size(w[n]) \in Nat /\ Size(w[n]) >= HEADER_SIZE
      BY SizePositive
    <2> QED
      BY <1>0, <2>1, AtDef
  <1>2. \A n \in 1..(Len(w) + 1) : At(w, n) \in Nat
    BY AtDef
  <1>3. 0 \in S
    BY <1>0, <1>1, <1>2
  <1>4. ASSUME NEW n \in Nat, n \in S PROVE n + 1 \in S
    <2> SUFFICES ASSUME i + 1 + (n + 1) <= Len(w) + 1
                 PROVE  At(w, i) + HEADER_SIZE <= At(w, i + 1 + (n + 1))
      OBVIOUS
    <2> DEFINE m == i + 1 + n
    <2>1. m \in 1..Len(w) /\ m \in 1..(Len(w) + 1) /\ i + 1 + (n + 1) = m + 1
      BY <1>0
    <2>2. At(w, i) + HEADER_SIZE <= At(w, m)
      BY <1>0, <1>4
    <2>3. At(w, m + 1) >= At(w, m) + HEADER_SIZE /\ At(w, m) \in Nat /\ At(w, m + 1) \in Nat
      BY <1>0, <1>1, <1>2, <2>1
    <2>4. At(w, i) \in Nat
      BY <1>2
    <2> HIDE DEF m
    <2> QED
      BY <1>0, <2>1, <2>2, <2>3, <2>4
  <1>5. Nat \subseteq S
    <2> HIDE DEF S
    <2> QED
      BY <1>3, <1>4, Induction
  <1>6. j - i - 1 \in S /\ i + 1 + (j - i - 1) = j
    <2>1. j - i - 1 \in Nat
      OBVIOUS
    <2> HIDE DEF S
    <2> QED
      BY <1>5, <2>1
  <1> QED
    BY <1>0, <1>6

\* Where a message starts tells which message it is.
LEMMA AtOrder ==
    ASSUME NEW w \in Seq(Messages), NEW i \in 1..(Len(w) + 1), NEW j \in 1..(Len(w) + 1)
    PROVE  /\ At(w, i) <= At(w, j) <=> i <= j
           /\ At(w, i) = At(w, j) <=> i = j
  <1>1. At(w, i) \in Nat /\ At(w, j) \in Nat /\ HEADER_SIZE = 3
    BY AtDef DEF HEADER_SIZE
  <1>2. i < j => At(w, i) + 3 <= At(w, j)
    BY <1>1, AtGrows
  <1>3. j < i => At(w, j) + 3 <= At(w, i)
    BY <1>1, AtGrows
  <1> QED
    BY <1>1, <1>2, <1>3

\* Where a message starts depends only on the messages before it.
LEMMA AtPrefix ==
    ASSUME NEW w \in Seq(Messages), NEW v \in Seq(Messages), NEW n \in Nat,
           n <= Len(w), n <= Len(v), \A i \in 1..n : w[i] = v[i],
           NEW i \in 1..(n + 1)
    PROVE  At(w, i) = At(v, i)
  <1> DEFINE S == {m \in Nat : m <= n => At(w, m + 1) = At(v, m + 1)}
  <1>0. Len(w) \in Nat /\ Len(v) \in Nat
    OBVIOUS
  <1>1. 0 \in S
    BY AtDef
  <1>2. ASSUME NEW m \in Nat, m \in S PROVE m + 1 \in S
    <2>0. SUFFICES ASSUME m + 1 <= n PROVE At(w, (m + 1) + 1) = At(v, (m + 1) + 1)
      OBVIOUS
    <2>1. m + 1 \in 1..Len(w) /\ m + 1 \in 1..Len(v) /\ m + 1 \in 1..n
      BY <1>0, <2>0
    <2>2. At(w, m + 1) = At(v, m + 1)
      BY <1>2, <2>0
    <2>3. At(w, (m + 1) + 1) = At(w, m + 1) + Size(w[m + 1])
      BY <2>1, AtDef
    <2>4. At(v, (m + 1) + 1) = At(v, m + 1) + Size(v[m + 1])
      BY <2>1, AtDef
    <2>5. w[m + 1] = v[m + 1]
      BY <2>1
    <2> QED
      BY <2>2, <2>3, <2>4, <2>5
  <1>3. Nat \subseteq S
    <2> HIDE DEF S
    <2> QED
      BY <1>1, <1>2, Induction
  <1>4. i - 1 \in Nat /\ i - 1 <= n /\ (i - 1) + 1 = i
    OBVIOUS
  <1> QED
    BY <1>3, <1>4

LEMMA StartIsAt == (\A i : Start(i) = At(wire, i)) /\ End = At(wire, Len(wire) + 1)
  BY Zenon DEF Start, At, End

-----------------------------------------------------------------------------
(* The inductive invariant *)

IsData(m) == m.cmd = "RTDE_DATA_PACKAGE"
Places == [package : Nat, from : Nat, words : Nat]

TypeInv ==
    /\ wire \in Seq(Messages)
    /\ made \in Nat /\ made <= MaxPackages
    /\ base \in Nat /\ top \in Nat
    /\ pc \in {"read", "loop", "store"}
    /\ packet \in Messages
    /\ k \in Nat /\ k >= 1 /\ offset \in Nat
    /\ locked \in BOOLEAN /\ (locked <=> pc = "store")
    /\ first \in BOOLEAN
    /\ state \in [KnownNames -> Places]
    /\ seen \in Seq(Decodable \X Places)

\* The packages on the wire are numbered as they were made.
OrderInv ==
    /\ \A i \in DOMAIN wire : IsData(wire[i]) => wire[i].package >= 1 /\ wire[i].package <= made
    /\ \A i, j \in DOMAIN wire :
          (i < j /\ IsData(wire[i]) /\ IsData(wire[j])) => wire[i].package < wire[j].package

\* buffer_ begins where a message begins and ends within what was sent.
AlignInv ==
    /\ \E i \in 1..(Len(wire) + 1) : base = At(wire, i)
    /\ base <= top /\ top <= At(wire, Len(wire) + 1)

\* receiveData returns only when no message is complete.
QuietInv ==
    pc = "read" => ~ \E i \in DOMAIN wire :
                        base = At(wire, i) /\ top - base >= Size(wire[i])

\* The package in hand is the message in front of buffer_; the variables up to
\* k are its own, as long as every name so far was known.
StoreInv ==
    pc = "store" =>
        /\ \E i \in DOMAIN wire : packet = wire[i] /\ IsData(wire[i]) /\ base = At(wire, i + 1)
        /\ 1..(k - 1) \subseteq Known => offset = RECIPE_ID + DataWords[k - 1]
        /\ k <= Len(OutputNames) + 1
        /\ \A j \in Known : (j < k /\ 1..j \subseteq Known) =>
              state[OutputNames[j]] = Own(packet.package, OutputNames[j])

\* When buffer_ is empty behind a data package, that package is shown.
ShownInv ==
    (pc # "store" /\ base = top) =>
        \A i \in DOMAIN wire : (IsData(wire[i]) /\ base = At(wire, i + 1)) =>
            \A n \in Decodable : state[n] = Own(wire[i].package, n)

\* A variable is made of its own bytes, or was never stored; what is still in
\* buffer_ or on the wire is newer.
FreshInv ==
    \A n \in Decodable :
        /\ state[n] = Default \/ (state[n].package >= 1 /\ state[n] = Own(state[n].package, n))
        /\ state[n].package <= made
        /\ \A i \in DOMAIN wire : (IsData(wire[i]) /\ base <= At(wire, i)) =>
              state[n].package < wire[i].package

\* Once the first state was received every variable of the table was stored.
FirstInv ==
    /\ first => \A n \in KnownNames : state[n].package > 0
    /\ pc = "store" => /\ IsData(packet) /\ packet.package >= 1
                       /\ \A j \in Known : j < k => state[OutputNames[j]].package > 0

StreamInv == TypeInv /\ OrderInv /\ AlignInv /\ QuietInv /\ StoreInv /\ ShownInv /\ FreshInv

LEMMA MessagesMade ==
    /\ \A p \in Nat : Data(p) \in Messages /\ IsData(Data(p)) /\ Data(p).package = p
    /\ Text \in Messages /\ ~ IsData(Text)
    /\ Version \in Messages /\ ~ IsData(Version)
    /\ \A p, f, w \in Nat : Place(p, f, w) \in Places /\ Place(p, f, w).package = p
    /\ Default \in Places /\ Default.package = 0
  BY DEF Data, Text, Version, Messages, IsData, Place, Places, Default

LEMMA NamesKnown ==
    /\ Decodable \subseteq KnownNames
    /\ \A j \in Known : j \in 1..Len(OutputNames) /\ OutputNames[j] \in KnownNames
                       /\ Words(OutputNames[j]) \in Nat
    /\ \A i, j \in 1..Len(OutputNames) : OutputNames[i] = OutputNames[j] => i = j
    /\ \A i \in 1..Len(OutputNames) : OutputNames[i] \in StateTypes => i \in Known
  BY RecipeAssumption, WordsPositive DEF Decodable, KnownNames, Known, IsInjective

LEMMA TypeInit == Init => TypeInv
  <1> SUFFICES ASSUME Init PROVE TypeInv
    OBVIOUS
  <1>1. MaxPackages \in Nat
    BY BoundsAssumption
  <1>2. wire \in Seq(Messages) /\ seen \in Seq(Decodable \X Places)
    BY DEF Init
  <1>3. state \in [KnownNames -> Places] /\ packet \in Messages
    BY MessagesMade DEF Init
  <1>4. /\ made \in Nat /\ made <= MaxPackages /\ base \in Nat /\ top \in Nat
        /\ k \in Nat /\ k >= 1 /\ offset \in Nat /\ pc = "read"
    BY <1>1 DEF Init
  <1>5. locked = FALSE /\ first = FALSE
    BY DEF Init
  <1> QED
    BY <1>2, <1>3, <1>4, <1>5 DEF TypeInv

\* v is w with message m behind it.
IsAppended(v, w, m) ==
    /\ v \in Seq(Messages) /\ Len(v) = Len(w) + 1
    /\ \A i \in 1..Len(w) : v[i] = w[i]
    /\ v[Len(w) + 1] = m
    /\ \A i \in 1..(Len(w) + 1) : At(v, i) = At(w, i)

\* v is w without message r and with message m behind it.
IsReplaced(v, w, r, m) ==
    /\ v \in Seq(Messages) /\ Len(v) = Len(w)
    /\ \A i \in 1..(r - 1) : v[i] = w[i]
    /\ \A i \in r..(Len(w) - 1) : v[i] = w[i + 1]
    /\ v[Len(w)] = m
    /\ \A i \in 1..r : At(v, i) = At(w, i)

LEMMA AppendWire ==
    ASSUME NEW w \in Seq(Messages), NEW m \in Messages
    PROVE  IsAppended(Append(w, m), w, m)
  <1> DEFINE v == Append(w, m)
  <1>1. v \in Seq(Messages) /\ Len(v) = Len(w) + 1 /\ (\A i \in 1..Len(w) : v[i] = w[i])
        /\ v[Len(w) + 1] = m /\ Len(w) \in Nat
    OBVIOUS
  <1>2. ASSUME NEW i \in 1..(Len(w) + 1) PROVE At(w, i) = At(v, i)
    <2> DEFINE n == Len(w)
    <2>1. n \in Nat /\ n <= Len(w) /\ n <= Len(v) /\ (\A j \in 1..n : w[j] = v[j]) /\ i \in 1..(n + 1)
      BY <1>1
    <2> HIDE DEF n
    <2> QED
      BY <1>1, <2>1, AtPrefix
  <1> QED
    BY <1>1, <1>2 DEF IsAppended

LEMMA RemoveWire ==
    ASSUME NEW w \in Seq(Messages), NEW m \in Messages, NEW r \in 1..Len(w)
    PROVE  IsReplaced(Append(RemoveAt(w, r), m), w, r, m)
  <1> DEFINE v == Append(RemoveAt(w, r), m)
  <1> DEFINE a == SubSeq(w, 1, r - 1)  b == SubSeq(w, r + 1, Len(w))
  <1>0. Len(w) \in Nat /\ r - 1 \in Nat
    OBVIOUS
  <1>1. a \in Seq(Messages) /\ Len(a) = r - 1 /\ \A i \in 1..(r - 1) : a[i] = w[i]
    BY <1>0
  <1>2. b \in Seq(Messages) /\ Len(b) = Len(w) - r /\ \A i \in 1..(Len(w) - r) : b[i] = w[r + i]
    BY <1>0
  <1>3. RemoveAt(w, r) = a \o b
    BY DEF RemoveAt
  <1> HIDE DEF a, b
  <1>4. /\ a \o b \in Seq(Messages) /\ Len(a \o b) = Len(w) - 1
        /\ \A i \in 1..(r - 1) : (a \o b)[i] = w[i]
        /\ \A i \in r..(Len(w) - 1) : (a \o b)[i] = w[i + 1]
    <2>0. a \in Seq(Messages) /\ b \in Seq(Messages)
      BY <1>1, <1>2
    <2>1. a \o b \in Seq(Messages) /\ Len(a \o b) = Len(w) - 1
      <3>1. a \o b \in Seq(Messages) /\ Len(a \o b) = Len(a) + Len(b)
        BY <2>0
      <3> QED
        BY <1>0, <1>1, <1>2, <3>1
    <2>2. ASSUME NEW i \in 1..(r - 1) PROVE (a \o b)[i] = w[i]
      BY <1>0, <1>1, <1>2
    <2>3. ASSUME NEW i \in r..(Len(w) - 1) PROVE (a \o b)[i] = w[i + 1]
      <3>1. i > Len(a) /\ i - Len(a) = i - r + 1 /\ i - r + 1 \in 1..(Len(w) - r) /\ i <= Len(a) + Len(b)
        BY <1>0, <1>1, <1>2
      <3>2. (a \o b)[i] = b[i - r + 1]
        BY <1>0, <1>1, <1>2, <3>1
      <3> QED
        BY <1>0, <1>2, <3>1, <3>2
    <2> QED
      BY <2>1, <2>2, <2>3
  <1>5. /\ v \in Seq(Messages) /\ Len(v) = Len(w)
        /\ \A i \in 1..(r - 1) : v[i] = w[i]
        /\ \A i \in r..(Len(w) - 1) : v[i] = w[i + 1]
        /\ v[Len(w)] = m
    BY <1>0, <1>3, <1>4
  <1>6. ASSUME NEW i \in 1..r PROVE At(w, i) = At(v, i)
    <2> DEFINE n == r - 1
    <2>1. n \in Nat /\ n <= Len(w) /\ n <= Len(v) /\ (\A j \in 1..n : w[j] = v[j]) /\ i \in 1..(n + 1)
      BY <1>0, <1>5
    <2> HIDE DEF n
    <2> QED
      BY <1>5, <2>1, AtPrefix
  <1> QED
    BY <1>5, <1>6 DEF IsReplaced

(* The controller's steps, and GetRtdeFrequency's *)

\* What happens to the wire behind the bytes that buffer_ has does not touch
\* the place of the receive thread.
LEMMA WireChanges ==
    ASSUME TypeInv, AlignInv, QuietInv, StoreInv, ShownInv,
           NEW r \in 1..(Len(wire) + 1), top <= At(wire, r),
           wire' \in Seq(Messages), r <= Len(wire') + 1,
           \A i \in 1..(r - 1) : wire'[i] = wire[i],
           \A i \in 1..r : At(wire', i) = At(wire, i),
           UNCHANGED <<base, top, pc, packet, k, offset, state>>
    PROVE  AlignInv' /\ QuietInv' /\ StoreInv' /\ ShownInv'
  <1>0. /\ wire \in Seq(Messages) /\ base \in Nat /\ top \in Nat /\ base <= top
        /\ Len(wire) \in Nat /\ Len(wire') \in Nat /\ r \in 1..(Len(wire') + 1)
        /\ (\A i \in 1..(Len(wire) + 1) : At(wire, i) \in Nat)
        /\ (\A i \in 1..(Len(wire') + 1) : At(wire', i) \in Nat)
        /\ DOMAIN wire = 1..Len(wire) /\ DOMAIN wire' = 1..Len(wire')
    BY AtDef DEF TypeInv, AlignInv
  <1>1. ASSUME NEW i \in 1..(Len(wire') + 1), At(wire', i) <= top
        PROVE  i <= r
    BY <1>0, <1>1, AtOrder
  <1>2. ASSUME NEW i \in 1..(Len(wire) + 1), At(wire, i) <= top
        PROVE  i <= r
    BY <1>0, <1>2, AtOrder
  <1>3. AlignInv'
    <2>1. PICK i \in 1..(Len(wire) + 1) : base = At(wire, i)
      BY DEF AlignInv
    <2>2. i <= r
      BY <1>0, <1>2, <2>1
    <2>3. base' = At(wire', i) /\ i \in 1..(Len(wire') + 1)
      BY <1>0, <2>1, <2>2
    <2>4. top' <= At(wire', Len(wire') + 1)
      <3>1. Len(wire') + 1 \in 1..(Len(wire') + 1) /\ r <= Len(wire') + 1
        BY <1>0
      <3>2. At(wire', r) <= At(wire', Len(wire') + 1)
        BY <1>0, <3>1, AtOrder
      <3>3. At(wire', r) = At(wire, r) /\ At(wire', r) \in Nat /\ At(wire', Len(wire') + 1) \in Nat
        BY <1>0, <3>1
      <3> QED
        BY <1>0, <3>2, <3>3
    <2> QED
      BY <1>0, <2>3, <2>4 DEF AlignInv
  <1>4. QuietInv'
    <2> SUFFICES ASSUME pc = "read", NEW i \in DOMAIN wire',
                        base = At(wire', i), top - base >= Size(wire'[i])
                 PROVE  FALSE
      BY DEF QuietInv
    <2>1. i <= r
      BY <1>0, <1>1
    <2>2. CASE i = r
      <3>1. Size(wire'[i]) >= 3 /\ Size(wire'[i]) \in Nat
        BY <1>0, SizePositive DEF HEADER_SIZE
      <3>2. base = At(wire, r) /\ At(wire, r) \in Nat
        BY <1>0, <2>2
      <3> QED
        BY <1>0, <3>1, <3>2
    <2>3. CASE i < r
      <3>1. i \in DOMAIN wire /\ base = At(wire, i) /\ wire[i] = wire'[i]
        BY <1>0, <2>3
      <3> QED
        BY <3>1 DEF QuietInv
    <2> QED
      BY <1>0, <2>1, <2>2, <2>3
  <1>5. ASSUME NEW i \in DOMAIN wire, base = At(wire, i + 1)
        PROVE  i \in DOMAIN wire' /\ wire'[i] = wire[i] /\ base = At(wire', i + 1)
    <2>1. i + 1 <= r
      BY <1>0, <1>2, <1>5
    <2> QED
      BY <1>0, <1>5, <2>1
  <1>6. ASSUME NEW i \in DOMAIN wire', base = At(wire', i + 1)
        PROVE  i \in DOMAIN wire /\ wire'[i] = wire[i] /\ base = At(wire, i + 1)
    <2>1. i + 1 <= r
      BY <1>0, <1>1, <1>6
    <2> QED
      BY <1>0, <1>6, <2>1
  <1>7. StoreInv'
    <2> SUFFICES ASSUME pc = "store" PROVE StoreInv'
      BY DEF StoreInv
    <2>1. PICK i \in DOMAIN wire : packet = wire[i] /\ IsData(wire[i]) /\ base = At(wire, i + 1)
      BY DEF StoreInv
    <2>2. i \in DOMAIN wire' /\ packet' = wire'[i] /\ IsData(wire'[i]) /\ base' = At(wire', i + 1)
      BY <1>5, <2>1
    <2> QED
      BY <2>2 DEF StoreInv
  <1>8. ShownInv'
    <2> SUFFICES ASSUME pc # "store", base = top, NEW i \in DOMAIN wire',
                        IsData(wire'[i]), base = At(wire', i + 1), NEW n \in Decodable
                 PROVE  state[n] = Own(wire'[i].package, n)
      BY DEF ShownInv
    <2> QED
      BY <1>6 DEF ShownInv
  <1> QED
    BY <1>3, <1>4, <1>7, <1>8

\* Packages that are sent are newer than what was sent before, packages that
\* stay on the wire keep their order.  src tells where a message was before.
LEMMA PackagesChange ==
    ASSUME TypeInv, OrderInv, FreshInv,
           wire' \in Seq(Messages), made' \in Nat, made <= made', UNCHANGED <<base, state>>,
           NEW src,
           \A i \in DOMAIN wire' : IsData(wire'[i]) =>
               \/ /\ src[i] \in DOMAIN wire /\ wire'[i] = wire[src[i]]
                  /\ base <= At(wire', i) => base <= At(wire, src[i])
               \/ i = Len(wire') /\ made' = made + 1 /\ wire'[i].package = made',
           \A i, j \in DOMAIN wire' : i < j => src[i] < src[j]
    PROVE  OrderInv' /\ FreshInv'
  <1> DEFINE Old(i) == /\ src[i] \in DOMAIN wire /\ wire'[i] = wire[src[i]]
                       /\ base <= At(wire', i) => base <= At(wire, src[i])
             New(i) == i = Len(wire') /\ made' = made + 1 /\ wire'[i].package = made'
  <1>0. made \in Nat /\ wire \in Seq(Messages) /\ DOMAIN wire = 1..Len(wire) /\ Len(wire) \in Nat
        /\ DOMAIN wire' = 1..Len(wire') /\ Len(wire') \in Nat
    BY DEF TypeInv
  <1>1. ASSUME NEW i \in DOMAIN wire', IsData(wire'[i]) PROVE Old(i) \/ New(i)
    BY <1>1
  <1>2. ASSUME NEW i \in DOMAIN wire', IsData(wire'[i]), Old(i)
        PROVE  wire'[i].package \in Nat /\ wire'[i].package >= 1 /\ wire'[i].package <= made
    <2>1. wire'[i] \in Messages
      BY <1>0
    <2>2. wire'[i].package \in Nat
      BY <2>1 DEF Messages
    <2>3. wire[src[i]].package >= 1 /\ wire[src[i]].package <= made
      BY <1>2 DEF OrderInv
    <2> QED
      BY <1>2, <2>2, <2>3
  <1>3. OrderInv'
    <2>1. ASSUME NEW i \in DOMAIN wire', IsData(wire'[i])
          PROVE  wire'[i].package >= 1 /\ wire'[i].package <= made'
      <3>1. CASE Old(i)
        BY <1>0, <1>2, <2>1, <3>1
      <3>2. CASE New(i)
        BY <1>0, <3>2
      <3> QED
        BY <1>1, <2>1, <3>1, <3>2
    <2>2. ASSUME NEW i \in DOMAIN wire', NEW j \in DOMAIN wire', i < j,
                 IsData(wire'[i]), IsData(wire'[j])
          PROVE  wire'[i].package < wire'[j].package
      <3>1. Old(i)
        BY <1>0, <1>1, <2>2
      <3>2. CASE Old(j)
        <4>1. src[i] < src[j] /\ src[i] \in DOMAIN wire /\ src[j] \in DOMAIN wire
          BY <2>2, <3>1, <3>2
        <4> QED
          BY <2>2, <3>1, <3>2, <4>1 DEF OrderInv
      <3>3. CASE New(j)
        BY <1>0, <1>2, <2>2, <3>1, <3>3
      <3> QED
        BY <1>1, <2>2, <3>2, <3>3
    <2> QED
      BY <2>1, <2>2 DEF OrderInv
  <1>4. FreshInv'
    <2> SUFFICES ASSUME NEW n \in Decodable
                 PROVE  /\ state[n] = Default \/ (state[n].package >= 1 /\ state[n] = Own(state[n].package, n))
                        /\ state[n].package <= made'
                        /\ \A i \in DOMAIN wire' : (IsData(wire'[i]) /\ base <= At(wire', i)) =>
                              state[n].package < wire'[i].package
      BY DEF FreshInv
    <2>0. state[n] \in Places
      BY NamesKnown DEF TypeInv
    <2>1. state[n].package \in Nat /\ state[n].package <= made
      BY <2>0 DEF FreshInv, Places
    <2>2. ASSUME NEW i \in DOMAIN wire', IsData(wire'[i]), base <= At(wire', i)
          PROVE  state[n].package < wire'[i].package
      <3>1. CASE Old(i)
        BY <2>2, <3>1 DEF FreshInv
      <3>2. CASE New(i)
        BY <1>0, <2>1, <3>2
      <3> QED
        BY <1>1, <2>2, <3>1, <3>2
    <2>3. state[n] = Default \/ (state[n].package >= 1 /\ state[n] = Own(state[n].package, n))
      BY DEF FreshInv
    <2> QED
      BY <1>0, <2>1, <2>2, <2>3
  <1> QED
    BY <1>3, <1>4

\* A message is appended to the wire: a data package with the next number, or
\* another message.
LEMMA AppendStep ==
    ASSUME StreamInv, NEW m \in Messages, wire' = Append(wire, m),
           UNCHANGED <<base, top, pc, packet, k, offset, state>>,
           made' \in Nat, made <= made',
           IsData(m) => made' = made + 1 /\ m.package = made'
    PROVE  OrderInv' /\ AlignInv' /\ QuietInv' /\ StoreInv' /\ ShownInv' /\ FreshInv'
  <1>0. wire \in Seq(Messages) /\ Len(wire) \in Nat /\ DOMAIN wire = 1..Len(wire)
    BY DEF StreamInv, TypeInv
  <1>1. /\ wire' \in Seq(Messages) /\ Len(wire') = Len(wire) + 1
        /\ \A i \in 1..Len(wire) : wire'[i] = wire[i]
        /\ wire'[Len(wire) + 1] = m
        /\ \A i \in 1..(Len(wire) + 1) : At(wire', i) = At(wire, i)
    <2>1. IsAppended(wire', wire, m)
      BY <1>0, AppendWire
    <2> QED
      BY <2>1, Zenon DEF IsAppended
  <1>2. AlignInv' /\ QuietInv' /\ StoreInv' /\ ShownInv'
    <2> DEFINE r == Len(wire) + 1
    <2>1. /\ r \in 1..(Len(wire) + 1) /\ top <= At(wire, r) /\ r <= Len(wire') + 1
          /\ (\A i \in 1..(r - 1) : wire'[i] = wire[i])
          /\ (\A i \in 1..r : At(wire', i) = At(wire, i))
      BY <1>0, <1>1 DEF StreamInv, AlignInv
    <2> HIDE DEF r
    <2> QED
      BY <1>1, <2>1, WireChanges DEF StreamInv
  <1>3. OrderInv' /\ FreshInv'
    <2> DEFINE src == [i \in DOMAIN wire' |-> i]
    <2>0. DOMAIN wire' = 1..(Len(wire) + 1)
      BY <1>0, <1>1
    <2>1. ASSUME NEW i \in DOMAIN wire', IsData(wire'[i])
          PROVE  \/ /\ src[i] \in DOMAIN wire /\ wire'[i] = wire[src[i]]
                    /\ base <= At(wire', i) => base <= At(wire, src[i])
                 \/ i = Len(wire') /\ made' = made + 1 /\ wire'[i].package = made'
      BY <1>0, <1>1, <2>0, <2>1
    <2>2. \A i, j \in DOMAIN wire' : i < j => src[i] < src[j]
      OBVIOUS
    <2> HIDE DEF src
    <2> QED
      BY <1>1, <2>1, <2>2, PackagesChange DEF StreamInv
  <1> QED
    BY <1>2, <1>3

\* getRtdeFrequency takes the next message for the answer to its request.
LEMMA RemovedStep ==
    ASSUME StreamInv, NEW r \in DOMAIN wire, top = At(wire, r),
           IsReplaced(wire', wire, r, Version),
           UNCHANGED <<base, top, pc, packet, k, offset, state>>, made' = made
    PROVE  OrderInv' /\ AlignInv' /\ QuietInv' /\ StoreInv' /\ ShownInv' /\ FreshInv'
  <1>1. /\ wire' \in Seq(Messages) /\ Len(wire') = Len(wire)
        /\ \A i \in 1..(r - 1) : wire'[i] = wire[i]
        /\ \A i \in r..(Len(wire) - 1) : wire'[i] = wire[i + 1]
        /\ wire'[Len(wire)] = Version
        /\ \A i \in 1..r : At(wire', i) = At(wire, i)
    BY Zenon DEF IsReplaced
  <1>0. /\ wire \in Seq(Messages) /\ Len(wire) \in Nat /\ DOMAIN wire = 1..Len(wire)
        /\ made \in Nat /\ Version \in Messages /\ ~ IsData(Version)
    BY MessagesMade DEF StreamInv, TypeInv
  <1>2. AlignInv' /\ QuietInv' /\ StoreInv' /\ ShownInv'
    <2>0. At(wire, r) \in Nat
      BY <1>0, <1>1, AtDef
    <2>1. r \in 1..(Len(wire) + 1) /\ top <= At(wire, r) /\ r <= Len(wire') + 1
      BY <1>0, <1>1, <2>0
    <2> QED
      BY <1>1, <2>1, WireChanges DEF StreamInv
  <1>3. OrderInv' /\ FreshInv'
    <2> DEFINE src == [i \in DOMAIN wire' |-> IF i < r THEN i ELSE i + 1]
    <2>0. DOMAIN wire' = 1..Len(wire)
      BY <1>0, <1>1
    <2>3. base \in Nat /\ (\A i \in 1..(Len(wire) + 1) : At(wire, i) \in Nat) /\ base <= top
      BY <1>0, <1>1, AtDef DEF StreamInv, TypeInv, AlignInv
    <2>1. ASSUME NEW i \in DOMAIN wire', IsData(wire'[i])
          PROVE  \/ /\ src[i] \in DOMAIN wire /\ wire'[i] = wire[src[i]]
                    /\ base <= At(wire', i) => base <= At(wire, src[i])
                 \/ i = Len(wire') /\ made' = made + 1 /\ wire'[i].package = made'
      <3>1. i # Len(wire) /\ i \in 1..Len(wire)
        BY <1>0, <1>1, <2>0, <2>1
      <3>2. CASE i < r
        BY <1>0, <1>1, <2>0, <3>1, <3>2
      <3>3. CASE ~ (i < r)
        <4>1. src[i] = i + 1 /\ i + 1 \in DOMAIN wire /\ wire'[i] = wire[i + 1] /\ r <= i + 1
          BY <1>0, <1>1, <2>0, <3>1, <3>3
        <4>2. At(wire, r) <= At(wire, i + 1)
          BY <1>0, <1>1, <4>1, AtOrder
        <4>3. base <= At(wire, i + 1)
          BY <1>0, <1>1, <2>3, <4>1, <4>2
        <4> QED
          BY <4>1, <4>3
      <3> QED
        BY <3>2, <3>3
    <2>2. \A i, j \in DOMAIN wire' : i < j => src[i] < src[j]
      BY <1>0, <1>1, <2>0
    <2> HIDE DEF src
    <2> QED
      BY <1>0, <1>1, <2>1, <2>2, PackagesChange DEF StreamInv
  <1> QED
    BY <1>2, <1>3

LEMMA RemoveStep ==
    ASSUME StreamInv, NEW r \in DOMAIN wire, top = At(wire, r),
           wire' = Append(RemoveAt(wire, r), Version),
           UNCHANGED <<base, top, pc, packet, k, offset, state>>, made' = made
    PROVE  OrderInv' /\ AlignInv' /\ QuietInv' /\ StoreInv' /\ ShownInv' /\ FreshInv'
  <1>a. wire \in Seq(Messages)
    BY DEF StreamInv, TypeInv
  <1>b. DOMAIN wire = 1..Len(wire)
    BY <1>a
  <1>0. wire \in Seq(Messages) /\ r \in 1..Len(wire) /\ Version \in Messages
    BY <1>a, <1>b, MessagesMade, Zenon
  <1>1. IsReplaced(wire', wire, r, Version)
    BY <1>0, RemoveWire
  <1> QED
    BY <1>1, RemovedStep

(* The steps of receiveData *)

\* The bytes of the j-th variable are where the loop over output_names_ looks
\* for them when it has passed over no name.
LEMMA OwnPlace ==
    ASSUME NEW j \in 1..Len(OutputNames), NEW p
    PROVE  Own(p, OutputNames[j]) = Place(p, RECIPE_ID + DataWords[j - 1], Words(OutputNames[j]))
  <1> DEFINE n == OutputNames[j]
             c == CHOOSE i \in DOMAIN OutputNames : OutputNames[i] = n
  <1>1. DOMAIN OutputNames = 1..Len(OutputNames)
    BY RecipeAssumption
  <1>2. c \in DOMAIN OutputNames /\ OutputNames[c] = n
    BY <1>1
  <1> HIDE DEF c
  <1>3. c = j
    BY <1>1, <1>2, NamesKnown
  <1>4. n \in Range(OutputNames)
    BY <1>1 DEF Range
  <1>5. OwnFrom[n] = RECIPE_ID + DataWords[c - 1]
    BY <1>4 DEF OwnFrom, c
  <1> QED
    BY <1>3, <1>5 DEF Own, ControllerWords

LEMMA OwnPackage == \A p, n : Own(p, n).package = p
  BY DEF Own, Place

LEMMA DecodableIndex ==
    ASSUME NEW n \in Decodable
    PROVE  \E j \in Known : /\ n = OutputNames[j] /\ 1..j \subseteq Known
                           /\ j \in 1..Len(OutputNames)
  BY NamesKnown DEF Decodable

LEMMA ReadSomeStep ==
    ASSUME StreamInv, ReadSome PROVE StreamInv'
  <1>0. /\ wire \in Seq(Messages) /\ base \in Nat /\ top \in Nat /\ base <= top
        /\ At(wire, Len(wire) + 1) \in Nat
    BY AtDef DEF StreamInv, TypeInv, AlignInv
  <1>1. PICK n \in 1..(At(wire, Len(wire) + 1) - top) : top' = top + n
    BY StartIsAt DEF ReadSome
  <1>2. top' \in Nat /\ top' <= At(wire, Len(wire) + 1) /\ base < top'
    BY <1>0, <1>1
  <1>3. UNCHANGED <<wire, made, base, packet, k, offset, locked, state, first, seen>>
        /\ pc' = "loop" /\ pc = "read"
    BY DEF ReadSome
  <1>4. TypeInv'
    BY <1>2, <1>3 DEF StreamInv, TypeInv
  <1>5. OrderInv' /\ FreshInv'
    BY <1>3 DEF StreamInv, OrderInv, FreshInv
  <1>6. AlignInv'
    BY <1>0, <1>2, <1>3 DEF StreamInv, AlignInv
  <1>7. QuietInv' /\ StoreInv' /\ ShownInv'
    BY <1>0, <1>2, <1>3 DEF QuietInv, StoreInv, ShownInv
  <1> QED
    BY <1>4, <1>5, <1>6, <1>7 DEF StreamInv

\* A complete message is cut off the front of buffer_.
LEMMA CutMessage ==
    ASSUME StreamInv, NEW i \in DOMAIN wire, Complete(i),
           base' = base + Size(wire[i]), UNCHANGED <<wire, made, top, state>>
    PROVE  /\ OrderInv' /\ AlignInv' /\ FreshInv'
           /\ wire[i] \in Messages /\ base' \in Nat /\ base' = At(wire, i + 1)
           /\ top - (base + Size(wire[i])) >= HEADER_SIZE => base' # top'
  <1>0. /\ wire \in Seq(Messages) /\ base \in Nat /\ top \in Nat /\ i \in 1..Len(wire)
        /\ DOMAIN wire = 1..Len(wire) /\ Len(wire) \in Nat
        /\ \A j \in 1..(Len(wire) + 1) : At(wire, j) \in Nat
    BY AtDef DEF StreamInv, TypeInv
  <1>1. base = At(wire, i) /\ top - base >= Size(wire[i])
    BY StartIsAt DEF Complete
  <1>2. wire[i] \in Messages /\ Size(wire[i]) \in Nat
    BY <1>0, SizePositive
  <1>3. At(wire, i + 1) = At(wire, i) + Size(wire[i])
    BY <1>0, AtDef
  <1>4. base' \in Nat /\ base' = At(wire, i + 1) /\ base' <= top /\ base <= base'
    BY <1>0, <1>1, <1>2, <1>3
  <1>5. OrderInv'
    BY DEF StreamInv, OrderInv
  <1>6. AlignInv'
    <2>1. i + 1 \in 1..(Len(wire) + 1)
      BY <1>0
    <2> QED
      BY <1>4, <2>1 DEF StreamInv, AlignInv
  <1>7. FreshInv'
    <2>1. ASSUME NEW j \in DOMAIN wire, base' <= At(wire, j) PROVE base <= At(wire, j)
      BY <1>0, <1>4, <2>1
    <2> QED
      BY <2>1 DEF StreamInv, FreshInv
  <1>8. top - (base + Size(wire[i])) >= HEADER_SIZE => base' # top'
    BY <1>0, <1>2 DEF HEADER_SIZE
  <1> QED
    BY <1>2, <1>4, <1>5, <1>6, <1>7, <1>8

LEMMA TakeStep ==
    ASSUME StreamInv, Take PROVE StreamInv'
  <1>0. pc = "loop" /\ UNCHANGED <<wire, made, top, state>> /\ UNCHANGED <<first, seen>>
    BY DEF Take
  <1>1. PICK i \in DOMAIN wire :
          /\ Complete(i) /\ base' = base + Size(wire[i]) /\ packet' = wire[i]
          /\ IF IsData(wire[i])
             THEN pc' = "store" /\ k' = 1 /\ offset' = RECIPE_ID /\ locked' = TRUE
             ELSE UNCHANGED <<pc, k, offset, locked>>
    BY DEF Take, IsData
  <1>2. /\ OrderInv' /\ AlignInv' /\ FreshInv'
        /\ wire[i] \in Messages /\ base' \in Nat /\ base' = At(wire, i + 1)
    BY <1>0, <1>1, CutMessage
  <1>3. CASE IsData(wire[i])
    <2>1. pc' = "store" /\ k' = 1 /\ offset' = 1 /\ locked' = TRUE
      BY <1>1, <1>3 DEF RECIPE_ID
    <2>2. TypeInv'
      BY <1>0, <1>1, <1>2, <2>1 DEF StreamInv, TypeInv
    <2>3. StoreInv'
      <3>1. \A j \in Known : ~ (j < 1)
        BY NamesKnown
      <3>2. offset' = RECIPE_ID + DataWords[k' - 1]
        BY <2>1, DataWordsDef DEF RECIPE_ID
      <3>3. k' <= Len(OutputNames) + 1
        BY <2>1, RecipeAssumption
      <3>4. i \in DOMAIN wire' /\ packet' = wire'[i] /\ IsData(wire'[i]) /\ base' = At(wire', i + 1)
        BY <1>0, <1>1, <1>2, <1>3
      <3> QED
        BY <2>1, <3>1, <3>2, <3>3, <3>4 DEF StoreInv
    <2> QED
      BY <1>2, <2>1, <2>2, <2>3 DEF StreamInv, QuietInv, ShownInv
  <1>4. CASE ~ IsData(wire[i])
    <2>1. UNCHANGED <<pc, k, offset, locked>>
      BY <1>1, <1>4
    <2>2. TypeInv'
      BY <1>0, <1>1, <1>2, <2>1 DEF StreamInv, TypeInv
    <2>3. QuietInv' /\ StoreInv'
      BY <1>0, <2>1 DEF QuietInv, StoreInv
    <2>4. ShownInv'
      <3> SUFFICES ASSUME NEW j \in DOMAIN wire, IsData(wire[j]), base' = At(wire, j + 1)
                   PROVE  FALSE
        BY <1>0 DEF ShownInv
      <3>1. wire \in Seq(Messages) /\ i + 1 \in 1..(Len(wire) + 1) /\ j + 1 \in 1..(Len(wire) + 1)
        BY DEF StreamInv, TypeInv
      <3>2. i + 1 = j + 1
        BY <1>2, <3>1, AtOrder
      <3>3. i \in Int /\ j \in Int
        BY <3>1 DEF StreamInv, TypeInv
      <3> QED
        BY <1>4, <3>2, <3>3
    <2> QED
      BY <1>2, <2>2, <2>3, <2>4 DEF StreamInv
  <1> QED
    BY <1>3, <1>4

LEMMA SkipStep ==
    ASSUME StreamInv, Skip PROVE StreamInv'
  <1>0. pc = "loop" /\ UNCHANGED <<wire, made, top, state>>
        /\ UNCHANGED <<pc, k, offset, locked, first, seen>>
    BY DEF Skip
  <1>1. PICK i \in DOMAIN wire : /\ Complete(i) /\ base' = base + Size(wire[i]) /\ packet' = wire[i]
                                 /\ top - (base + Size(wire[i])) >= HEADER_SIZE
    BY DEF Skip, MayBeSkipped
  <1>2. /\ OrderInv' /\ AlignInv' /\ FreshInv'
        /\ wire[i] \in Messages /\ base' \in Nat /\ base' # top'
    BY <1>0, <1>1, CutMessage
  <1>3. TypeInv'
    BY <1>0, <1>1, <1>2 DEF StreamInv, TypeInv
  <1>4. QuietInv' /\ StoreInv' /\ ShownInv'
    BY <1>0, <1>2 DEF QuietInv, StoreInv, ShownInv
  <1> QED
    BY <1>2, <1>3, <1>4 DEF StreamInv

LEMMA ReturnStep ==
    ASSUME StreamInv, Return PROVE StreamInv'
  <1>0. pc = "loop" /\ pc' = "read" /\ ~ (\E i \in DOMAIN wire : Complete(i))
        /\ UNCHANGED <<wire, made, base, top, packet, k, offset, locked, state, first, seen>>
    BY DEF Return
  <1>1. QuietInv'
    <2> SUFFICES ASSUME NEW i \in DOMAIN wire, base = At(wire, i), top - base >= Size(wire[i])
                 PROVE  FALSE
      BY <1>0 DEF QuietInv
    <2>1. wire[i] \in Messages /\ base \in Nat /\ top \in Nat
      BY DEF StreamInv, TypeInv
    <2>2. top - base >= HEADER_SIZE
      BY <2>1, SizePositive DEF HEADER_SIZE
    <2>3. Complete(i)
      BY <2>2, StartIsAt DEF Complete
    <2> QED
      BY <1>0, <2>3
  <1>2. TypeInv'
    BY <1>0 DEF StreamInv, TypeInv
  <1>3. OrderInv' /\ AlignInv' /\ FreshInv'
    BY <1>0 DEF StreamInv, OrderInv, AlignInv, FreshInv
  <1>4. StoreInv' /\ ShownInv'
    BY <1>0 DEF StreamInv, StoreInv, ShownInv
  <1> QED
    BY <1>1, <1>2, <1>3, <1>4 DEF StreamInv

\* What the loop over output_names_ does in one turn.
LEMMA StoreStep ==
    ASSUME StreamInv, Store PROVE StreamInv'
  <1> DEFINE n == OutputNames[k]
             place == Place(packet.package, offset, Words(n))
  <1>0. /\ pc = "store" /\ k <= Len(OutputNames) /\ k' = k + 1
        /\ UNCHANGED <<wire, made, base, top, pc, packet, locked, first, seen>>
    BY DEF Store
  <1>1. k \in 1..Len(OutputNames) /\ offset \in Nat /\ packet.package \in Nat /\ made \in Nat
        /\ state \in [KnownNames -> Places] /\ Len(OutputNames) \in Nat
    BY <1>0, RecipeAssumption DEF StreamInv, TypeInv, Messages
  <1>2. PICK i \in DOMAIN wire : packet = wire[i] /\ IsData(wire[i]) /\ base = At(wire, i + 1)
    BY <1>0 DEF StreamInv, StoreInv
  <1>3. packet.package >= 1 /\ packet.package <= made
    BY <1>2 DEF StreamInv, OrderInv
  <1>4. \/ /\ n \in StateTypes /\ k \in Known /\ n \in KnownNames
           /\ state' = [state EXCEPT ![n] = place] /\ offset' = offset + Words(n)
           /\ Words(n) \in Nat /\ place \in Places
        \/ n \notin StateTypes /\ k \notin Known /\ UNCHANGED <<state, offset>>
    <2>1. CASE n \in StateTypes
      <3>1. k \in Known /\ n \in KnownNames /\ Words(n) \in Nat
        BY <1>1, <2>1, NamesKnown
      <3>2. place \in Places
        BY <1>1, <3>1, MessagesMade
      <3>3. state' = [state EXCEPT ![n] = place] /\ offset' = offset + Words(n)
        BY <2>1 DEF Store
      <3> QED
        BY <2>1, <3>1, <3>2, <3>3
    <2>2. CASE n \notin StateTypes
      BY <2>2 DEF Store, Known
    <2> QED
      BY <2>1, <2>2
  <1> HIDE DEF place
  <1>5. TypeInv'
    <2>1. state' \in [KnownNames -> Places] /\ offset' \in Nat
      BY <1>1, <1>4
    <2> QED
      BY <1>0, <1>1, <2>1 DEF StreamInv, TypeInv
  <1>6. ASSUME 1..k \subseteq Known
        PROVE  n \in StateTypes /\ place = Own(packet.package, n) /\ offset = RECIPE_ID + DataWords[k - 1]
    <2>1. k \in Known /\ 1..(k - 1) \subseteq Known
      BY <1>1, <1>6
    <2>2. offset = RECIPE_ID + DataWords[k - 1]
      BY <1>0, <2>1 DEF StreamInv, StoreInv
    <2> QED
      BY <1>1, <1>4, <2>1, <2>2, OwnPlace DEF place
  <1>7. ASSUME NEW j \in Known, j # k PROVE state'[OutputNames[j]] = state[OutputNames[j]]
    <2>1. OutputNames[j] # n /\ OutputNames[j] \in KnownNames
      BY <1>1, <1>7, NamesKnown
    <2> QED
      BY <1>1, <1>4, <2>1
  <1>8. ASSUME k \in Known PROVE state'[n] = place
    BY <1>1, <1>4, <1>8
  <1>9. StoreInv'
    <2>1. ASSUME 1..(k' - 1) \subseteq Known PROVE offset' = RECIPE_ID + DataWords[k' - 1]
      <3>1. 1..k \subseteq Known /\ k' - 1 = k
        BY <1>0, <1>1, <2>1
      <3>2. offset' = offset + Words(n) /\ Words(n) \in Nat
        BY <1>4, <1>6, <3>1
      <3>3. DataWords[k] = DataWords[k - 1] + Words(n) /\ DataWords[k - 1] \in Nat
        BY <1>1, DataWordsDef
      <3> QED
        BY <1>6, <3>1, <3>2, <3>3 DEF RECIPE_ID
    <2>2. ASSUME NEW j \in Known, j < k', 1..j \subseteq Known
          PROVE  state'[OutputNames[j]] = Own(packet.package, OutputNames[j])
      <3>1. CASE j = k
        BY <1>6, <1>8, <2>2, <3>1
      <3>2. CASE j # k
        <4>1. j < k
          BY <1>0, <1>1, <2>2, <3>2, NamesKnown
        <4> QED
          BY <1>0, <1>7, <2>2, <3>2, <4>1 DEF StreamInv, StoreInv
      <3> QED
        BY <3>1, <3>2
    <2>3. k' <= Len(OutputNames) + 1
      BY <1>0, <1>1
    <2>4. i \in DOMAIN wire' /\ packet' = wire'[i] /\ IsData(wire'[i]) /\ base' = At(wire', i + 1)
      BY <1>0, <1>2
    <2> QED
      BY <1>0, <2>1, <2>2, <2>3, <2>4 DEF StoreInv
  <1>10. FreshInv'
    <2> SUFFICES ASSUME NEW d \in Decodable
                 PROVE  /\ state'[d] = Default \/ (state'[d].package >= 1 /\ state'[d] = Own(state'[d].package, d))
                        /\ state'[d].package <= made
                        /\ \A l \in DOMAIN wire : (IsData(wire[l]) /\ base <= At(wire, l)) =>
                              state'[d].package < wire[l].package
      BY <1>0 DEF FreshInv
    <2>1. PICK j \in Known : d = OutputNames[j] /\ 1..j \subseteq Known /\ j \in 1..Len(OutputNames)
      BY DecodableIndex
    <2>2. CASE j # k
      <3>1. state'[d] = state[d]
        BY <1>7, <2>1, <2>2
      <3> QED
        BY <3>1 DEF StreamInv, FreshInv
    <2>3. CASE j = k
      <3>1. state'[d] = Own(packet.package, d) /\ state'[d].package = packet.package
        BY <1>6, <1>8, <2>1, <2>3, OwnPackage
      <3>2. ASSUME NEW l \in DOMAIN wire, IsData(wire[l]), base <= At(wire, l)
            PROVE  packet.package < wire[l].package
        <4>1. wire \in Seq(Messages) /\ i + 1 \in 1..(Len(wire) + 1) /\ l \in 1..(Len(wire) + 1)
              /\ i \in Int /\ l \in Int
          BY DEF StreamInv, TypeInv
        <4>2. i + 1 <= l
          BY <1>2, <3>2, <4>1, AtOrder
        <4>3. i < l
          BY <4>1, <4>2
        <4> QED
          BY <1>2, <3>2, <4>3 DEF StreamInv, OrderInv
      <3> QED
        BY <1>3, <3>1, <3>2
    <2> QED
      BY <2>2, <2>3
  <1>11. OrderInv' /\ AlignInv' /\ QuietInv' /\ ShownInv'
    BY <1>0 DEF StreamInv, OrderInv, AlignInv, QuietInv, ShownInv
  <1> QED
    BY <1>5, <1>9, <1>10, <1>11 DEF StreamInv

\* At the end of the loop all variables that can be decoded are the package's.
LEMMA AllStored ==
    ASSUME StreamInv, pc = "store", k > Len(OutputNames), NEW n \in Decodable
    PROVE  state[n] = Own(packet.package, n)
  <1>1. PICK j \in Known : n = OutputNames[j] /\ 1..j \subseteq Known /\ j \in 1..Len(OutputNames)
    BY DecodableIndex
  <1>2. j < k
    BY <1>1, RecipeAssumption DEF StreamInv, TypeInv
  <1> QED
    BY <1>1, <1>2 DEF StreamInv, StoreInv

LEMMA StoredStep ==
    ASSUME StreamInv, Stored PROVE StreamInv'
  <1>0. /\ pc = "store" /\ k > Len(OutputNames) /\ pc' = "loop"
        /\ UNCHANGED <<wire, made, base, top, packet, k, offset, state, seen>>
    BY DEF Stored
  <1>1. first' = TRUE /\ locked' = FALSE
    BY DEF Stored
  <1>2. TypeInv'
    BY <1>0, <1>1 DEF StreamInv, TypeInv
  <1>3. OrderInv' /\ AlignInv' /\ FreshInv' /\ QuietInv' /\ StoreInv'
    BY <1>0 DEF StreamInv, OrderInv, AlignInv, FreshInv, QuietInv, StoreInv
  <1>4. ShownInv'
    <2> SUFFICES ASSUME NEW j \in DOMAIN wire, IsData(wire[j]), base = At(wire, j + 1),
                        NEW n \in Decodable
                 PROVE  state[n] = Own(wire[j].package, n)
      BY <1>0 DEF ShownInv
    <2>1. PICK i \in DOMAIN wire : packet = wire[i] /\ base = At(wire, i + 1)
      BY <1>0 DEF StreamInv, StoreInv
    <2>2. wire \in Seq(Messages) /\ i + 1 \in 1..(Len(wire) + 1) /\ j + 1 \in 1..(Len(wire) + 1)
          /\ i \in Int /\ j \in Int
      BY DEF StreamInv, TypeInv
    <2>3. i + 1 = j + 1
      BY <2>1, <2>2, AtOrder
    <2>4. i = j
      BY <2>2, <2>3
    <2> QED
      BY <1>0, <2>1, <2>4, AllStored
  <1> QED
    BY <1>2, <1>3, <1>4 DEF StreamInv

(* The other steps *)

\* A new connection, and the first one.
LEMMA EmptyWire ==
    ASSUME wire = <<>>, base = 0, top = 0, pc = "read", made \in Nat,
           state = [n \in KnownNames |-> Default]
    PROVE  OrderInv /\ AlignInv /\ QuietInv /\ StoreInv /\ ShownInv /\ FreshInv
  <1>1. wire \in Seq(Messages) /\ DOMAIN wire = {} /\ Len(wire) = 0
    OBVIOUS
  <1>2. At(wire, 1) = 0
    BY <1>1, AtDef
  <1>3. AlignInv
    BY <1>1, <1>2 DEF AlignInv
  <1>4. FreshInv
    <2>1. \A n \in Decodable : state[n] = Default /\ state[n].package = 0
      BY NamesKnown, MessagesMade
    <2> QED
      BY <1>1, <2>1 DEF FreshInv
  <1>5. OrderInv /\ QuietInv /\ StoreInv /\ ShownInv
    BY <1>1 DEF OrderInv, QuietInv, StoreInv, ShownInv
  <1> QED
    BY <1>3, <1>4, <1>5

LEMMA StreamInit == Init => StreamInv
  <1> SUFFICES ASSUME Init PROVE StreamInv
    OBVIOUS
  <1>1. /\ wire = <<>> /\ base = 0 /\ top = 0 /\ pc = "read" /\ made \in Nat
        /\ state = [n \in KnownNames |-> Default]
    BY DEF Init
  <1> QED
    BY <1>1, EmptyWire, TypeInit DEF StreamInv

LEMMA ConnectStep ==
    ASSUME StreamInv, Connect PROVE StreamInv'
  <1>1. /\ wire' = <<>> /\ base' = 0 /\ top' = 0 /\ pc = "read" /\ pc' = "read" /\ made' = made
        /\ state' = [n \in KnownNames |-> Default] /\ UNCHANGED <<packet, k, offset, locked, seen>>
    BY DEF Connect
  <1>2. first' = FALSE
    BY DEF Connect
  <1>3. wire' \in Seq(Messages) /\ state' \in [KnownNames -> Places]
    BY <1>1, MessagesMade
  <1>4. TypeInv'
    BY <1>1, <1>2, <1>3 DEF StreamInv, TypeInv
  <1>5. DOMAIN wire' = {} /\ Len(wire') = 0 /\ At(wire', 1) = 0
    <2>1. DOMAIN wire' = {} /\ Len(wire') = 0
      BY <1>1
    <2>2. At(wire', 1) = 0
      BY <1>3, AtDef
    <2> QED
      BY <2>1, <2>2
  <1>6. AlignInv'
    BY <1>1, <1>5 DEF AlignInv
  <1>7. FreshInv'
    <2>1. \A n \in Decodable : state'[n] = Default /\ state'[n].package = 0
      BY <1>1, NamesKnown, MessagesMade
    <2>2. made \in Nat
      BY DEF StreamInv, TypeInv
    <2> QED
      BY <1>1, <1>5, <2>1, <2>2 DEF FreshInv
  <1>8. OrderInv' /\ QuietInv' /\ StoreInv' /\ ShownInv'
    BY <1>1, <1>5 DEF OrderInv, QuietInv, StoreInv, ShownInv
  <1> QED
    BY <1>4, <1>6, <1>7, <1>8 DEF StreamInv

LEMMA SendDataStep ==
    ASSUME StreamInv, SendData PROVE StreamInv'
  <1> DEFINE m == Data(made + 1)
  <1>1. made \in Nat /\ made < MaxPackages /\ MaxPackages \in Nat /\ made' = made + 1
    BY BoundsAssumption DEF StreamInv, TypeInv, SendData
  <1>2. m \in Messages /\ m.package = made' /\ wire' = Append(wire, m)
    BY <1>1, MessagesMade DEF SendData
  <1>3. /\ UNCHANGED <<base, top, pc, packet, k, offset, state>>
        /\ UNCHANGED <<locked, first, seen>>
    BY DEF SendData
  <1> HIDE DEF m
  <1>4. OrderInv' /\ AlignInv' /\ QuietInv' /\ StoreInv' /\ ShownInv' /\ FreshInv'
    <2>1. made' \in Nat /\ made <= made'
      BY <1>1
    <2> QED
      BY <1>1, <1>2, <1>3, <2>1, AppendStep
  <1>5. wire' \in Seq(Messages)
    BY <1>2 DEF StreamInv, TypeInv
  <1>6. TypeInv'
    BY <1>1, <1>3, <1>5 DEF StreamInv, TypeInv
  <1> QED
    BY <1>4, <1>6 DEF StreamInv

LEMMA SendTextStep ==
    ASSUME StreamInv, SendText PROVE StreamInv'
  <1>1. made \in Nat /\ made' = made
    BY DEF StreamInv, TypeInv, SendText
  <1>2. Text \in Messages /\ ~ IsData(Text) /\ wire' = Append(wire, Text)
    BY MessagesMade DEF SendText
  <1>3. /\ UNCHANGED <<base, top, pc, packet, k, offset, state>>
        /\ UNCHANGED <<locked, first, seen>>
    BY DEF SendText
  <1>4. OrderInv' /\ AlignInv' /\ QuietInv' /\ StoreInv' /\ ShownInv' /\ FreshInv'
    <2>1. made' \in Nat /\ made <= made'
      BY <1>1
    <2> QED
      BY <1>2, <1>3, <2>1, AppendStep
  <1>5. wire' \in Seq(Messages)
    BY <1>2 DEF StreamInv, TypeInv
  <1>6. TypeInv'
    BY <1>1, <1>3, <1>5 DEF StreamInv, TypeInv
  <1> QED
    BY <1>4, <1>6 DEF StreamInv

\* Steps that change nothing the receive thread works with.
LEMMA IdleStep ==
    ASSUME StreamInv, UNCHANGED <<wire, made, base, top, pc, packet, k, offset, state>>,
           UNCHANGED <<locked, first>>, seen' \in Seq(Decodable \X Places)
    PROVE  StreamInv'
  <1>1. TypeInv'
    BY DEF StreamInv, TypeInv
  <1>2. OrderInv' /\ AlignInv' /\ QuietInv'
    BY DEF StreamInv, OrderInv, AlignInv, QuietInv
  <1>3. StoreInv' /\ ShownInv' /\ FreshInv'
    BY DEF StreamInv, StoreInv, ShownInv, FreshInv
  <1> QED
    BY <1>1, <1>2, <1>3 DEF StreamInv

LEMMA GetRtdeFrequencyStep ==
    ASSUME StreamInv, GetRtdeFrequency PROVE StreamInv'
  <1>1. /\ UNCHANGED <<base, top, pc, packet, k, offset, state>> /\ made' = made
        /\ UNCHANGED <<locked, first, seen>>
    BY DEF GetRtdeFrequency
  <1>2. CASE \E i \in DOMAIN wire : top = Start(i) /\ wire' = Append(RemoveAt(wire, i), Version)
    <2>1. PICK r \in DOMAIN wire : top = At(wire, r) /\ wire' = Append(RemoveAt(wire, r), Version)
      BY <1>2, StartIsAt
    <2>2. OrderInv' /\ AlignInv' /\ QuietInv' /\ StoreInv' /\ ShownInv' /\ FreshInv'
      BY <1>1, <2>1, RemoveStep
    <2>3. wire \in Seq(Messages) /\ r \in 1..Len(wire) /\ Version \in Messages
      BY MessagesMade DEF StreamInv, TypeInv
    <2>4. IsReplaced(wire', wire, r, Version)
      BY <2>1, <2>3, RemoveWire
    <2>5. wire' \in Seq(Messages)
      BY <2>4 DEF IsReplaced
    <2>6. TypeInv'
      BY <1>1, <2>5 DEF StreamInv, TypeInv
    <2> QED
      BY <2>2, <2>6 DEF StreamInv
  <1>3. CASE UNCHANGED wire
    <2>1. seen' \in Seq(Decodable \X Places)
      BY <1>1 DEF StreamInv, TypeInv
    <2> QED
      BY <1>1, <1>3, <2>1, IdleStep
  <1> QED
    BY <1>2, <1>3 DEF GetRtdeFrequency

LEMMA GetStateDataStep ==
    ASSUME StreamInv, NEW n \in Decodable, GetStateData(n) PROVE StreamInv'
  <1>1. /\ UNCHANGED <<wire, made, base, top, pc, packet, k, offset, state>>
        /\ UNCHANGED <<locked, first>>
    BY DEF GetStateData
  <1>2. state[n] \in Places
    BY NamesKnown DEF StreamInv, TypeInv
  <1>3. seen' \in Seq(Decodable \X Places)
    BY <1>2 DEF StreamInv, TypeInv, GetStateData
  <1> QED
    BY <1>1, <1>3, IdleStep

LEMMA StreamStep == StreamInv /\ [Next]_vars => StreamInv'
  <1> SUFFICES ASSUME StreamInv, [Next]_vars PROVE StreamInv'
    OBVIOUS
  <1>0. seen \in Seq(Decodable \X Places)
    BY DEF StreamInv, TypeInv
  <1>1. CASE Deadline
    BY <1>0, <1>1, IdleStep DEF Deadline
  <1>2. CASE UNCHANGED vars
    BY <1>0, <1>2, IdleStep DEF vars
  <1>3. CASE \E n \in Decodable : GetStateData(n)
    BY <1>3, GetStateDataStep
  <1> QED
    BY <1>1, <1>2, <1>3, SendDataStep, SendTextStep, ReadSomeStep, TakeStep, SkipStep, ReturnStep,
       StoreStep, StoredStep, GetRtdeFrequencyStep, ConnectStep DEF Next

LEMMA StreamInvariant == Spec => []StreamInv
  BY StreamInit, StreamStep, PTL DEF Spec

-----------------------------------------------------------------------------
(* Theorems *)

\* receiveData never loses its place: for every recipe, every number of packages
\* and texts, and every way in which the stream is cut, buffer_ begins with the
\* first byte of a message as long as nobody else reads from the socket.
THEOREM ReceiveKeepsItsPlace == Spec => []BufferAligned
  <1>1. StreamInv => BufferAligned
    BY StartIsAt DEF StreamInv, AlignInv, BufferAligned
  <1> QED
    BY <1>1, StreamInvariant, PTL

\* A quiet stream is up to date: after receiveData has returned with nothing left
\* behind a data package, RobotState shows that package, although the look-ahead
\* of receiveData throws packages away.
THEOREM QuietIsUpToDate == Spec => []NewestWhenQuiet
  <1>1. ASSUME StreamInv, pc = "read", NEW i \in DOMAIN wire, IsData(wire[i]),
               top = At(wire, i + 1), NEW n \in Decodable
        PROVE  state[n] = Own(wire[i].package, n)
    <2>0. /\ wire \in Seq(Messages) /\ DOMAIN wire = 1..Len(wire) /\ Len(wire) \in Nat
          /\ base \in Nat /\ top \in Nat /\ i + 1 \in 1..(Len(wire) + 1)
          /\ \A j \in 1..(Len(wire) + 1) : At(wire, j) \in Nat
      BY <1>1, AtDef DEF StreamInv, TypeInv
    <2>1. PICK j \in 1..(Len(wire) + 1) : base = At(wire, j)
      BY <1>1 DEF StreamInv, AlignInv
    <2>2. base <= top
      BY <1>1 DEF StreamInv, AlignInv
    <2>3. j <= i + 1
      BY <1>1, <2>0, <2>1, <2>2, AtOrder
    <2>4. CASE j = i + 1
      BY <1>1, <2>1, <2>4 DEF StreamInv, ShownInv
    <2>5. CASE j < i + 1
      <3>1. j \in DOMAIN wire /\ j + 1 \in 1..(Len(wire) + 1) /\ j + 1 <= i + 1
        BY <2>0, <2>5
      <3>2. At(wire, j + 1) = At(wire, j) + Size(wire[j]) /\ Size(wire[j]) \in Nat
        <4>1. wire[j] \in Messages /\ j \in 1..Len(wire)
          BY <2>0, <3>1
        <4> QED
          BY <2>0, <4>1, AtDef, SizePositive
      <3>3. At(wire, j + 1) <= At(wire, i + 1)
        BY <2>0, <3>1, AtOrder
      <3>4. top - base >= Size(wire[j])
        BY <1>1, <2>0, <2>1, <3>2, <3>3
      <3> QED
        BY <1>1, <2>1, <3>1, <3>4 DEF StreamInv, QuietInv
    <2> QED
      BY <2>0, <2>3, <2>4, <2>5
  <1>2. StreamInv => NewestWhenQuiet
    BY <1>1, StartIsAt DEF NewestWhenQuiet, IsData
  <1> QED
    BY <1>2, StreamInvariant, PTL

LEMMA FirstStep ==
    ASSUME StreamInv, FirstInv, [Next]_vars PROVE FirstInv'
  <1>1. CASE Take
    <2>0. pc = "loop" /\ UNCHANGED <<state, first>>
      BY <1>1 DEF Take
    <2>1. PICK i \in DOMAIN wire :
            /\ packet' = wire[i]
            /\ IF IsData(wire[i]) THEN pc' = "store" /\ k' = 1 ELSE UNCHANGED pc
      BY <1>1 DEF Take, IsData
    <2>2. IsData(wire[i]) => wire[i].package >= 1
      BY DEF StreamInv, OrderInv
    <2>3. \A j \in Known : ~ (j < 1)
      BY NamesKnown
    <2> QED
      BY <2>0, <2>1, <2>2, <2>3 DEF FirstInv
  <1>2. CASE Skip
    BY <1>2 DEF Skip, FirstInv
  <1>3. CASE Store
    <2> DEFINE n == OutputNames[k]
    <2>0. pc = "store" /\ k \in 1..Len(OutputNames) /\ k' = k + 1 /\ UNCHANGED <<pc, packet, first>>
      BY <1>3, RecipeAssumption DEF Store, StreamInv, TypeInv
    <2>1. IsData(packet) /\ packet.package >= 1 /\ packet.package \in Nat
          /\ \A j \in Known : j < k => state[OutputNames[j]].package > 0
      BY <2>0 DEF FirstInv, StreamInv, TypeInv, Messages
    <2>2. state \in [KnownNames -> Places]
      BY DEF StreamInv, TypeInv
    <2>3. CASE n \in StateTypes
      <3>1. n \in KnownNames /\ state' = [state EXCEPT ![n] = Place(packet.package, offset, Words(n))]
        BY <1>3, <2>0, <2>3, NamesKnown DEF Store
      <3>2. Place(packet.package, offset, Words(n)).package = packet.package
        BY DEF Place
      <3>3. \A m \in KnownNames : state[m].package > 0 => state'[m].package > 0
        BY <2>1, <2>2, <3>1, <3>2
      <3>4. ASSUME NEW j \in Known, j < k' PROVE state'[OutputNames[j]].package > 0
        <4>1. j \in 1..Len(OutputNames) /\ OutputNames[j] \in KnownNames
          BY NamesKnown
        <4>2. CASE j = k
          BY <2>1, <2>2, <3>1, <3>2, <4>2
        <4>3. CASE j < k
          BY <2>1, <3>3, <4>1, <4>3
        <4> QED
          BY <2>0, <3>4, <4>1, <4>2, <4>3
      <3> QED
        BY <2>0, <2>1, <3>3, <3>4 DEF FirstInv
    <2>4. CASE n \notin StateTypes
      <3>1. UNCHANGED state /\ k \notin Known
        BY <1>3, <2>4 DEF Store, Known
      <3>2. ASSUME NEW j \in Known, j < k' PROVE j < k
        BY <2>0, <3>1, <3>2, NamesKnown
      <3> QED
        BY <2>0, <2>1, <3>1, <3>2 DEF FirstInv
    <2> QED
      BY <2>3, <2>4
  <1>4. CASE Stored
    <2>0. pc = "store" /\ k > Len(OutputNames) /\ pc' = "loop" /\ UNCHANGED state
      BY <1>4 DEF Stored
    <2>1. ASSUME NEW n \in KnownNames PROVE state[n].package > 0
      <3>1. PICK j \in Known : n = OutputNames[j]
        BY DEF KnownNames
      <3>2. j < k
        BY <2>0, NamesKnown, RecipeAssumption DEF StreamInv, TypeInv
      <3> QED
        BY <2>0, <3>1, <3>2 DEF FirstInv
    <2> QED
      BY <2>0, <2>1 DEF FirstInv
  <1>5. CASE Connect
    <2>1. pc' = "read" /\ first' = FALSE
      BY <1>5 DEF Connect
    <2> QED
      BY <2>1 DEF FirstInv
  <1>6. CASE UNCHANGED <<packet, k, state, first>> /\ (pc' = "store" => pc = "store")
    BY <1>6 DEF FirstInv
  <1>7. ASSUME SendData \/ SendText \/ ReadSome \/ Deadline \/ Return \/ GetRtdeFrequency
               \/ (\E n \in Decodable : GetStateData(n)) \/ UNCHANGED vars
        PROVE  UNCHANGED <<packet, k, state, first>> /\ (pc' = "store" => pc = "store")
    BY <1>7 DEF SendData, SendText, ReadSome, Deadline, Return, GetRtdeFrequency, GetStateData, vars
  <1> QED
    BY <1>1, <1>2, <1>3, <1>4, <1>5, <1>6, <1>7 DEF Next

\* Whoever sees first_state_received_ reads variables of a package, never the
\* defaults of a new RobotState: setFirstStateReceived comes after the loop over
\* output_names_, and a reconnection takes it back together with the state.
THEOREM FirstStateIsData == Spec => []FirstStateMeansData
  <1>1. Init => FirstInv
    <2> SUFFICES ASSUME Init PROVE FirstInv
      OBVIOUS
    <2>1. first = FALSE /\ pc = "read"
      BY DEF Init
    <2> QED
      BY <2>1 DEF FirstInv
  <1>2. FirstInv => FirstStateMeansData
    BY NamesKnown DEF FirstInv, FirstStateMeansData
  <1>3. StreamInv /\ FirstInv /\ [Next]_vars => FirstInv'
    BY FirstStep
  <1> QED
    BY <1>1, <1>2, <1>3, StreamInvariant, PTL DEF Spec

(* The refinement *)

\* Outside the lock a variable shows the package it was taken from.
LEMMA ShownPackage ==
    ASSUME StreamInv, NEW n \in Decodable
    PROVE  Shown(n, state[n]) = state[n].package
  <1>1. state[n] = Default \/ (state[n].package >= 1 /\ state[n] = Own(state[n].package, n))
    BY DEF StreamInv, FreshInv
  <1>2. Default.package = 0
    BY MessagesMade
  <1> QED
    BY <1>1, <1>2 DEF Shown

\* The lock is taken for a data package: the package appears, and it is newer
\* than what was shown.
LEMMA TakeShows ==
    ASSUME StreamInv, Take, NEW i \in DOMAIN wire, Complete(i), IsData(wire[i]),
           locked' = TRUE, packet' = wire[i]
    PROVE  \E p \in 1..MaxPackages : Feed!Show(p)
  <1> DEFINE p == wire[i].package
  <1>1. pc = "loop" /\ locked = FALSE /\ seen' = seen
    BY DEF Take, StreamInv, TypeInv
  <1>2. p \in 1..MaxPackages
    <2>1. wire[i] \in Messages /\ made \in Nat /\ made <= MaxPackages
      BY DEF StreamInv, TypeInv
    <2>2. p \in Nat /\ p >= 1 /\ p <= made
      BY <2>1 DEF StreamInv, OrderInv, Messages
    <2> QED
      BY <2>1, <2>2, BoundsAssumption
  <1>3. ASSUME NEW n \in Decodable PROVE View[n] < p
    <2>1. base <= At(wire, i)
      <3>1. base = At(wire, i) /\ base \in Nat
        BY StartIsAt DEF Complete, StreamInv, TypeInv
      <3> QED
        BY <3>1
    <2>2. state[n].package < p
      BY <2>1 DEF StreamInv, FreshInv
    <2>3. View[n] = state[n].package
      BY <1>1, ShownPackage DEF View
    <2> QED
      BY <2>2, <2>3
  <1>4. View' = [n \in Decodable |-> p]
    BY DEF View
  <1>5. SeenView' = SeenView
    BY <1>1 DEF SeenView
  <1>6. Feed!Show(p)
    BY <1>3, <1>4, <1>5 DEF Feed!Show
  <1> QED
    BY <1>2, <1>6

LEMMA AppendIsFunction ==
    ASSUME NEW S, NEW s \in Seq(S), NEW e \in S
    PROVE  Append(s, e) = [i \in 1..(Len(s) + 1) |-> IF i = Len(s) + 1 THEN e ELSE s[i]]
  <1>1. Append(s, e) \in Seq(S) /\ Len(Append(s, e)) = Len(s) + 1
    OBVIOUS
  <1>2. Append(s, e) = [i \in 1..(Len(s) + 1) |-> Append(s, e)[i]]
    <2> DEFINE t == Append(s, e)
    <2>1. t \in Seq(S) /\ Len(t) = Len(s) + 1
      BY <1>1
    <2> HIDE DEF t
    <2>2. t = [i \in 1..Len(t) |-> t[i]]
      BY <2>1
    <2> QED
      BY <2>1, <2>2 DEF t
  <1>3. \A i \in 1..(Len(s) + 1) : Append(s, e)[i] = IF i = Len(s) + 1 THEN e ELSE s[i]
    OBVIOUS
  <1> QED
    BY <1>2, <1>3

\* A getter reads what is shown: it holds the lock.
LEMMA GetterReads ==
    ASSUME StreamInv, NEW n \in Decodable, GetStateData(n) PROVE Feed!Read(n)
  <1>1. /\ locked = FALSE /\ Len(seen) < MaxReads /\ seen' = Append(seen, <<n, state[n]>>)
        /\ UNCHANGED <<locked, packet, state>> /\ seen \in Seq(Decodable \X Places)
    BY DEF GetStateData, StreamInv, TypeInv
  <1>2. View[n] = Shown(n, state[n])
    BY <1>1 DEF View
  <1>3. View' = View
    BY <1>1 DEF View
  <1>4. DOMAIN seen = 1..Len(seen) /\ DOMAIN seen' = 1..(Len(seen) + 1) /\ Len(seen) \in Nat
    BY <1>1
  <1>5. /\ \A i \in 1..Len(seen) : seen'[i] = seen[i]
        /\ seen'[Len(seen) + 1] = <<n, state[n]>>
    BY <1>1
  <1> DEFINE e == <<n, View[n]>>
             S == {e} \cup {SeenView[i] : i \in 1..Len(seen)}
  <1>6. SeenView \in Seq(S) /\ Len(SeenView) = Len(seen) /\ e \in S
    BY <1>4 DEF SeenView
  <1>7. /\ SeenView' = [i \in 1..(Len(seen) + 1) |-> IF i = Len(seen) + 1 THEN e ELSE SeenView[i]]
    <2>1. SeenView' = [i \in 1..(Len(seen) + 1) |-> <<seen'[i][1], Shown(seen'[i][1], seen'[i][2])>>]
      BY <1>4 DEF SeenView
    <2>2. ASSUME NEW i \in 1..(Len(seen) + 1)
          PROVE  <<seen'[i][1], Shown(seen'[i][1], seen'[i][2])>>
                   = IF i = Len(seen) + 1 THEN e ELSE SeenView[i]
      <3>1. CASE i = Len(seen) + 1
        BY <1>2, <1>5, <3>1
      <3>2. CASE i # Len(seen) + 1
        <4>1. i \in 1..Len(seen) /\ seen'[i] = seen[i]
          BY <1>4, <1>5, <3>2
        <4> QED
          BY <1>4, <3>2, <4>1 DEF SeenView
      <3> QED
        BY <3>1, <3>2
    <2> QED
      BY <2>1, <2>2
  <1> HIDE DEF e, S
  <1>8. SeenView' = Append(SeenView, e)
    BY <1>6, <1>7, AppendIsFunction
  <1> QED
    BY <1>1, <1>3, <1>6, <1>8 DEF Feed!Read, e

LEMMA FeedStep ==
    ASSUME StreamInv, StreamInv', [Next]_vars PROVE [Feed!Next]_<<View, SeenView>>
  <1>1. CASE Take
    <2>0. pc = "loop" /\ ~ locked /\ UNCHANGED <<state, seen>>
      BY <1>1 DEF Take, StreamInv, TypeInv
    <2>1. PICK i \in DOMAIN wire :
            /\ Complete(i) /\ packet' = wire[i]
            /\ IF IsData(wire[i]) THEN locked' = TRUE ELSE UNCHANGED locked
      BY <1>1 DEF Take, IsData
    <2>2. CASE IsData(wire[i])
      BY <1>1, <2>1, <2>2, TakeShows DEF Feed!Next
    <2>3. CASE ~ IsData(wire[i])
      <3>1. View' = View
        BY <2>0, <2>1, <2>3 DEF View
      <3>2. SeenView' = SeenView
        BY <2>0 DEF SeenView
      <3> QED
        BY <3>1, <3>2
    <2> QED
      BY <2>2, <2>3
  <1>2. CASE Skip
    <2>0. ~ locked /\ UNCHANGED <<locked, state, seen>>
      BY <1>2 DEF Skip, StreamInv, TypeInv
    <2>1. View' = View
      BY <2>0 DEF View
    <2>2. SeenView' = SeenView
      BY <2>0 DEF SeenView
    <2> QED
      BY <2>1, <2>2
  <1>3. CASE Store
    <2>0. locked /\ UNCHANGED <<locked, packet, seen>>
      BY <1>3 DEF Store, StreamInv, TypeInv
    <2>1. View' = View
      BY <2>0 DEF View
    <2>2. SeenView' = SeenView
      BY <2>0 DEF SeenView
    <2> QED
      BY <2>1, <2>2
  <1>4. CASE Stored
    <2>0. pc = "store" /\ k > Len(OutputNames) /\ locked /\ UNCHANGED <<packet, state, seen>>
      BY <1>4 DEF Stored, StreamInv, TypeInv
    <2>1. ~ locked'
      BY <1>4 DEF Stored
    <2>2. ASSUME NEW n \in Decodable PROVE Shown(n, state[n]) = packet.package
      BY <2>0, AllStored, OwnPackage, ShownPackage
    <2>3. View' = View
      BY <2>0, <2>1, <2>2 DEF View
    <2>4. SeenView' = SeenView
      BY <2>0 DEF SeenView
    <2> QED
      BY <2>3, <2>4
  <1>5. CASE Connect
    <2>0. ~ locked /\ UNCHANGED <<locked, seen>> /\ state' = [n \in KnownNames |-> Default]
      BY <1>5 DEF Connect, StreamInv, TypeInv
    <2>1. View' = [n \in Decodable |-> 0]
      BY <2>0, NamesKnown DEF View, Shown
    <2>2. SeenView' = SeenView
      BY <2>0 DEF SeenView
    <2> QED
      BY <2>1, <2>2 DEF Feed!Next, Feed!Renew
  <1>6. CASE \E n \in Decodable : GetStateData(n)
    BY <1>6, GetterReads DEF Feed!Next
  <1>7. CASE UNCHANGED <<locked, packet, state, seen>>
    BY <1>7 DEF View, SeenView
  <1>8. ASSUME SendData \/ SendText \/ ReadSome \/ Deadline \/ Return \/ GetRtdeFrequency
               \/ UNCHANGED vars
        PROVE  UNCHANGED <<locked, packet, state, seen>>
    BY <1>8 DEF SendData, SendText, ReadSome, Deadline, Return, GetRtdeFrequency, vars
  <1> QED
    BY <1>1, <1>2, <1>3, <1>4, <1>5, <1>6, <1>7, <1>8 DEF Next

\* receiveData and RobotState implement StateFeed for every recipe: however the
\* stream is cut, whatever packages the look-ahead drops and whenever the
\* getters run, the variables of a package appear together, made of their own
\* bytes, and an older package never replaces a newer one.
THEOREM StreamImplementsFeed == Spec => FeedIsImplemented
  <1>1. Init => Feed!Init
    <2> SUFFICES ASSUME Init PROVE Feed!Init
      OBVIOUS
    <2>1. ~ locked /\ state = [n \in KnownNames |-> Default] /\ seen = <<>>
      BY DEF Init
    <2>2. View = [n \in Decodable |-> 0]
      BY <2>1, NamesKnown DEF View, Shown
    <2>3. SeenView = <<>>
      BY <2>1 DEF SeenView
    <2> QED
      BY <2>2, <2>3 DEF Feed!Init
  <1>2. StreamInv /\ StreamInv' /\ [Next]_vars => [Feed!Next]_<<View, SeenView>>
    BY FeedStep
  <1> QED
    BY <1>1, <1>2, StreamInvariant, PTL DEF Spec, FeedIsImplemented, Feed!Spec
=============================================================================
