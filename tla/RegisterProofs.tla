--------------------------- MODULE RegisterProofs ---------------------------
(***************************************************************************)
(* Proofs about CommandRegisters, in three parts.  The tables: every       *)
(* command function fits its recipe and its branch of process_cmd          *)
(* (AllFit), which is a fact about constants, shown recipe by recipe.  The *)
(* handshake: a command in the register is there with all the arguments of *)
(* its call, and what a waiting call reads was written for it              *)
(* (RegistersInv).  The outputs: a mask has one bit (MaskBits).            *)
(***************************************************************************)
EXTENDS CommandRegisters, TLAPS

\* Recipe n: i integers, d doubles and a more integers, each from the first
\* register that is free.
RecipeIs(n, i, d, a) ==
    /\ Len(Recipe[n]) = i + d + a
    /\ DOMAIN Recipe[n] = 1..(i + d + a)
    /\ \A k \in 1..(i + d + a) :
          Recipe[n][k] = IF k <= i THEN IntReg(k - 1)
                         ELSE IF k <= i + d THEN DoubleReg(k - i - 1) ELSE IntReg(k - d - 1)

LEMMA RecipeTable ==
    /\ RecipeIs(1, 1, 8, 1) /\ RecipeIs(2, 1, 11, 0) /\ RecipeIs(3, 8, 18, 0)
    /\ RecipeIs(4, 1, 0, 0) /\ RecipeIs(5, 1, 9, 0) /\ RecipeIs(6, 1, 6, 0)
    /\ RecipeIs(7, 1, 4, 0) /\ RecipeIs(8, 1, 1, 0) /\ RecipeIs(9, 2, 0, 0)
    /\ RecipeIs(10, 1, 14, 0) /\ RecipeIs(11, 1, 0, 0) /\ RecipeIs(12, 1, 12, 0)
    /\ RecipeIs(13, 1, 8, 0) /\ RecipeIs(14, 1, 14, 0) /\ RecipeIs(15, 2, 0, 0)
    /\ RecipeIs(16, 1, 13, 0) /\ RecipeIs(17, 7, 6, 0) /\ RecipeIs(18, 2, 7, 0)
    /\ RecipeIs(19, 1, 1, 1) /\ RecipeIs(20, 1, 10, 0)
  <1>1. RecipeIs(1, 1, 8, 1)
    BY DEF Recipe, RecipeIs, Doubles
  <1>2. RecipeIs(2, 1, 11, 0)
    BY DEF Recipe, RecipeIs, Doubles
  <1>3. RecipeIs(3, 8, 18, 0)
    BY DEF Recipe, RecipeIs, Doubles
  <1>4. RecipeIs(4, 1, 0, 0) /\ RecipeIs(11, 1, 0, 0)
    BY DEF Recipe, RecipeIs
  <1>5. RecipeIs(5, 1, 9, 0) /\ RecipeIs(6, 1, 6, 0) /\ RecipeIs(7, 1, 4, 0)
    BY DEF Recipe, RecipeIs, Doubles
  <1>6. RecipeIs(8, 1, 1, 0) /\ RecipeIs(9, 2, 0, 0) /\ RecipeIs(15, 2, 0, 0)
    BY DEF Recipe, RecipeIs
  <1>7. RecipeIs(10, 1, 14, 0) /\ RecipeIs(12, 1, 12, 0) /\ RecipeIs(13, 1, 8, 0)
    BY DEF Recipe, RecipeIs, Doubles
  <1>8. RecipeIs(14, 1, 14, 0) /\ RecipeIs(16, 1, 13, 0) /\ RecipeIs(20, 1, 10, 0)
    BY DEF Recipe, RecipeIs, Doubles
  <1>9. RecipeIs(17, 7, 6, 0)
    BY DEF Recipe, RecipeIs, Doubles
  <1>10. RecipeIs(18, 2, 7, 0)
    BY DEF Recipe, RecipeIs, Doubles
  <1>11. RecipeIs(19, 1, 1, 1)
    BY DEF Recipe, RecipeIs
  <1> QED
    BY <1>1, <1>2, <1>3, <1>4, <1>5, <1>6, <1>7, <1>8, <1>9, <1>10, <1>11

\* No recipe names a register twice.
OnceEach(n) ==
    \A j, k \in DOMAIN Recipe[n] : Recipe[n][j] = Recipe[n][k] => j = k

LEMMA OnceEachIs ==
    ASSUME NEW n, NEW i \in Nat, NEW d \in Nat, NEW a \in Nat, RecipeIs(n, i, d, a)
    PROVE  OnceEach(n)
  <1> SUFFICES ASSUME NEW j \in DOMAIN Recipe[n], NEW k \in DOMAIN Recipe[n],
                      Recipe[n][j] = Recipe[n][k]
               PROVE  j = k
    BY DEF OnceEach
  <1>1. j \in 1..(i + d + a) /\ k \in 1..(i + d + a)
    BY DEF RecipeIs
  <1>2. \A l \in 1..(i + d + a) :
          /\ l <= i => Recipe[n][l][1] = "int" /\ Recipe[n][l][2] = l - 1
          /\ (l > i /\ l <= i + d) => Recipe[n][l][1] = "double" /\ Recipe[n][l][2] = l - i - 1
          /\ l > i + d => Recipe[n][l][1] = "int" /\ Recipe[n][l][2] = l - d - 1
    <2> TAKE l \in 1..(i + d + a)
    <2>1. /\ l <= i => Recipe[n][l] = IntReg(l - 1)
          /\ (l > i /\ l <= i + d) => Recipe[n][l] = DoubleReg(l - i - 1)
          /\ l > i + d => Recipe[n][l] = IntReg(l - d - 1)
      BY DEF RecipeIs
    <2> QED
      BY <2>1 DEF IntReg, DoubleReg
  <1> QED
    BY <1>1, <1>2

LEMMA Recipe21 ==
    /\ Len(Recipe[21]) = 7 /\ DOMAIN Recipe[21] = 1..7 /\ Recipe[21][1] = IntReg(0)
    /\ \A k \in 2..7 : Recipe[21][k] = <<"external_force_torque", k - 1>>
  BY DEF Recipe

LEMMA RecipeCount == DOMAIN Recipe = 1..21
  BY DEF Recipe
-----------------------------------------------------------------------------
(* Packing *)

\* A branch reads u from where the package has it.
Matches(u, before, val, after) ==
    \/ \E j \in 1..Len(before) : u = <<before[j], IntReg(j)>>
    \/ \E j \in 1..Len(val) : u = <<val[j], DoubleReg(j - 1)>>
    \/ \E j \in 1..Len(after) : u = <<after[j], IntReg(Len(before) + j)>>

Carries(f, u) ==
    \E k \in 1..Len(Recipe[f.recipe]) : Recipe[f.recipe][k] = u[2] /\ Pack(f)[k] = u[1]

\* What a command function sends fits its recipe, its branch of process_cmd, and
\* the registers it reads back.
Fits(f) ==
    /\ f.recipe \in DOMAIN Recipe /\ OnceEach(f.recipe)
    /\ Len(Pack(f)) = Len(Recipe[f.recipe]) /\ Len(Pack(f)) \in Nat /\ Len(Pack(f)) > 0
    /\ DOMAIN Recipe[f.recipe] = 1..Len(Recipe[f.recipe])
    /\ Recipe[f.recipe][1] = IntReg(0)
    /\ Pack(f)[1] = <<IF f.type = "WATCHDOG" THEN "NO_CMD" ELSE f.type, 0>>
    /\ \A u \in ScriptBranch(f.type).uses : Carries(f, u) \/ Unsent(f, u[1])
    /\ f.type \notin HostContinuous => f.answer \subseteq ScriptBranch(f.type).writes
    /\ f.type # "NO_CMD" /\ f.answer \subseteq OutInt \cup OutDoubles

IsJoined(q, s, t) ==
    /\ Len(q) = Len(s) + Len(t)
    /\ \A k \in 1..Len(s) : q[k] = s[k]
    /\ \A k \in 1..Len(t) : q[Len(s) + k] = t[k]

LEMMA Joined ==
    ASSUME NEW T, NEW s \in Seq(T), NEW t \in Seq(T)
    PROVE  s \o t \in Seq(T) /\ IsJoined(s \o t, s, t)
  BY DEF IsJoined

IsPacked(p, h, b, v, w) ==
    /\ Len(p) = 1 + Len(b) + Len(v) + Len(w) /\ p[1] = h
    /\ \A j \in 1..Len(b) : p[1 + j] = b[j]
    /\ \A j \in 1..Len(v) : p[1 + Len(b) + j] = v[j]
    /\ \A j \in 1..Len(w) : p[1 + Len(b) + Len(v) + j] = w[j]

LEMMA JoinedUp ==
    ASSUME NEW T, NEW h \in T, NEW b \in Seq(T), NEW v \in Seq(T), NEW w \in Seq(T)
    PROVE  IsPacked(<<h>> \o b \o v \o w, h, b, v, w)
  <1> DEFINE p1 == <<h>> \o b
             p2 == p1 \o v
             p == p2 \o w
  <1>0. /\ <<h>> \in Seq(T) /\ Len(<<h>>) = 1 /\ <<h>>[1] = h
        /\ Len(b) \in Nat /\ Len(v) \in Nat /\ Len(w) \in Nat
    OBVIOUS
  <1>1. p1 \in Seq(T) /\ IsJoined(p1, <<h>>, b)
    BY <1>0, Joined
  <1> HIDE DEF p1
  <1>2. p2 \in Seq(T) /\ IsJoined(p2, p1, v)
    BY <1>1, Joined
  <1> HIDE DEF p2
  <1>3. IsJoined(p, p2, w)
    BY <1>2, Joined
  <1> HIDE DEF p
  <1>4. Len(p1) = 1 + Len(b) /\ Len(p2) = Len(p1) + Len(v) /\ Len(p) = Len(p2) + Len(w)
    BY <1>0, <1>1, <1>2, <1>3 DEF IsJoined
  <1>5. p[1] = h
    <2>1. p1[1] = <<h>>[1]
      BY <1>0, <1>1 DEF IsJoined
    <2>2. 1 \in 1..Len(p1) /\ 1 \in 1..Len(p2)
      BY <1>0, <1>4
    <2>3. p2[1] = p1[1] /\ p[1] = p2[1]
      BY <1>2, <1>3, <2>2 DEF IsJoined
    <2> QED
      BY <1>0, <2>1, <2>3
  <1>6. ASSUME NEW j \in 1..Len(b) PROVE p[1 + j] = b[j]
    <2>1. 1 + j \in 1..Len(p1) /\ 1 + j \in 1..Len(p2)
      BY <1>0, <1>4
    <2>2. p1[1 + j] = b[j]
      BY <1>0, <1>1 DEF IsJoined
    <2>3. p2[1 + j] = p1[1 + j] /\ p[1 + j] = p2[1 + j]
      BY <1>2, <1>3, <2>1 DEF IsJoined
    <2> QED
      BY <2>2, <2>3
  <1>7. ASSUME NEW j \in 1..Len(v) PROVE p[1 + Len(b) + j] = v[j]
    <2>1. Len(p1) + j \in 1..Len(p2) /\ Len(p1) + j = 1 + Len(b) + j
      BY <1>0, <1>4
    <2>2. p2[Len(p1) + j] = v[j]
      BY <1>2 DEF IsJoined
    <2>3. p[Len(p1) + j] = p2[Len(p1) + j]
      BY <1>3, <2>1 DEF IsJoined
    <2> QED
      BY <2>1, <2>2, <2>3
  <1>8. ASSUME NEW j \in 1..Len(w) PROVE p[1 + Len(b) + Len(v) + j] = w[j]
    <2>1. Len(p2) + j = 1 + Len(b) + Len(v) + j
      BY <1>0, <1>4
    <2>2. p[Len(p2) + j] = w[j]
      BY <1>3 DEF IsJoined
    <2> QED
      BY <2>1, <2>2
  <1>9. Len(p) = 1 + Len(b) + Len(v) + Len(w)
    BY <1>0, <1>4
  <1>10. IsPacked(p, h, b, v, w)
    BY <1>5, <1>6, <1>7, <1>8, <1>9 DEF IsPacked
  <1> QED
    BY <1>10 DEF p, p1, p2

\* The same with the integers behind the doubles counted on their own.
RecipeHas(n, i, d, a) ==
    /\ Len(Recipe[n]) = i + d + a
    /\ \A j \in 1..i : Recipe[n][j] = IntReg(j - 1)
    /\ \A j \in 1..d : Recipe[n][i + j] = DoubleReg(j - 1)
    /\ \A j \in 1..a : Recipe[n][i + d + j] = IntReg(i - 1 + j)

LEMMA RecipeParts ==
    ASSUME NEW n, NEW i \in Nat, NEW d \in Nat, NEW a \in Nat, RecipeIs(n, i, d, a)
    PROVE  RecipeHas(n, i, d, a)
  <1>1. \A j \in 1..i : Recipe[n][j] = IntReg(j - 1)
    BY DEF RecipeIs
  <1>2. ASSUME NEW j \in 1..d PROVE Recipe[n][i + j] = DoubleReg(j - 1)
    <2>1. i + j \in 1..(i + d + a) /\ ~(i + j <= i) /\ i + j <= i + d /\ (i + j) - i - 1 = j - 1
      OBVIOUS
    <2> QED
      BY <2>1 DEF RecipeIs
  <1>3. ASSUME NEW j \in 1..a PROVE Recipe[n][i + d + j] = IntReg(i - 1 + j)
    <2>1. /\ i + d + j \in 1..(i + d + a) /\ ~(i + d + j <= i) /\ ~(i + d + j <= i + d)
          /\ (i + d + j) - d - 1 = i - 1 + j
      OBVIOUS
    <2> QED
      BY <2>1 DEF RecipeIs
  <1> QED
    BY <1>1, <1>2, <1>3 DEF RecipeIs, RecipeHas

\* The arguments of f suit a recipe of i integers, d doubles and a integers, and
\* its branch reads them from there.
Suited(f, S, i, d, a) ==
    /\ IntsBefore(f.type) \in Seq(S) /\ f.val \in Seq(S) /\ IntsAfter(f.type) \in Seq(S)
    /\ Len(IntsBefore(f.type)) = i - 1 /\ Len(f.val) = d /\ Len(IntsAfter(f.type)) = a
Served(f) ==
    /\ \A u \in ScriptBranch(f.type).uses :
          Matches(u, IntsBefore(f.type), f.val, IntsAfter(f.type)) \/ Unsent(f, u[1])
    /\ f.type \notin HostContinuous => f.answer \subseteq ScriptBranch(f.type).writes
    /\ f.type # "NO_CMD" /\ f.answer \subseteq OutInt \cup OutDoubles

LEMMA Packed ==
    ASSUME NEW f, NEW S, NEW i \in Nat, NEW d \in Nat, NEW a \in Nat,
           i > 0, f.recipe \in DOMAIN Recipe, RecipeIs(f.recipe, i, d, a),
           Suited(f, S, i, d, a), Served(f)
    PROVE  Fits(f)
  <1> DEFINE before == IntsBefore(f.type)
             after == IntsAfter(f.type)
             head == <<IF f.type = "WATCHDOG" THEN "NO_CMD" ELSE f.type, 0>>
             T == S \cup {head}
  <1>1. /\ <<head>> \in Seq(T) /\ before \in Seq(T) /\ f.val \in Seq(T) /\ after \in Seq(T)
        /\ Len(f.val) = d
    BY DEF Suited
  <1>2. Pack(f) = <<head>> \o before \o f.val \o after
    BY DEF Pack
  <1>0. Len(before) = i - 1 /\ Len(after) = a /\ head \in T
    BY DEF Suited
  <1> HIDE DEF before, after, head, T
  <1>3. /\ Len(Pack(f)) = i + d + a /\ Pack(f)[1] = head
        /\ \A j \in 1..(i - 1) : Pack(f)[1 + j] = before[j]
        /\ \A j \in 1..d : Pack(f)[i + j] = f.val[j]
        /\ \A j \in 1..a : Pack(f)[i + d + j] = after[j]
    <2>1. IsPacked(Pack(f), head, before, f.val, after)
      BY <1>0, <1>1, <1>2, JoinedUp
    <2>2. 1 + Len(before) = i
      BY <1>0
    <2> QED
      BY <1>0, <1>1, <2>1, <2>2 DEF IsPacked
  <1>4. RecipeHas(f.recipe, i, d, a)
    BY RecipeParts
  <1>5. ASSUME NEW u, Matches(u, before, f.val, after)
        PROVE  Carries(f, u)
    <2>1. CASE \E j \in 1..(i - 1) : u = <<before[j], IntReg(j)>>
      <3>1. PICK j \in 1..(i - 1) : u = <<before[j], IntReg(j)>>
        BY <2>1
      <3>2. 1 + j \in 1..Len(Recipe[f.recipe]) /\ 1 + j \in 1..i /\ (1 + j) - 1 = j
        BY <1>4 DEF RecipeHas
      <3>4. Recipe[f.recipe][1 + j] = IntReg(j)
        BY <1>4, <3>2 DEF RecipeHas
      <3>5. Pack(f)[1 + j] = before[j]
        BY <1>3
      <3>3. u[1] = before[j] /\ u[2] = IntReg(j)
        BY <3>1
      <3> QED
        BY <3>2, <3>3, <3>4, <3>5 DEF Carries
    <2>2. CASE \E j \in 1..d : u = <<f.val[j], DoubleReg(j - 1)>>
      <3>1. PICK j \in 1..d : u = <<f.val[j], DoubleReg(j - 1)>>
        BY <2>2
      <3>2. i + j \in 1..Len(Recipe[f.recipe]) /\ Recipe[f.recipe][i + j] = DoubleReg(j - 1)
        BY <1>4 DEF RecipeHas
      <3>4. Pack(f)[i + j] = f.val[j]
        BY <1>3
      <3>3. u[1] = f.val[j] /\ u[2] = DoubleReg(j - 1)
        BY <3>1
      <3> QED
        BY <3>2, <3>3, <3>4 DEF Carries
    <2>3. CASE \E j \in 1..a : u = <<after[j], IntReg(i - 1 + j)>>
      <3>1. PICK j \in 1..a : u = <<after[j], IntReg(i - 1 + j)>>
        BY <2>3
      <3>2. Recipe[f.recipe][i + d + j] = IntReg(i - 1 + j)
        BY <1>4 DEF RecipeHas
      <3>5. i + d + j \in 1..Len(Recipe[f.recipe])
        BY <1>4 DEF RecipeHas
      <3>4. Pack(f)[i + d + j] = after[j]
        BY <1>3
      <3>3. u[1] = after[j] /\ u[2] = IntReg(i - 1 + j)
        BY <3>1
      <3> QED
        BY <3>2, <3>3, <3>4, <3>5 DEF Carries
    <2> QED
      BY <1>0, <1>1, <1>5, <2>1, <2>2, <2>3 DEF Matches
  <1>6. OnceEach(f.recipe) /\ DOMAIN Recipe[f.recipe] = 1..Len(Recipe[f.recipe])
    BY OnceEachIs DEF RecipeIs
  <1>7. Recipe[f.recipe][1] = IntReg(0) /\ Len(Recipe[f.recipe]) = i + d + a
    BY <1>4 DEF RecipeHas
  <1> QED
    BY <1>3, <1>5, <1>6, <1>7 DEF Fits, Served, before, after, head
\* s has the m parts of the argument name after its first n elements.
Holds(s, name, n, m) == n + m <= Len(s) /\ \A k \in 1..m : s[n + k] = <<name, k>>

AllMatch(uses, before, val, after) == \A u \in uses : Matches(u, before, val, after)

LEMMA DoublesMatch ==
    ASSUME NEW before, NEW val, NEW after, NEW name, NEW n \in Nat, Len(val) \in Nat
    PROVE  /\ Holds(val, name, n, 6) => AllMatch(PoseAt(name, n), before, val, after)
           /\ Holds(val, name, n, 3) => AllMatch(ListAt(name, n), before, val, after)
           /\ Holds(val, name, n, 1) => AllMatch(FloatAt(name, n), before, val, after)
  <1>1. ASSUME NEW m \in Nat, Holds(val, name, n, m), NEW k \in 1..m, NEW u,
               u = << <<name, k>>, DoubleReg(n + k - 1)>>
        PROVE  Matches(u, before, val, after)
    <2>1. n + k \in 1..Len(val) /\ val[n + k] = <<name, k>> /\ n + k - 1 = (n + k) - 1
      BY <1>1 DEF Holds
    <2>2. u = <<val[n + k], DoubleReg((n + k) - 1)>>
      BY <1>1, <2>1
    <2> QED
      BY <2>1, <2>2 DEF Matches
  <1>2. ASSUME Holds(val, name, n, 1), NEW u, u = << <<name, 1>>, DoubleReg(n)>>
        PROVE  Matches(u, before, val, after)
    <2>1. n + 1 - 1 = n /\ 1 \in 1..1
      OBVIOUS
    <2> QED
      BY <1>1, <1>2, <2>1
  <1> QED
    BY <1>1, <1>2 DEF PoseAt, ListAt, FloatAt, AllMatch

LEMMA IntsMatch ==
    ASSUME NEW before, NEW val, NEW after, NEW name, NEW n \in Nat,
           Len(before) \in Nat, Len(after) \in Nat
    PROVE  /\ (n > 0 /\ Holds(before, name, n - 1, 6)) =>
                 AllMatch(IntsAt(name, n), before, val, after)
           /\ (n > 0 /\ Holds(before, name, n - 1, 1)) =>
                 AllMatch(IntAt(name, n), before, val, after)
           /\ (n = Len(before) + 1 /\ Holds(after, name, 0, 1)) =>
                 AllMatch(IntAt(name, n), before, val, after)
  <1>1. ASSUME n > 0, NEW m \in Nat, Holds(before, name, n - 1, m), NEW k \in 1..m, NEW u,
               u = << <<name, k>>, IntReg(n + k - 1)>>
        PROVE  Matches(u, before, val, after)
    <2>1. n - 1 + k \in 1..Len(before) /\ before[n - 1 + k] = <<name, k>> /\ n - 1 + k = n + k - 1
      BY <1>1 DEF Holds
    <2>2. u = <<before[n - 1 + k], IntReg(n - 1 + k)>>
      BY <1>1, <2>1
    <2> QED
      BY <2>1, <2>2 DEF Matches
  <1>2. ASSUME n > 0, Holds(before, name, n - 1, 1), NEW u, u = << <<name, 1>>, IntReg(n)>>
        PROVE  Matches(u, before, val, after)
    <2>1. n + 1 - 1 = n /\ 1 \in 1..1
      OBVIOUS
    <2> QED
      BY <1>1, <1>2, <2>1
  <1>3. ASSUME n = Len(before) + 1, Holds(after, name, 0, 1), NEW u, u = << <<name, 1>>, IntReg(n)>>
        PROVE  Matches(u, before, val, after)
    <2>1. 1 \in 1..Len(after) /\ after[1] = <<name, 1>>
      BY <1>3 DEF Holds
    <2>2. u = <<after[1], IntReg(Len(before) + 1)>>
      BY <1>3, <2>1
    <2> QED
      BY <2>1, <2>2 DEF Matches
  <1> QED
    BY <1>1, <1>2, <1>3 DEF IntsAt, IntAt, AllMatch
-----------------------------------------------------------------------------(* The tables *)

\* The names of arguments.
ArgNames ==
    {"a", "acc", "acceleration", "async", "blend", "cog", "custom_frame", "damping", "direction",
     "dummy", "enable", "external_force_torque", "feature", "force_mode_type", "free_axes", "gain",
     "inertia", "limits", "lookahead_time", "mass", "max_orientation_error",
     "max_position_error", "min_frequency", "p_from", "p_from_to", "pose", "q", "qd", "qnear",
     "scaling", "selection_vector", "sensor_cog", "sensor_mass", "sensor_measuring_offset",
     "speed", "speeds", "steps", "task_frame", "tcp_offset", "time", "transform", "wrench", "x",
     "xd"}

Parts == {<<x, k>> : x \in ArgNames, k \in 1..6}

\* The parts of one argument.
IsArg(s, x, m) == s \in Seq(Parts) /\ Len(s) = m /\ \A k \in 1..m : s[k] = <<x, k>>

LEMMA VecIsArg ==
    ASSUME NEW x \in ArgNames
    PROVE  IsArg(Vec(x), x, 6)
  BY DEF Vec, IsArg, Parts

LEMMA Vec3IsArg ==
    ASSUME NEW x \in ArgNames
    PROVE  IsArg(Vec3(x), x, 3)
  BY DEF Vec3, IsArg, Parts

LEMMA OneIsArg ==
    ASSUME NEW x \in ArgNames
    PROVE  IsArg(One(x), x, 1)
  BY DEF One, IsArg, Parts

\* A function with the given arguments, and what its branch uses.
Shape(f, recipe, before, val, after, uses) ==
    /\ f.recipe = recipe
    /\ IntsBefore(f.type) = before /\ f.val = val /\ IntsAfter(f.type) = after
    /\ ScriptBranch(f.type).uses = uses
    /\ f.type \notin HostContinuous => f.answer \subseteq ScriptBranch(f.type).writes
    /\ f.type # "NO_CMD" /\ f.answer \subseteq OutInt \cup OutDoubles

\* Such arguments suit a recipe of i integers, d doubles and a integers.
Suits(i, d, a, before, val, after) ==
    /\ before \in Seq(Parts) /\ val \in Seq(Parts) /\ after \in Seq(Parts)
    /\ Len(before) = i - 1 /\ Len(val) = d /\ Len(after) = a

LEMMA SentShapeFits ==
    ASSUME NEW f, NEW recipe \in 1..20, NEW i \in Nat, NEW d \in Nat, NEW a \in Nat,
           NEW before, NEW val, NEW after, NEW uses,
           i > 0, RecipeIs(recipe, i, d, a), Suits(i, d, a, before, val, after),
           Shape(f, recipe, before, val, after, uses),
           \A u \in uses : Matches(u, before, val, after) \/ Unsent(f, u[1])
    PROVE  Fits(f)
  <1>1. f.recipe \in DOMAIN Recipe /\ f.recipe = recipe
    BY RecipeCount DEF Shape
  <1>2. RecipeIs(f.recipe, i, d, a)
    BY <1>1
  <1> QED
    BY <1>1, <1>2, Packed DEF Shape, Suits, Suited, Served

\* The usual case: everything that the branch reads is sent.
LEMMA ShapeFits ==
    ASSUME NEW f, NEW recipe \in 1..20, NEW i \in Nat, NEW d \in Nat, NEW a \in Nat,
           NEW before, NEW val, NEW after, NEW uses,
           i > 0, RecipeIs(recipe, i, d, a), Suits(i, d, a, before, val, after),
           Shape(f, recipe, before, val, after, uses), AllMatch(uses, before, val, after)
    PROVE  Fits(f)
  BY SentShapeFits DEF AllMatch

Filled(v, n) == v \in Seq(Parts) /\ Len(v) = n

\* stopL, stopJ.
LEMMA StopFits ==
    ASSUME NEW f,
           Shape(f, 19, <<>>, One("a"), One("async"), StopArgs)
    PROVE  Fits(f)
  <1> DEFINE v == One("a")
             w == One("async")
  <1>1. Filled(v, 1) /\ Holds(v, "a", 0, 1)
    <2>1. Len(v) = 1 /\ v[1] = <<"a", 1>>
      BY DEF One
    <2>2. v \in Seq(Parts)
      BY OneIsArg DEF ArgNames, IsArg
    <2> HIDE DEF v
    <2> QED
      BY <2>1, <2>2 DEF Filled, Holds
  <1>2. Filled(w, 1) /\ Holds(w, "async", 0, 1)
    <2>1. Len(w) = 1 /\ w[1] = <<"async", 1>>
      BY DEF One
    <2>2. w \in Seq(Parts)
      BY OneIsArg DEF ArgNames, IsArg
    <2> HIDE DEF w
    <2> QED
      BY <2>1, <2>2 DEF Filled, Holds
  <1>3. Shape(f, 19, <<>>, v, w, StopArgs)
    OBVIOUS
  <1> HIDE DEF v, w
  <1>4. Suits(1, 1, 1, <<>>, v, w) /\ Len(<<>>) = 0
    BY <1>1, <1>2 DEF Suits, Filled
  <1>5. AllMatch(FloatAt("a", 0), <<>>, v, w)
    BY <1>1, <1>4, DoublesMatch DEF Suits
  <1>6. AllMatch(IntAt("async", 1), <<>>, v, w)
    BY <1>2, <1>4, IntsMatch DEF Suits
  <1>7. AllMatch(StopArgs, <<>>, v, w)
    BY <1>5, <1>6 DEF AllMatch, StopArgs
  <1>8. RecipeIs(19, 1, 1, 1)
    BY RecipeTable
  <1> QED
    BY <1>3, <1>4, <1>7, <1>8, ShapeFits

\* moveJ, moveJ_IK, moveL, moveL_FK.
LEMMA MoveFits ==
    ASSUME NEW f, NEW x \in {"q", "transform"},
           Shape(f, 1, <<>>, Vec(x) \o Opt, One("async"), MoveArgs(x))
    PROVE  Fits(f)
  <1> DEFINE v == Vec(x) \o Opt
             w == One("async")
  <1>1. /\ Filled(v, 8) /\ Holds(v, x, 0, 6) /\ Holds(v, "speed", 6, 1)
        /\ Holds(v, "acceleration", 7, 1)
    <2>1. /\ Len(v) = 8
          /\ \A k \in 1..6 : v[k] = <<x, k>>
          /\ v[7] = <<"speed", 1>> /\ v[8] = <<"acceleration", 1>>
      BY DEF One, Vec, Opt
    <2>2. /\ Vec(x) \in Seq(Parts) /\ One("speed") \in Seq(Parts)
          /\ One("acceleration") \in Seq(Parts)
      BY OneIsArg, VecIsArg DEF ArgNames, IsArg
    <2>3. v \in Seq(Parts)
      BY <2>2 DEF Opt
    <2> HIDE DEF v
    <2> QED
      BY <2>1, <2>3 DEF Filled, Holds
  <1>2. Filled(w, 1) /\ Holds(w, "async", 0, 1)
    <2>1. Len(w) = 1 /\ w[1] = <<"async", 1>>
      BY DEF One
    <2>2. w \in Seq(Parts)
      BY OneIsArg DEF ArgNames, IsArg
    <2> HIDE DEF w
    <2> QED
      BY <2>1, <2>2 DEF Filled, Holds
  <1>3. Shape(f, 1, <<>>, v, w, MoveArgs(x))
    OBVIOUS
  <1> HIDE DEF v, w
  <1>4. Suits(1, 8, 1, <<>>, v, w) /\ Len(<<>>) = 0
    BY <1>1, <1>2 DEF Suits, Filled
  <1>5. /\ AllMatch(PoseAt(x, 0), <<>>, v, w) /\ AllMatch(FloatAt("speed", 6), <<>>, v, w)
        /\ AllMatch(FloatAt("acceleration", 7), <<>>, v, w)
    BY <1>1, <1>4, DoublesMatch DEF Suits
  <1>6. AllMatch(IntAt("async", 1), <<>>, v, w)
    BY <1>2, <1>4, IntsMatch DEF Suits
  <1>7. AllMatch(MoveArgs(x), <<>>, v, w)
    BY <1>5, <1>6 DEF AllMatch, MoveArgs
  <1>8. RecipeIs(1, 1, 8, 1)
    BY RecipeTable
  <1> QED
    BY <1>3, <1>4, <1>7, <1>8, ShapeFits

\* The functions without an argument.
LEMMA PlainFits ==
    ASSUME NEW f,
           Shape(f, 4, <<>>, <<>>, <<>>, {})
    PROVE  Fits(f)
  <1>1. Shape(f, 4, <<>>, <<>>, <<>>, {})
    OBVIOUS
  <1>2. Suits(1, 0, 0, <<>>, <<>>, <<>>) /\ Len(<<>>) = 0
    BY DEF Suits, Filled
  <1>3. AllMatch({}, <<>>, <<>>, <<>>)
    BY DEF AllMatch
  <1>4. RecipeIs(4, 1, 0, 0)
    BY RecipeTable
  <1> QED
    BY <1>1, <1>2, <1>3, <1>4, ShapeFits

\* The functions of one pose or vector.
LEMMA PoseFits ==
    ASSUME NEW f, NEW x \in {"direction", "tcp_offset", "x", "pose", "q"},
           Shape(f, 6, <<>>, Vec(x), <<>>, PoseAt(x, 0))
    PROVE  Fits(f)
  <1> DEFINE v == Vec(x)
  <1>1. Filled(v, 6) /\ Holds(v, x, 0, 6)
    <2>1. Len(v) = 6 /\ \A k \in 1..6 : v[k] = <<x, k>>
      BY DEF Vec
    <2>2. v \in Seq(Parts)
      BY VecIsArg DEF ArgNames, IsArg
    <2> HIDE DEF v
    <2> QED
      BY <2>1, <2>2 DEF Filled, Holds
  <1>2. Shape(f, 6, <<>>, v, <<>>, PoseAt(x, 0))
    OBVIOUS
  <1> HIDE DEF v
  <1>3. Suits(1, 6, 0, <<>>, v, <<>>) /\ Len(<<>>) = 0
    BY <1>1 DEF Suits, Filled
  <1>4. AllMatch(PoseAt(x, 0), <<>>, v, <<>>)
    BY <1>1, <1>3, DoublesMatch DEF Suits
  <1>5. RecipeIs(6, 1, 6, 0)
    BY RecipeTable
  <1> QED
    BY <1>2, <1>3, <1>4, <1>5, ShapeFits

\* The functions of one number.
LEMMA FloatFits ==
    ASSUME NEW f, NEW x \in {"a", "damping", "scaling", "min_frequency"},
           Shape(f, 8, <<>>, One(x), <<>>, FloatAt(x, 0))
    PROVE  Fits(f)
  <1> DEFINE v == One(x)
  <1>1. Filled(v, 1) /\ Holds(v, x, 0, 1)
    <2>1. Len(v) = 1 /\ v[1] = <<x, 1>>
      BY DEF One
    <2>2. v \in Seq(Parts)
      BY OneIsArg DEF ArgNames, IsArg
    <2> HIDE DEF v
    <2> QED
      BY <2>1, <2>2 DEF Filled, Holds
  <1>2. Shape(f, 8, <<>>, v, <<>>, FloatAt(x, 0))
    OBVIOUS
  <1> HIDE DEF v
  <1>3. Suits(1, 1, 0, <<>>, v, <<>>) /\ Len(<<>>) = 0
    BY <1>1 DEF Suits, Filled
  <1>4. AllMatch(FloatAt(x, 0), <<>>, v, <<>>)
    BY <1>1, <1>3, DoublesMatch DEF Suits
  <1>5. RecipeIs(8, 1, 1, 0)
    BY RecipeTable
  <1> QED
    BY <1>2, <1>3, <1>4, <1>5, ShapeFits

\* jogStart.
LEMMA JogFits ==
    ASSUME NEW f,
           Shape(f, 14, <<>>, Vec("speeds") \o One("feature") \o One("acc")
                 \o Vec("custom_frame"), <<>>, PoseAt("speeds", 0)
                 \cup FloatAt("feature", 6) \cup FloatAt("acc", 7)
                 \cup PoseAt("custom_frame", 8))
    PROVE  Fits(f)
  <1> DEFINE v == Vec("speeds") \o One("feature") \o One("acc") \o Vec("custom_frame")
             uses == PoseAt("speeds", 0) \cup FloatAt("feature", 6) \cup FloatAt("acc", 7)
                     \cup PoseAt("custom_frame", 8)
  <1>1. /\ Filled(v, 14) /\ Holds(v, "speeds", 0, 6) /\ Holds(v, "feature", 6, 1)
        /\ Holds(v, "acc", 7, 1) /\ Holds(v, "custom_frame", 8, 6)
    <2>1. /\ Len(v) = 14
          /\ \A k \in 1..6 : v[k] = <<"speeds", k>>
          /\ v[7] = <<"feature", 1>> /\ v[8] = <<"acc", 1>>
          /\ \A k \in 1..6 : v[8 + k] = <<"custom_frame", k>>
      BY DEF One, Vec
    <2>2. /\ Vec("speeds") \in Seq(Parts) /\ One("feature") \in Seq(Parts)
          /\ One("acc") \in Seq(Parts) /\ Vec("custom_frame") \in Seq(Parts)
      BY OneIsArg, VecIsArg DEF ArgNames, IsArg
    <2>3. v \in Seq(Parts)
      BY <2>2
    <2> HIDE DEF v
    <2> QED
      BY <2>1, <2>3 DEF Filled, Holds
  <1>2. Shape(f, 14, <<>>, v, <<>>, uses)
    OBVIOUS
  <1> HIDE DEF v
  <1>3. Suits(1, 14, 0, <<>>, v, <<>>) /\ Len(<<>>) = 0
    BY <1>1 DEF Suits, Filled
  <1>4. /\ AllMatch(PoseAt("speeds", 0), <<>>, v, <<>>)
        /\ AllMatch(FloatAt("feature", 6), <<>>, v, <<>>)
        /\ AllMatch(FloatAt("acc", 7), <<>>, v, <<>>)
        /\ AllMatch(PoseAt("custom_frame", 8), <<>>, v, <<>>)
    BY <1>1, <1>3, DoublesMatch DEF Suits
  <1>5. AllMatch(uses, <<>>, v, <<>>)
    BY <1>4 DEF AllMatch
  <1>6. RecipeIs(14, 1, 14, 0)
    BY RecipeTable
  <1> HIDE DEF uses
  <1> QED
    BY <1>2, <1>3, <1>5, <1>6, ShapeFits

\* forceMode.
LEMMA ForceModeFits ==
    ASSUME NEW f,
           Shape(f, 3, One("force_mode_type") \o Vec("selection_vector"),
                 Vec("task_frame") \o Vec("wrench") \o Vec("limits"), <<>>,
                 IntAt("force_mode_type", 1) \cup IntsAt("selection_vector", 2)
                 \cup PoseAt("task_frame", 0) \cup PoseAt("wrench", 6)
                 \cup PoseAt("limits", 12))
    PROVE  Fits(f)
  <1> DEFINE b == One("force_mode_type") \o Vec("selection_vector")
             v == Vec("task_frame") \o Vec("wrench") \o Vec("limits")
             uses == IntAt("force_mode_type", 1) \cup IntsAt("selection_vector", 2)
                     \cup PoseAt("task_frame", 0) \cup PoseAt("wrench", 6)
                     \cup PoseAt("limits", 12)
  <1>1. /\ Filled(b, 7) /\ Holds(b, "force_mode_type", 0, 1)
        /\ Holds(b, "selection_vector", 1, 6)
    <2>1. /\ Len(b) = 7 /\ b[1] = <<"force_mode_type", 1>>
          /\ \A k \in 1..6 : b[1 + k] = <<"selection_vector", k>>
      BY DEF One, Vec
    <2>2. One("force_mode_type") \in Seq(Parts) /\ Vec("selection_vector") \in Seq(Parts)
      BY OneIsArg, VecIsArg DEF ArgNames, IsArg
    <2>3. b \in Seq(Parts)
      BY <2>2
    <2> HIDE DEF b
    <2> QED
      BY <2>1, <2>3 DEF Filled, Holds
  <1>2. /\ Filled(v, 18) /\ Holds(v, "task_frame", 0, 6) /\ Holds(v, "wrench", 6, 6)
        /\ Holds(v, "limits", 12, 6)
    <2>1. /\ Len(v) = 18
          /\ \A k \in 1..6 : v[k] = <<"task_frame", k>>
          /\ \A k \in 1..6 : v[6 + k] = <<"wrench", k>>
          /\ \A k \in 1..6 : v[12 + k] = <<"limits", k>>
      BY DEF Vec
    <2>2. /\ Vec("task_frame") \in Seq(Parts) /\ Vec("wrench") \in Seq(Parts)
          /\ Vec("limits") \in Seq(Parts)
      BY VecIsArg DEF ArgNames, IsArg
    <2>3. v \in Seq(Parts)
      BY <2>2
    <2> HIDE DEF v
    <2> QED
      BY <2>1, <2>3 DEF Filled, Holds
  <1>3. Shape(f, 3, b, v, <<>>, uses)
    OBVIOUS
  <1> HIDE DEF b, v
  <1>4. Suits(8, 18, 0, b, v, <<>>) /\ Len(<<>>) = 0
    BY <1>1, <1>2 DEF Suits, Filled
  <1>5. /\ AllMatch(IntAt("force_mode_type", 1), b, v, <<>>)
        /\ AllMatch(IntsAt("selection_vector", 2), b, v, <<>>)
    BY <1>1, <1>4, IntsMatch DEF Suits
  <1>6. /\ AllMatch(PoseAt("task_frame", 0), b, v, <<>>)
        /\ AllMatch(PoseAt("wrench", 6), b, v, <<>>)
        /\ AllMatch(PoseAt("limits", 12), b, v, <<>>)
    BY <1>2, <1>4, DoublesMatch DEF Suits
  <1>7. AllMatch(uses, b, v, <<>>)
    BY <1>5, <1>6 DEF AllMatch
  <1>8. RecipeIs(3, 8, 18, 0)
    BY RecipeTable
  <1> HIDE DEF uses
  <1> QED
    BY <1>3, <1>4, <1>7, <1>8, ShapeFits

\* speedJ, speedL.
LEMMA SpeedFits ==
    ASSUME NEW f, NEW x \in {"qd", "xd"},
           Shape(f, 13, <<>>, Vec(x) \o One("acceleration") \o One("time"), <<>>,
                 SpeedArgs(x))
    PROVE  Fits(f)
  <1> DEFINE v == Vec(x) \o One("acceleration") \o One("time")
  <1>1. /\ Filled(v, 8) /\ Holds(v, x, 0, 6) /\ Holds(v, "acceleration", 6, 1)
        /\ Holds(v, "time", 7, 1)
    <2>1. /\ Len(v) = 8
          /\ \A k \in 1..6 : v[k] = <<x, k>>
          /\ v[7] = <<"acceleration", 1>> /\ v[8] = <<"time", 1>>
      BY DEF One, Vec
    <2>2. /\ Vec(x) \in Seq(Parts) /\ One("acceleration") \in Seq(Parts)
          /\ One("time") \in Seq(Parts)
      BY OneIsArg, VecIsArg DEF ArgNames, IsArg
    <2>3. v \in Seq(Parts)
      BY <2>2
    <2> HIDE DEF v
    <2> QED
      BY <2>1, <2>3 DEF Filled, Holds
  <1>2. Shape(f, 13, <<>>, v, <<>>, SpeedArgs(x))
    OBVIOUS
  <1> HIDE DEF v
  <1>3. Suits(1, 8, 0, <<>>, v, <<>>) /\ Len(<<>>) = 0
    BY <1>1 DEF Suits, Filled
  <1>4. /\ AllMatch(PoseAt(x, 0), <<>>, v, <<>>)
        /\ AllMatch(FloatAt("acceleration", 6), <<>>, v, <<>>)
        /\ AllMatch(FloatAt("time", 7), <<>>, v, <<>>)
    BY <1>1, <1>3, DoublesMatch DEF Suits
  <1>5. AllMatch(SpeedArgs(x), <<>>, v, <<>>)
    BY <1>4 DEF AllMatch, SpeedArgs
  <1>6. RecipeIs(13, 1, 8, 0)
    BY RecipeTable
  <1> QED
    BY <1>2, <1>3, <1>5, <1>6, ShapeFits

\* servoJ, servoL.
LEMMA ServoFits ==
    ASSUME NEW f, NEW x \in {"q", "pose"},
           Shape(f, 2, <<>>, Vec(x) \o Opt \o One("time") \o One("lookahead_time")
                 \o One("gain"), <<>>, ServoArgs(x))
    PROVE  Fits(f)
  <1> DEFINE v == Vec(x) \o Opt \o One("time") \o One("lookahead_time") \o One("gain")
  <1>1. /\ Filled(v, 11) /\ Holds(v, x, 0, 6) /\ Holds(v, "speed", 6, 1)
        /\ Holds(v, "acceleration", 7, 1) /\ Holds(v, "time", 8, 1)
        /\ Holds(v, "lookahead_time", 9, 1) /\ Holds(v, "gain", 10, 1)
    <2>1. /\ Len(v) = 11
          /\ \A k \in 1..6 : v[k] = <<x, k>>
          /\ v[7] = <<"speed", 1>> /\ v[8] = <<"acceleration", 1>> /\ v[9] = <<"time", 1>>
          /\ v[10] = <<"lookahead_time", 1>> /\ v[11] = <<"gain", 1>>
      BY DEF One, Vec, Opt
    <2>2. /\ Vec(x) \in Seq(Parts) /\ One("speed") \in Seq(Parts)
          /\ One("acceleration") \in Seq(Parts) /\ One("time") \in Seq(Parts)
          /\ One("lookahead_time") \in Seq(Parts) /\ One("gain") \in Seq(Parts)
      BY OneIsArg, VecIsArg DEF ArgNames, IsArg
    <2>3. v \in Seq(Parts)
      BY <2>2 DEF Opt
    <2> HIDE DEF v
    <2> QED
      BY <2>1, <2>3 DEF Filled, Holds
  <1>2. Shape(f, 2, <<>>, v, <<>>, ServoArgs(x))
    OBVIOUS
  <1> HIDE DEF v
  <1>3. Suits(1, 11, 0, <<>>, v, <<>>) /\ Len(<<>>) = 0
    BY <1>1 DEF Suits, Filled
  <1>4. /\ AllMatch(PoseAt(x, 0), <<>>, v, <<>>)
        /\ AllMatch(FloatAt("time", 8), <<>>, v, <<>>)
        /\ AllMatch(FloatAt("lookahead_time", 9), <<>>, v, <<>>)
        /\ AllMatch(FloatAt("gain", 10), <<>>, v, <<>>)
    BY <1>1, <1>3, DoublesMatch DEF Suits
  <1>5. AllMatch(ServoArgs(x), <<>>, v, <<>>)
    BY <1>4 DEF AllMatch, ServoArgs
  <1>6. RecipeIs(2, 1, 11, 0)
    BY RecipeTable
  <1> QED
    BY <1>2, <1>3, <1>5, <1>6, ShapeFits

\* servoC.
LEMMA ServoCFits ==
    ASSUME NEW f,
           Shape(f, 5, <<>>, Vec("pose") \o Opt \o One("blend"), <<>>,
                 PoseAt("pose", 0) \cup FloatAt("speed", 6) \cup FloatAt("acceleration", 7)
                 \cup FloatAt("blend", 8))
    PROVE  Fits(f)
  <1> DEFINE v == Vec("pose") \o Opt \o One("blend")
             uses == PoseAt("pose", 0) \cup FloatAt("speed", 6)
                     \cup FloatAt("acceleration", 7) \cup FloatAt("blend", 8)
  <1>1. /\ Filled(v, 9) /\ Holds(v, "pose", 0, 6) /\ Holds(v, "speed", 6, 1)
        /\ Holds(v, "acceleration", 7, 1) /\ Holds(v, "blend", 8, 1)
    <2>1. /\ Len(v) = 9
          /\ \A k \in 1..6 : v[k] = <<"pose", k>>
          /\ v[7] = <<"speed", 1>> /\ v[8] = <<"acceleration", 1>> /\ v[9] = <<"blend", 1>>
      BY DEF One, Vec, Opt
    <2>2. /\ Vec("pose") \in Seq(Parts) /\ One("speed") \in Seq(Parts)
          /\ One("acceleration") \in Seq(Parts) /\ One("blend") \in Seq(Parts)
      BY OneIsArg, VecIsArg DEF ArgNames, IsArg
    <2>3. v \in Seq(Parts)
      BY <2>2 DEF Opt
    <2> HIDE DEF v
    <2> QED
      BY <2>1, <2>3 DEF Filled, Holds
  <1>2. Shape(f, 5, <<>>, v, <<>>, uses)
    OBVIOUS
  <1> HIDE DEF v
  <1>3. Suits(1, 9, 0, <<>>, v, <<>>) /\ Len(<<>>) = 0
    BY <1>1 DEF Suits, Filled
  <1>4. /\ AllMatch(PoseAt("pose", 0), <<>>, v, <<>>)
        /\ AllMatch(FloatAt("speed", 6), <<>>, v, <<>>)
        /\ AllMatch(FloatAt("acceleration", 7), <<>>, v, <<>>)
        /\ AllMatch(FloatAt("blend", 8), <<>>, v, <<>>)
    BY <1>1, <1>3, DoublesMatch DEF Suits
  <1>5. AllMatch(uses, <<>>, v, <<>>)
    BY <1>4 DEF AllMatch
  <1>6. RecipeIs(5, 1, 9, 0)
    BY RecipeTable
  <1> HIDE DEF uses
  <1> QED
    BY <1>2, <1>3, <1>5, <1>6, ShapeFits

\* setPayload.
LEMMA PayloadFits ==
    ASSUME NEW f,
           Shape(f, 7, <<>>, One("mass") \o Vec3("cog"), <<>>, FloatAt("mass", 0)
                 \cup ListAt("cog", 1))
    PROVE  Fits(f)
  <1> DEFINE v == One("mass") \o Vec3("cog")
             uses == FloatAt("mass", 0) \cup ListAt("cog", 1)
  <1>1. Filled(v, 4) /\ Holds(v, "mass", 0, 1) /\ Holds(v, "cog", 1, 3)
    <2>1. Len(v) = 4 /\ v[1] = <<"mass", 1>> /\ \A k \in 1..3 : v[1 + k] = <<"cog", k>>
      BY DEF One, Vec3
    <2>2. One("mass") \in Seq(Parts) /\ Vec3("cog") \in Seq(Parts)
      BY OneIsArg, Vec3IsArg DEF ArgNames, IsArg
    <2>3. v \in Seq(Parts)
      BY <2>2
    <2> HIDE DEF v
    <2> QED
      BY <2>1, <2>3 DEF Filled, Holds
  <1>2. Shape(f, 7, <<>>, v, <<>>, uses)
    OBVIOUS
  <1> HIDE DEF v
  <1>3. Suits(1, 4, 0, <<>>, v, <<>>) /\ Len(<<>>) = 0
    BY <1>1 DEF Suits, Filled
  <1>4. /\ AllMatch(FloatAt("mass", 0), <<>>, v, <<>>)
        /\ AllMatch(ListAt("cog", 1), <<>>, v, <<>>)
    BY <1>1, <1>3, DoublesMatch DEF Suits
  <1>5. AllMatch(uses, <<>>, v, <<>>)
    BY <1>4 DEF AllMatch
  <1>6. RecipeIs(7, 1, 4, 0)
    BY RecipeTable
  <1> HIDE DEF uses
  <1> QED
    BY <1>2, <1>3, <1>5, <1>6, ShapeFits

\* setGravity, with a fourth number that nobody reads.
LEMMA GravityFits ==
    ASSUME NEW f,
           Shape(f, 7, <<>>, Vec3("direction") \o One("dummy"), <<>>,
                 ListAt("direction", 0))
    PROVE  Fits(f)
  <1> DEFINE v == Vec3("direction") \o One("dummy")
  <1>1. Filled(v, 4) /\ Holds(v, "direction", 0, 3) /\ Holds(v, "dummy", 3, 1)
    <2>1. /\ Len(v) = 4
          /\ \A k \in 1..3 : v[k] = <<"direction", k>>
          /\ v[4] = <<"dummy", 1>>
      BY DEF One, Vec3
    <2>2. Vec3("direction") \in Seq(Parts) /\ One("dummy") \in Seq(Parts)
      BY OneIsArg, Vec3IsArg DEF ArgNames, IsArg
    <2>3. v \in Seq(Parts)
      BY <2>2
    <2> HIDE DEF v
    <2> QED
      BY <2>1, <2>3 DEF Filled, Holds
  <1>2. Shape(f, 7, <<>>, v, <<>>, ListAt("direction", 0))
    OBVIOUS
  <1> HIDE DEF v
  <1>3. Suits(1, 4, 0, <<>>, v, <<>>) /\ Len(<<>>) = 0
    BY <1>1 DEF Suits, Filled
  <1>4. AllMatch(ListAt("direction", 0), <<>>, v, <<>>)
    BY <1>1, <1>3, DoublesMatch DEF Suits
  <1>5. RecipeIs(7, 1, 4, 0)
    BY RecipeTable
  <1> QED
    BY <1>2, <1>3, <1>4, <1>5, ShapeFits

\* getActualJointPositionsHistory.
LEMMA HistoryFits ==
    ASSUME NEW f,
           Shape(f, 9, One("steps"), <<>>, <<>>, IntAt("steps", 1))
    PROVE  Fits(f)
  <1> DEFINE b == One("steps")
  <1>1. Filled(b, 1) /\ Holds(b, "steps", 0, 1)
    <2>1. Len(b) = 1 /\ b[1] = <<"steps", 1>>
      BY DEF One
    <2>2. b \in Seq(Parts)
      BY OneIsArg DEF ArgNames, IsArg
    <2> HIDE DEF b
    <2> QED
      BY <2>1, <2>2 DEF Filled, Holds
  <1>2. Shape(f, 9, b, <<>>, <<>>, IntAt("steps", 1))
    OBVIOUS
  <1> HIDE DEF b
  <1>3. Suits(2, 0, 0, b, <<>>, <<>>) /\ Len(<<>>) = 0
    BY <1>1 DEF Suits, Filled
  <1>4. AllMatch(IntAt("steps", 1), b, <<>>, <<>>)
    BY <1>1, <1>3, IntsMatch DEF Suits
  <1>5. RecipeIs(9, 2, 0, 0)
    BY RecipeTable
  <1> QED
    BY <1>2, <1>3, <1>4, <1>5, ShapeFits

\* The inverse kinematics with qnear.
LEMMA KinematicsFits ==
    ASSUME NEW f,
           Shape(f, 10, <<>>, Vec("x") \o Vec("qnear") \o One("max_position_error")
                 \o One("max_orientation_error"), <<>>, KinArgs)
    PROVE  Fits(f)
  <1> DEFINE v == Vec("x") \o Vec("qnear") \o One("max_position_error")
                  \o One("max_orientation_error")
  <1>1. /\ Filled(v, 14) /\ Holds(v, "x", 0, 6) /\ Holds(v, "qnear", 6, 6)
        /\ Holds(v, "max_position_error", 12, 1) /\ Holds(v, "max_orientation_error", 13, 1)
    <2>1. /\ Len(v) = 14
          /\ \A k \in 1..6 : v[k] = <<"x", k>>
          /\ \A k \in 1..6 : v[6 + k] = <<"qnear", k>>
          /\ v[13] = <<"max_position_error", 1>> /\ v[14] = <<"max_orientation_error", 1>>
      BY DEF One, Vec
    <2>2. /\ Vec("x") \in Seq(Parts) /\ Vec("qnear") \in Seq(Parts)
          /\ One("max_position_error") \in Seq(Parts)
          /\ One("max_orientation_error") \in Seq(Parts)
      BY OneIsArg, VecIsArg DEF ArgNames, IsArg
    <2>3. v \in Seq(Parts)
      BY <2>2
    <2> HIDE DEF v
    <2> QED
      BY <2>1, <2>3 DEF Filled, Holds
  <1>2. Shape(f, 10, <<>>, v, <<>>, KinArgs)
    OBVIOUS
  <1> HIDE DEF v
  <1>3. Suits(1, 14, 0, <<>>, v, <<>>) /\ Len(<<>>) = 0
    BY <1>1 DEF Suits, Filled
  <1>4. /\ AllMatch(PoseAt("x", 0), <<>>, v, <<>>)
        /\ AllMatch(PoseAt("qnear", 6), <<>>, v, <<>>)
        /\ AllMatch(FloatAt("max_position_error", 12), <<>>, v, <<>>)
        /\ AllMatch(FloatAt("max_orientation_error", 13), <<>>, v, <<>>)
    BY <1>1, <1>3, DoublesMatch DEF Suits
  <1>5. AllMatch(KinArgs, <<>>, v, <<>>)
    BY <1>4 DEF AllMatch, KinArgs
  <1>6. RecipeIs(10, 1, 14, 0)
    BY RecipeTable
  <1> QED
    BY <1>2, <1>3, <1>5, <1>6, ShapeFits

\* poseTrans.
LEMMA TransFits ==
    ASSUME NEW f,
           Shape(f, 12, <<>>, Vec("p_from") \o Vec("p_from_to"), <<>>,
                 PoseAt("p_from", 0) \cup PoseAt("p_from_to", 6))
    PROVE  Fits(f)
  <1> DEFINE v == Vec("p_from") \o Vec("p_from_to")
             uses == PoseAt("p_from", 0) \cup PoseAt("p_from_to", 6)
  <1>1. Filled(v, 12) /\ Holds(v, "p_from", 0, 6) /\ Holds(v, "p_from_to", 6, 6)
    <2>1. /\ Len(v) = 12
          /\ \A k \in 1..6 : v[k] = <<"p_from", k>>
          /\ \A k \in 1..6 : v[6 + k] = <<"p_from_to", k>>
      BY DEF Vec
    <2>2. Vec("p_from") \in Seq(Parts) /\ Vec("p_from_to") \in Seq(Parts)
      BY VecIsArg DEF ArgNames, IsArg
    <2>3. v \in Seq(Parts)
      BY <2>2
    <2> HIDE DEF v
    <2> QED
      BY <2>1, <2>3 DEF Filled, Holds
  <1>2. Shape(f, 12, <<>>, v, <<>>, uses)
    OBVIOUS
  <1> HIDE DEF v
  <1>3. Suits(1, 12, 0, <<>>, v, <<>>) /\ Len(<<>>) = 0
    BY <1>1 DEF Suits, Filled
  <1>4. /\ AllMatch(PoseAt("p_from", 0), <<>>, v, <<>>)
        /\ AllMatch(PoseAt("p_from_to", 6), <<>>, v, <<>>)
    BY <1>1, <1>3, DoublesMatch DEF Suits
  <1>5. AllMatch(uses, <<>>, v, <<>>)
    BY <1>4 DEF AllMatch
  <1>6. RecipeIs(12, 1, 12, 0)
    BY RecipeTable
  <1> HIDE DEF uses
  <1> QED
    BY <1>2, <1>3, <1>5, <1>6, ShapeFits

\* getForwardKinematics with both arguments.
LEMMA ForwardFits ==
    ASSUME NEW f,
           Shape(f, 12, <<>>, Vec("q") \o Vec("tcp_offset"), <<>>, PoseAt("q", 0)
                 \cup PoseAt("tcp_offset", 6))
    PROVE  Fits(f)
  <1> DEFINE v == Vec("q") \o Vec("tcp_offset")
             uses == PoseAt("q", 0) \cup PoseAt("tcp_offset", 6)
  <1>1. Filled(v, 12) /\ Holds(v, "q", 0, 6) /\ Holds(v, "tcp_offset", 6, 6)
    <2>1. /\ Len(v) = 12
          /\ \A k \in 1..6 : v[k] = <<"q", k>>
          /\ \A k \in 1..6 : v[6 + k] = <<"tcp_offset", k>>
      BY DEF Vec
    <2>2. Vec("q") \in Seq(Parts) /\ Vec("tcp_offset") \in Seq(Parts)
      BY VecIsArg DEF ArgNames, IsArg
    <2>3. v \in Seq(Parts)
      BY <2>2
    <2> HIDE DEF v
    <2> QED
      BY <2>1, <2>3 DEF Filled, Holds
  <1>2. Shape(f, 12, <<>>, v, <<>>, uses)
    OBVIOUS
  <1> HIDE DEF v
  <1>3. Suits(1, 12, 0, <<>>, v, <<>>) /\ Len(<<>>) = 0
    BY <1>1 DEF Suits, Filled
  <1>4. /\ AllMatch(PoseAt("q", 0), <<>>, v, <<>>)
        /\ AllMatch(PoseAt("tcp_offset", 6), <<>>, v, <<>>)
    BY <1>1, <1>3, DoublesMatch DEF Suits
  <1>5. AllMatch(uses, <<>>, v, <<>>)
    BY <1>4 DEF AllMatch
  <1>6. RecipeIs(12, 1, 12, 0)
    BY RecipeTable
  <1> HIDE DEF uses
  <1> QED
    BY <1>2, <1>3, <1>5, <1>6, ShapeFits

\* kickWatchdog.
LEMMA WatchdogFits ==
    ASSUME NEW f,
           Shape(f, 11, <<>>, <<>>, <<>>, {})
    PROVE  Fits(f)
  <1>1. Shape(f, 11, <<>>, <<>>, <<>>, {})
    OBVIOUS
  <1>2. Suits(1, 0, 0, <<>>, <<>>, <<>>) /\ Len(<<>>) = 0
    BY DEF Suits, Filled
  <1>3. AllMatch({}, <<>>, <<>>, <<>>)
    BY DEF AllMatch
  <1>4. RecipeIs(11, 1, 0, 0)
    BY RecipeTable
  <1> QED
    BY <1>1, <1>2, <1>3, <1>4, ShapeFits

\* moveUntilContact.
LEMMA UntilContactFits ==
    ASSUME NEW f,
           Shape(f, 16, <<>>, Vec("xd") \o Vec("direction") \o One("acceleration"),
                 <<>>, PoseAt("xd", 0) \cup PoseAt("direction", 6)
                 \cup FloatAt("acceleration", 12))
    PROVE  Fits(f)
  <1> DEFINE v == Vec("xd") \o Vec("direction") \o One("acceleration")
             uses == PoseAt("xd", 0) \cup PoseAt("direction", 6)
                     \cup FloatAt("acceleration", 12)
  <1>1. /\ Filled(v, 13) /\ Holds(v, "xd", 0, 6) /\ Holds(v, "direction", 6, 6)
        /\ Holds(v, "acceleration", 12, 1)
    <2>1. /\ Len(v) = 13
          /\ \A k \in 1..6 : v[k] = <<"xd", k>>
          /\ \A k \in 1..6 : v[6 + k] = <<"direction", k>>
          /\ v[13] = <<"acceleration", 1>>
      BY DEF One, Vec
    <2>2. /\ Vec("xd") \in Seq(Parts) /\ Vec("direction") \in Seq(Parts)
          /\ One("acceleration") \in Seq(Parts)
      BY OneIsArg, VecIsArg DEF ArgNames, IsArg
    <2>3. v \in Seq(Parts)
      BY <2>2
    <2> HIDE DEF v
    <2> QED
      BY <2>1, <2>3 DEF Filled, Holds
  <1>2. Shape(f, 16, <<>>, v, <<>>, uses)
    OBVIOUS
  <1> HIDE DEF v
  <1>3. Suits(1, 13, 0, <<>>, v, <<>>) /\ Len(<<>>) = 0
    BY <1>1 DEF Suits, Filled
  <1>4. /\ AllMatch(PoseAt("xd", 0), <<>>, v, <<>>)
        /\ AllMatch(PoseAt("direction", 6), <<>>, v, <<>>)
        /\ AllMatch(FloatAt("acceleration", 12), <<>>, v, <<>>)
    BY <1>1, <1>3, DoublesMatch DEF Suits
  <1>5. AllMatch(uses, <<>>, v, <<>>)
    BY <1>4 DEF AllMatch
  <1>6. RecipeIs(16, 1, 13, 0)
    BY RecipeTable
  <1> HIDE DEF uses
  <1> QED
    BY <1>2, <1>3, <1>5, <1>6, ShapeFits

\* freedriveMode.
LEMMA FreedriveFits ==
    ASSUME NEW f,
           Shape(f, 17, Vec("free_axes"), Vec("feature"), <<>>, IntsAt("free_axes", 1)
                 \cup PoseAt("feature", 0))
    PROVE  Fits(f)
  <1> DEFINE b == Vec("free_axes")
             v == Vec("feature")
             uses == IntsAt("free_axes", 1) \cup PoseAt("feature", 0)
  <1>1. Filled(b, 6) /\ Holds(b, "free_axes", 0, 6)
    <2>1. Len(b) = 6 /\ \A k \in 1..6 : b[k] = <<"free_axes", k>>
      BY DEF Vec
    <2>2. b \in Seq(Parts)
      BY VecIsArg DEF ArgNames, IsArg
    <2> HIDE DEF b
    <2> QED
      BY <2>1, <2>2 DEF Filled, Holds
  <1>2. Filled(v, 6) /\ Holds(v, "feature", 0, 6)
    <2>1. Len(v) = 6 /\ \A k \in 1..6 : v[k] = <<"feature", k>>
      BY DEF Vec
    <2>2. v \in Seq(Parts)
      BY VecIsArg DEF ArgNames, IsArg
    <2> HIDE DEF v
    <2> QED
      BY <2>1, <2>2 DEF Filled, Holds
  <1>3. Shape(f, 17, b, v, <<>>, uses)
    OBVIOUS
  <1> HIDE DEF b, v
  <1>4. Suits(7, 6, 0, b, v, <<>>) /\ Len(<<>>) = 0
    BY <1>1, <1>2 DEF Suits, Filled
  <1>5. AllMatch(IntsAt("free_axes", 1), b, v, <<>>)
    BY <1>1, <1>4, IntsMatch DEF Suits
  <1>6. AllMatch(PoseAt("feature", 0), b, v, <<>>)
    BY <1>2, <1>4, DoublesMatch DEF Suits
  <1>7. AllMatch(uses, b, v, <<>>)
    BY <1>5, <1>6 DEF AllMatch
  <1>8. RecipeIs(17, 7, 6, 0)
    BY RecipeTable
  <1> HIDE DEF uses
  <1> QED
    BY <1>3, <1>4, <1>7, <1>8, ShapeFits

\* ftRtdeInputEnable, enableExternalFtSensor.
LEMMA SensorFits ==
    ASSUME NEW f,
           Shape(f, 18, One("enable"), FtVal, <<>>, FtArgs)
    PROVE  Fits(f)
  <1> DEFINE b == One("enable")
             v == FtVal
  <1>1. Filled(b, 1) /\ Holds(b, "enable", 0, 1)
    <2>1. Len(b) = 1 /\ b[1] = <<"enable", 1>>
      BY DEF One
    <2>2. b \in Seq(Parts)
      BY OneIsArg DEF ArgNames, IsArg
    <2> HIDE DEF b
    <2> QED
      BY <2>1, <2>2 DEF Filled, Holds
  <1>2. /\ Filled(v, 7) /\ Holds(v, "sensor_mass", 0, 1)
        /\ Holds(v, "sensor_measuring_offset", 1, 3) /\ Holds(v, "sensor_cog", 4, 3)
    <2>1. /\ Len(v) = 7 /\ v[1] = <<"sensor_mass", 1>>
          /\ \A k \in 1..3 : v[1 + k] = <<"sensor_measuring_offset", k>>
          /\ \A k \in 1..3 : v[4 + k] = <<"sensor_cog", k>>
      BY DEF One, Vec3, FtVal
    <2>2. /\ One("sensor_mass") \in Seq(Parts)
          /\ Vec3("sensor_measuring_offset") \in Seq(Parts)
          /\ Vec3("sensor_cog") \in Seq(Parts)
      BY OneIsArg, Vec3IsArg DEF ArgNames, IsArg
    <2>3. v \in Seq(Parts)
      BY <2>2 DEF FtVal
    <2> HIDE DEF v
    <2> QED
      BY <2>1, <2>3 DEF Filled, Holds
  <1>3. Shape(f, 18, b, v, <<>>, FtArgs)
    OBVIOUS
  <1> HIDE DEF b, v
  <1>4. Suits(2, 7, 0, b, v, <<>>) /\ Len(<<>>) = 0
    BY <1>1, <1>2 DEF Suits, Filled
  <1>5. AllMatch(IntAt("enable", 1), b, v, <<>>)
    BY <1>1, <1>4, IntsMatch DEF Suits
  <1>6. /\ AllMatch(FloatAt("sensor_mass", 0), b, v, <<>>)
        /\ AllMatch(ListAt("sensor_measuring_offset", 1), b, v, <<>>)
        /\ AllMatch(ListAt("sensor_cog", 4), b, v, <<>>)
    BY <1>2, <1>4, DoublesMatch DEF Suits
  <1>7. AllMatch(FtArgs, b, v, <<>>)
    BY <1>5, <1>6 DEF AllMatch, FtArgs
  <1>8. RecipeIs(18, 2, 7, 0)
    BY RecipeTable
  <1> QED
    BY <1>3, <1>4, <1>7, <1>8, ShapeFits

\* setTargetPayload.
LEMMA TargetPayloadFits ==
    ASSUME NEW f,
           Shape(f, 20, <<>>, One("mass") \o Vec3("cog") \o Vec("inertia"), <<>>,
                 FloatAt("mass", 0) \cup ListAt("cog", 1) \cup PoseAt("inertia", 4))
    PROVE  Fits(f)
  <1> DEFINE v == One("mass") \o Vec3("cog") \o Vec("inertia")
             uses == FloatAt("mass", 0) \cup ListAt("cog", 1) \cup PoseAt("inertia", 4)
  <1>1. /\ Filled(v, 10) /\ Holds(v, "mass", 0, 1) /\ Holds(v, "cog", 1, 3)
        /\ Holds(v, "inertia", 4, 6)
    <2>1. /\ Len(v) = 10 /\ v[1] = <<"mass", 1>>
          /\ \A k \in 1..3 : v[1 + k] = <<"cog", k>>
          /\ \A k \in 1..6 : v[4 + k] = <<"inertia", k>>
      BY DEF One, Vec, Vec3
    <2>2. /\ One("mass") \in Seq(Parts) /\ Vec3("cog") \in Seq(Parts)
          /\ Vec("inertia") \in Seq(Parts)
      BY OneIsArg, VecIsArg, Vec3IsArg DEF ArgNames, IsArg
    <2>3. v \in Seq(Parts)
      BY <2>2
    <2> HIDE DEF v
    <2> QED
      BY <2>1, <2>3 DEF Filled, Holds
  <1>2. Shape(f, 20, <<>>, v, <<>>, uses)
    OBVIOUS
  <1> HIDE DEF v
  <1>3. Suits(1, 10, 0, <<>>, v, <<>>) /\ Len(<<>>) = 0
    BY <1>1 DEF Suits, Filled
  <1>4. /\ AllMatch(FloatAt("mass", 0), <<>>, v, <<>>)
        /\ AllMatch(ListAt("cog", 1), <<>>, v, <<>>)
        /\ AllMatch(PoseAt("inertia", 4), <<>>, v, <<>>)
    BY <1>1, <1>3, DoublesMatch DEF Suits
  <1>5. AllMatch(uses, <<>>, v, <<>>)
    BY <1>4 DEF AllMatch
  <1>6. RecipeIs(20, 1, 10, 0)
    BY RecipeTable
  <1> HIDE DEF uses
  <1> QED
    BY <1>2, <1>3, <1>5, <1>6, ShapeFits

\* movePath.
LEMMA PathFits ==
    ASSUME NEW f, Shape(f, 15, <<>>, <<>>, One("async"), IntAt("async", 1))
    PROVE  Fits(f)
  <1> DEFINE w == One("async")
  <1>1. Shape(f, 15, <<>>, <<>>, w, IntAt("async", 1))
    OBVIOUS
  <1>2. IsArg(w, "async", 1)
    BY OneIsArg DEF ArgNames
  <1> HIDE DEF w
  <1>3. Holds(w, "async", 0, 1)
    BY <1>2 DEF Holds, IsArg
  <1>4. Suits(1, 0, 1, <<>>, <<>>, w) /\ Len(<<>>) = 0
    BY <1>2 DEF Suits, IsArg
  <1>5. AllMatch(IntAt("async", 1), <<>>, <<>>, w)
    BY <1>3, <1>4, IntsMatch DEF Suits
  <1>6. RecipeIs(15, 1, 0, 1)
    BY DEF Recipe, RecipeIs
  <1> QED
    BY <1>1, <1>4, <1>5, <1>6, ShapeFits

\* getForwardKinematics(q): the package fits its recipe, and q is where the branch
\* reads it; tcp_offset is not sent.
LEMMA HalfForwardFits ==
    ASSUME NEW f, f.fn = "getForwardKinematics(q)",
           Shape(f, 6, <<>>, Vec("q"), <<>>, PoseAt("q", 0) \cup PoseAt("tcp_offset", 6))
    PROVE  Fits(f)
  <1> DEFINE v == Vec("q")
             uses == PoseAt("q", 0) \cup PoseAt("tcp_offset", 6)
  <1>1. Filled(v, 6) /\ Holds(v, "q", 0, 6)
    <2>1. Len(v) = 6 /\ \A k \in 1..6 : v[k] = <<"q", k>>
      BY DEF Vec
    <2>2. v \in Seq(Parts)
      BY VecIsArg DEF ArgNames, IsArg
    <2> HIDE DEF v
    <2> QED
      BY <2>1, <2>2 DEF Filled, Holds
  <1>2. Shape(f, 6, <<>>, v, <<>>, uses)
    OBVIOUS
  <1> HIDE DEF v
  <1>3. Suits(1, 6, 0, <<>>, v, <<>>)
    BY <1>1 DEF Suits, Filled
  <1>4. AllMatch(PoseAt("q", 0), <<>>, v, <<>>)
    BY <1>1, <1>3, DoublesMatch DEF Suits
  <1>5. \A u \in PoseAt("tcp_offset", 6) : Unsent(f, u[1])
    BY DEF PoseAt, Unsent
  <1>6. \A u \in uses : Matches(u, <<>>, v, <<>>) \/ Unsent(f, u[1])
    BY <1>4, <1>5 DEF AllMatch
  <1>7. RecipeIs(6, 1, 6, 0)
    BY RecipeTable
  <1> HIDE DEF uses
  <1> QED
    BY <1>2, <1>3, <1>6, <1>7, SentShapeFits

\* setExternalForceTorque: a recipe of its own, and no branch.
LEMMA ForceTorqueFits ==
    ASSUME NEW f, f.type = "SET_EXTERNAL_FORCE_TORQUE",
           Shape(f, 21, <<>>, Vec("external_force_torque"), <<>>, {})
    PROVE  Fits(f)
  <1> DEFINE v == Vec("external_force_torque")
             h == <<"SET_EXTERNAL_FORCE_TORQUE", 0>>
  <1>1. IsArg(v, "external_force_torque", 6)
    BY VecIsArg DEF ArgNames
  <1>2. Pack(f) = <<h>> \o <<>> \o v \o <<>>
    BY DEF Shape, Pack
  <1> HIDE DEF v
  <1>3. /\ v \in Seq(Parts \cup {h}) /\ Len(v) = 6 /\ <<>> \in Seq(Parts \cup {h}) /\ Len(<<>>) = 0
        /\ h \in Parts \cup {h}
    BY <1>1 DEF IsArg
  <1>4. IsPacked(Pack(f), h, <<>>, v, <<>>)
    BY <1>2, <1>3, JoinedUp
  <1>5. Len(Pack(f)) = 7 /\ Pack(f)[1] = h
    BY <1>3, <1>4 DEF IsPacked
  <1>6. OnceEach(21)
    <2>1. \A k \in 2..7 : Recipe[21][k][1] = "external_force_torque" /\ Recipe[21][k][2] = k - 1
      BY Recipe21
    <2>2. Recipe[21][1][1] = "int"
      BY Recipe21 DEF IntReg
    <2> QED
      BY <2>1, <2>2, Recipe21 DEF OnceEach
  <1> QED
    BY <1>5, <1>6, Recipe21, RecipeCount DEF Fits, Shape, HostContinuous
-----------------------------------------------------------------------------
(* Every function fits *)

LEMMA StopFunctionsFit == \A f \in StopFunctions : Fits(f)
  <1> USE DEF Shape, Fn, Checked, Returns, HostContinuous, IntsBefore, IntsAfter, ScriptBranch,
              Branch, NoBranch, MotionBranches, ServoBranches, QueryBranches, KinematicBranches,
              SensorBranches
  <1>1. Shape(Fn("stopL", "STOPL", 19, One("a")), 19, <<>>, One("a"), One("async"),
         StopArgs)
    OBVIOUS
  <1>2. Shape(Fn("stopJ", "STOPJ", 19, One("a")), 19, <<>>, One("a"), One("async"),
         StopArgs)
    OBVIOUS
  <1> HIDE DEF Shape, Fn, Checked, Returns, HostContinuous, IntsBefore, IntsAfter, ScriptBranch,
               Branch, NoBranch, MotionBranches, ServoBranches, QueryBranches, KinematicBranches,
               SensorBranches
  <1> QED
    BY <1>1, <1>2, StopFits
    DEF StopFunctions

LEMMA MoveFunctionsFit == \A f \in MoveFunctions : Fits(f)
  <1> USE DEF Shape, Fn, Checked, Returns, HostContinuous, IntsBefore, IntsAfter, ScriptBranch,
              Branch, NoBranch, MotionBranches, ServoBranches, QueryBranches, KinematicBranches,
              SensorBranches
  <1>1. Shape(Checked(Fn("movePath", "MOVE_PATH", 15, <<>>)), 15, <<>>, <<>>, One("async"),
         IntAt("async", 1))
    OBVIOUS
  <1>2. Shape(Checked(Fn("moveJ", "MOVEJ", 1, Vec("q") \o Opt)), 1, <<>>, Vec("q") \o Opt,
         One("async"), MoveArgs("q"))
    OBVIOUS
  <1>3. Shape(Checked(Fn("moveJ_IK", "MOVEJ_IK", 1, Vec("transform") \o Opt)), 1, <<>>,
         Vec("transform") \o Opt, One("async"), MoveArgs("transform"))
    OBVIOUS
  <1>4. Shape(Checked(Fn("moveL", "MOVEL", 1, Vec("transform") \o Opt)), 1, <<>>,
         Vec("transform") \o Opt, One("async"), MoveArgs("transform"))
    OBVIOUS
  <1>5. Shape(Checked(Fn("moveL_FK", "MOVEL_FK", 1, Vec("q") \o Opt)), 1, <<>>,
         Vec("q") \o Opt, One("async"), MoveArgs("q"))
    OBVIOUS
  <1>6. Shape(Fn("jogStart", "JOG_START", 14,
         Vec("speeds") \o One("feature") \o One("acc") \o Vec("custom_frame")), 14, <<>>,
         Vec("speeds") \o One("feature") \o One("acc") \o Vec("custom_frame"), <<>>,
         PoseAt("speeds", 0) \cup FloatAt("feature", 6) \cup FloatAt("acc", 7)
         \cup PoseAt("custom_frame", 8))
    OBVIOUS
  <1>7. Shape(Fn("jogStop", "JOG_STOP", 4, <<>>), 4, <<>>, <<>>, <<>>, {})
    OBVIOUS
  <1> HIDE DEF Shape, Fn, Checked, Returns, HostContinuous, IntsBefore, IntsAfter, ScriptBranch,
               Branch, NoBranch, MotionBranches, ServoBranches, QueryBranches, KinematicBranches,
               SensorBranches
  <1> QED
    BY <1>1, <1>2, <1>3, <1>4, <1>5, <1>6, <1>7, PathFits, MoveFits, JogFits, PlainFits
    DEF MoveFunctions

LEMMA ServoFunctionsFit == \A f \in ServoFunctions : Fits(f)
  <1> USE DEF Shape, Fn, Checked, Returns, HostContinuous, IntsBefore, IntsAfter, ScriptBranch,
              Branch, NoBranch, MotionBranches, ServoBranches, QueryBranches, KinematicBranches,
              SensorBranches
  <1>1. Shape(Fn("forceMode", "FORCE_MODE", 3,
         Vec("task_frame") \o Vec("wrench") \o Vec("limits")), 3,
         One("force_mode_type") \o Vec("selection_vector"),
         Vec("task_frame") \o Vec("wrench") \o Vec("limits"), <<>>, IntAt("force_mode_type",
         1) \cup IntsAt("selection_vector", 2) \cup PoseAt("task_frame", 0)
         \cup PoseAt("wrench", 6) \cup PoseAt("limits", 12))
    OBVIOUS
  <1>2. Shape(Fn("forceModeStop", "FORCE_MODE_STOP", 4, <<>>), 4, <<>>, <<>>, <<>>, {})
    OBVIOUS
  <1>3. Shape(Fn("zeroFtSensor", "ZERO_FT_SENSOR", 4, <<>>), 4, <<>>, <<>>, <<>>, {})
    OBVIOUS
  <1>4. Shape(Checked(Fn("speedJ", "SPEEDJ", 13,
         Vec("qd") \o One("acceleration") \o One("time"))), 13, <<>>,
         Vec("qd") \o One("acceleration") \o One("time"), <<>>, SpeedArgs("qd"))
    OBVIOUS
  <1>5. Shape(Checked(Fn("speedL", "SPEEDL", 13,
         Vec("xd") \o One("acceleration") \o One("time"))), 13, <<>>,
         Vec("xd") \o One("acceleration") \o One("time"), <<>>, SpeedArgs("xd"))
    OBVIOUS
  <1>6. Shape(Checked(Fn("servoJ", "SERVOJ", 2,
         Vec("q") \o Opt \o One("time") \o One("lookahead_time") \o One("gain"))), 2, <<>>,
         Vec("q") \o Opt \o One("time") \o One("lookahead_time") \o One("gain"), <<>>,
         ServoArgs("q"))
    OBVIOUS
  <1>7. Shape(Checked(Fn("servoL", "SERVOL", 2,
         Vec("pose") \o Opt \o One("time") \o One("lookahead_time") \o One("gain"))), 2,
         <<>>, Vec("pose") \o Opt \o One("time") \o One("lookahead_time") \o One("gain"),
         <<>>, ServoArgs("pose"))
    OBVIOUS
  <1>8. Shape(Fn("speedStop", "SPEED_STOP", 8, One("a")), 8, <<>>, One("a"), <<>>,
         FloatAt("a", 0))
    OBVIOUS
  <1>9. Shape(Fn("servoStop", "SERVO_STOP", 8, One("a")), 8, <<>>, One("a"), <<>>,
         FloatAt("a", 0))
    OBVIOUS
  <1>10. Shape(Checked(Fn("servoC", "SERVOC", 5, Vec("pose") \o Opt \o One("blend"))), 5,
         <<>>, Vec("pose") \o Opt \o One("blend"), <<>>, PoseAt("pose", 0)
         \cup FloatAt("speed", 6) \cup FloatAt("acceleration", 7) \cup FloatAt("blend", 8))
    OBVIOUS
  <1> HIDE DEF Shape, Fn, Checked, Returns, HostContinuous, IntsBefore, IntsAfter, ScriptBranch,
               Branch, NoBranch, MotionBranches, ServoBranches, QueryBranches, KinematicBranches,
               SensorBranches
  <1> QED
    BY <1>1, <1>2, <1>3, <1>4, <1>5, <1>6, <1>7, <1>8, <1>9, <1>10, ForceModeFits,
       PlainFits, SpeedFits, ServoFits, FloatFits, ServoCFits
    DEF ServoFunctions

LEMMA SettingFunctionsFit == \A f \in SettingFunctions : Fits(f)
  <1> USE DEF Shape, Fn, Checked, Returns, HostContinuous, IntsBefore, IntsAfter, ScriptBranch,
              Branch, NoBranch, MotionBranches, ServoBranches, QueryBranches, KinematicBranches,
              SensorBranches
  <1>1. Shape(Fn("setPayload", "SET_PAYLOAD", 7, One("mass") \o Vec3("cog")), 7, <<>>,
         One("mass") \o Vec3("cog"), <<>>, FloatAt("mass", 0) \cup ListAt("cog", 1))
    OBVIOUS
  <1>2. Shape(Fn("teachMode", "TEACH_MODE", 4, <<>>), 4, <<>>, <<>>, <<>>, {})
    OBVIOUS
  <1>3. Shape(Fn("endTeachMode", "END_TEACH_MODE", 4, <<>>), 4, <<>>, <<>>, <<>>, {})
    OBVIOUS
  <1>4. Shape(Fn("forceModeSetDamping", "FORCE_MODE_SET_DAMPING", 8, One("damping")), 8,
         <<>>, One("damping"), <<>>, FloatAt("damping", 0))
    OBVIOUS
  <1>5. Shape(Fn("forceModeSetGainScaling", "FORCE_MODE_SET_GAIN_SCALING", 8,
         One("scaling")), 8, <<>>, One("scaling"), <<>>, FloatAt("scaling", 0))
    OBVIOUS
  <1>6. Shape(Returns(Fn("toolContact", "TOOL_CONTACT", 6, Vec("direction")), OutInt), 6,
         <<>>, Vec("direction"), <<>>, PoseAt("direction", 0))
    OBVIOUS
  <1>7. Shape(Returns(Fn("getStepTime", "GET_STEPTIME", 4, <<>>), {DoubleReg(0)}), 4, <<>>,
         <<>>, <<>>, {})
    BY DEF OutDoubles
  <1>8. Shape(Returns(Fn("getActualJointPositionsHistory",
         "GET_ACTUAL_JOINT_POSITIONS_HISTORY", 9, <<>>), OutDoubles), 9, One("steps"), <<>>,
         <<>>, IntAt("steps", 1))
    OBVIOUS
  <1>9. Shape(Returns(Fn("getTargetWaypoint", "GET_TARGET_WAYPOINT", 4, <<>>), OutDoubles),
         4, <<>>, <<>>, <<>>, {})
    OBVIOUS
  <1> HIDE DEF Shape, Fn, Checked, Returns, HostContinuous, IntsBefore, IntsAfter, ScriptBranch,
               Branch, NoBranch, MotionBranches, ServoBranches, QueryBranches, KinematicBranches,
               SensorBranches
  <1> QED
    BY <1>1, <1>2, <1>3, <1>4, <1>5, <1>6, <1>7, <1>8, <1>9, PayloadFits, PlainFits,
       FloatFits, PoseFits, HistoryFits
    DEF SettingFunctions

LEMMA KinematicFunctionsFit == \A f \in KinematicFunctions : Fits(f)
  <1> USE DEF Shape, Fn, Checked, Returns, HostContinuous, IntsBefore, IntsAfter, ScriptBranch,
              Branch, NoBranch, MotionBranches, ServoBranches, QueryBranches, KinematicBranches,
              SensorBranches
  <1>1. Shape(Fn("setTcp", "SET_TCP", 6, Vec("tcp_offset")), 6, <<>>, Vec("tcp_offset"),
         <<>>, PoseAt("tcp_offset", 0))
    OBVIOUS
  <1>2. Shape(Returns(Fn("getInverseKinematics", "GET_INVERSE_KINEMATICS_DEFAULT", 6,
         Vec("x")), OutDoubles), 6, <<>>, Vec("x"), <<>>, PoseAt("x", 0))
    OBVIOUS
  <1>3. Shape(Returns(Fn("getInverseKinematics(qnear)", "GET_INVERSE_KINEMATICS_ARGS", 10,
         Vec("x") \o Vec("qnear") \o One("max_position_error") \o One("max_orientation_error")),
         OutDoubles), 10, <<>>,
         Vec("x") \o Vec("qnear") \o One("max_position_error") \o One("max_orientation_error"),
         <<>>, KinArgs)
    OBVIOUS
  <1>4. Shape(Returns(Fn("poseTrans", "POSE_TRANS", 12, Vec("p_from") \o Vec("p_from_to")),
         OutDoubles), 12, <<>>, Vec("p_from") \o Vec("p_from_to"), <<>>, PoseAt("p_from", 0)
         \cup PoseAt("p_from_to", 6))
    OBVIOUS
  <1> HIDE DEF Shape, Fn, Checked, Returns, HostContinuous, IntsBefore, IntsAfter, ScriptBranch,
               Branch, NoBranch, MotionBranches, ServoBranches, QueryBranches, KinematicBranches,
               SensorBranches
  <1> QED
    BY <1>1, <1>2, <1>3, <1>4, PoseFits, KinematicsFits, TransFits
    DEF KinematicFunctions

LEMMA SafetyFunctionsFit == \A f \in SafetyFunctions : Fits(f)
  <1> USE DEF Shape, Fn, Checked, Returns, HostContinuous, IntsBefore, IntsAfter, ScriptBranch,
              Branch, NoBranch, MotionBranches, ServoBranches, QueryBranches, KinematicBranches,
              SensorBranches
  <1>1. Shape(Fn("triggerProtectiveStop", "PROTECTIVE_STOP", 4, <<>>), 4, <<>>, <<>>, <<>>,
         {})
    OBVIOUS
  <1>2. Shape(Fn("setWatchdog", "SET_WATCHDOG", 8, One("min_frequency")), 8, <<>>,
         One("min_frequency"), <<>>, FloatAt("min_frequency", 0))
    OBVIOUS
  <1>3. Shape(Fn("kickWatchdog", "WATCHDOG", 11, <<>>), 11, <<>>, <<>>, <<>>, {})
    OBVIOUS
  <1>4. Shape(Returns(Fn("isPoseWithinSafetyLimits", "IS_POSE_WITHIN_SAFETY_LIMITS", 6,
         Vec("pose")), OutInt), 6, <<>>, Vec("pose"), <<>>, PoseAt("pose", 0))
    OBVIOUS
  <1>5. Shape(Fn("startContactDetection", "START_CONTACT_DETECTION", 6, Vec("direction")),
         6, <<>>, Vec("direction"), <<>>, PoseAt("direction", 0))
    OBVIOUS
  <1>6. Shape(Returns(Fn("stopContactDetection", "STOP_CONTACT_DETECTION", 4, <<>>),
         OutInt), 4, <<>>, <<>>, <<>>, {})
    OBVIOUS
  <1>7. Shape(Returns(Fn("readContactDetection", "READ_CONTACT_DETECTION", 4, <<>>),
         OutInt), 4, <<>>, <<>>, <<>>, {})
    OBVIOUS
  <1>8. Shape(Returns(Fn("isJointsWithinSafetyLimits", "IS_JOINTS_WITHIN_SAFETY_LIMITS", 6,
         Vec("q")), OutInt), 6, <<>>, Vec("q"), <<>>, PoseAt("q", 0))
    OBVIOUS
  <1> HIDE DEF Shape, Fn, Checked, Returns, HostContinuous, IntsBefore, IntsAfter, ScriptBranch,
               Branch, NoBranch, MotionBranches, ServoBranches, QueryBranches, KinematicBranches,
               SensorBranches
  <1> QED
    BY <1>1, <1>2, <1>3, <1>4, <1>5, <1>6, <1>7, <1>8, PlainFits, FloatFits, WatchdogFits,
       PoseFits
    DEF SafetyFunctions

LEMMA QueryFunctionsFit == \A f \in QueryFunctions : Fits(f)
  <1> USE DEF Shape, Fn, Checked, Returns, HostContinuous, IntsBefore, IntsAfter, ScriptBranch,
              Branch, NoBranch, MotionBranches, ServoBranches, QueryBranches, KinematicBranches,
              SensorBranches
  <1>1. Shape(Returns(Fn("getJointTorques", "GET_JOINT_TORQUES", 4, <<>>), OutDoubles), 4,
         <<>>, <<>>, <<>>, {})
    OBVIOUS
  <1>2. Shape(Returns(Fn("getTCPOffset", "GET_TCP_OFFSET", 4, <<>>), OutDoubles), 4, <<>>,
         <<>>, <<>>, {})
    OBVIOUS
  <1>3. Shape(Returns(Fn("getForwardKinematics()", "GET_FORWARD_KINEMATICS_DEFAULT", 4,
         <<>>), OutDoubles), 4, <<>>, <<>>, <<>>, {})
    OBVIOUS
  <1>4. Shape(Returns(Fn("getForwardKinematics(q)", "GET_FORWARD_KINEMATICS_ARGS", 6,
         Vec("q")), OutDoubles), 6, <<>>, Vec("q"), <<>>, PoseAt("q", 0)
         \cup PoseAt("tcp_offset", 6))
    OBVIOUS
  <1>5. Shape(Returns(Fn("getForwardKinematics(q, tcp_offset)",
         "GET_FORWARD_KINEMATICS_ARGS", 12, Vec("q") \o Vec("tcp_offset")), OutDoubles), 12,
         <<>>, Vec("q") \o Vec("tcp_offset"), <<>>, PoseAt("q", 0) \cup PoseAt("tcp_offset",
         6))
    OBVIOUS
  <1>6. Shape(Returns(Fn("isSteady", "IS_STEADY", 4, <<>>), OutInt), 4, <<>>, <<>>, <<>>,
         {})
    OBVIOUS
  <1>7. Shape(Checked(Fn("moveUntilContact", "MOVE_UNTIL_CONTACT", 16,
         Vec("xd") \o Vec("direction") \o One("acceleration"))), 16, <<>>,
         Vec("xd") \o Vec("direction") \o One("acceleration"), <<>>, PoseAt("xd", 0)
         \cup PoseAt("direction", 6) \cup FloatAt("acceleration", 12))
    OBVIOUS
  <1>8. Returns(Fn("getForwardKinematics(q)", "GET_FORWARD_KINEMATICS_ARGS", 6, Vec("q")),
                OutDoubles).fn = "getForwardKinematics(q)"
    OBVIOUS
  <1> HIDE DEF Shape, Fn, Checked, Returns, HostContinuous, IntsBefore, IntsAfter, ScriptBranch,
               Branch, NoBranch, MotionBranches, ServoBranches, QueryBranches, KinematicBranches,
               SensorBranches
  <1> QED
    BY <1>1, <1>2, <1>3, <1>4, <1>5, <1>6, <1>7, <1>8, PlainFits, HalfForwardFits,
       ForwardFits, UntilContactFits
    DEF QueryFunctions

LEMMA FreedriveFunctionsFit == \A f \in FreedriveFunctions : Fits(f)
  <1> USE DEF Shape, Fn, Checked, Returns, HostContinuous, IntsBefore, IntsAfter, ScriptBranch,
              Branch, NoBranch, MotionBranches, ServoBranches, QueryBranches, KinematicBranches,
              SensorBranches
  <1>1. Shape(Fn("freedriveMode", "FREEDRIVE_MODE", 17, Vec("feature")), 17,
         Vec("free_axes"), Vec("feature"), <<>>, IntsAt("free_axes", 1)
         \cup PoseAt("feature", 0))
    OBVIOUS
  <1>2. Shape(Fn("endFreedriveMode", "END_FREEDRIVE_MODE", 4, <<>>), 4, <<>>, <<>>, <<>>,
         {})
    OBVIOUS
  <1>3. Shape(Returns(Fn("getFreedriveStatus", "GET_FREEDRIVE_STATUS", 4, <<>>), OutInt),
         4, <<>>, <<>>, <<>>, {})
    OBVIOUS
  <1>4. Shape(Fn("setExternalForceTorque", "SET_EXTERNAL_FORCE_TORQUE", 21,
         Vec("external_force_torque")), 21, <<>>, Vec("external_force_torque"), <<>>, {})
    OBVIOUS
  <1>5. Shape(Fn("ftRtdeInputEnable", "FT_RTDE_INPUT_ENABLE", 18, FtVal), 18,
         One("enable"), FtVal, <<>>, FtArgs)
    OBVIOUS
  <1>6. Shape(Fn("enableExternalFtSensor", "ENABLE_EXTERNAL_FT_SENSOR", 18, FtVal), 18,
         One("enable"), FtVal, <<>>, FtArgs)
    OBVIOUS
  <1>7. Shape(Returns(Fn("getActualToolFlangePose", "GET_ACTUAL_TOOL_FLANGE_POSE", 4,
         <<>>), OutDoubles), 4, <<>>, <<>>, <<>>, {})
    OBVIOUS
  <1>8. Fn("setExternalForceTorque", "SET_EXTERNAL_FORCE_TORQUE", 21,
           Vec("external_force_torque")).type = "SET_EXTERNAL_FORCE_TORQUE"
    OBVIOUS
  <1> HIDE DEF Shape, Fn, Checked, Returns, HostContinuous, IntsBefore, IntsAfter, ScriptBranch,
               Branch, NoBranch, MotionBranches, ServoBranches, QueryBranches, KinematicBranches,
               SensorBranches
  <1> QED
    BY <1>1, <1>2, <1>3, <1>4, <1>5, <1>6, <1>7, <1>8, FreedriveFits, PlainFits,
       ForceTorqueFits, SensorFits
    DEF FreedriveFunctions

LEMMA TargetFunctionsFit == \A f \in TargetFunctions : Fits(f)
  <1> USE DEF Shape, Fn, Checked, Returns, HostContinuous, IntsBefore, IntsAfter, ScriptBranch,
              Branch, NoBranch, MotionBranches, ServoBranches, QueryBranches, KinematicBranches,
              SensorBranches
  <1>1. Shape(Fn("setGravity", "SET_GRAVITY", 7, Vec3("direction") \o One("dummy")), 7,
         <<>>, Vec3("direction") \o One("dummy"), <<>>, ListAt("direction", 0))
    OBVIOUS
  <1>2. Shape(Returns(Fn("getInverseKinematicsHasSolution",
         "GET_INVERSE_KINEMATICS_HAS_SOLUTION_DEFAULT", 6, Vec("x")), OutInt), 6, <<>>,
         Vec("x"), <<>>, PoseAt("x", 0))
    OBVIOUS
  <1>3. Shape(Returns(Fn("getInverseKinematicsHasSolution(qnear)",
         "GET_INVERSE_KINEMATICS_HAS_SOLUTION_ARGS", 10,
         Vec("x") \o Vec("qnear") \o One("max_position_error") \o One("max_orientation_error")),
         OutInt), 10, <<>>,
         Vec("x") \o Vec("qnear") \o One("max_position_error") \o One("max_orientation_error"),
         <<>>, KinArgs)
    OBVIOUS
  <1>4. Shape(Fn("setTargetPayload", "SET_TARGET_PAYLOAD", 20,
         One("mass") \o Vec3("cog") \o Vec("inertia")), 20, <<>>,
         One("mass") \o Vec3("cog") \o Vec("inertia"), <<>>, FloatAt("mass", 0)
         \cup ListAt("cog", 1) \cup PoseAt("inertia", 4))
    OBVIOUS
  <1> HIDE DEF Shape, Fn, Checked, Returns, HostContinuous, IntsBefore, IntsAfter, ScriptBranch,
               Branch, NoBranch, MotionBranches, ServoBranches, QueryBranches, KinematicBranches,
               SensorBranches
  <1> QED
    BY <1>1, <1>2, <1>3, <1>4, GravityFits, PoseFits, KinematicsFits, TargetPayloadFits
    DEF TargetFunctions
LEMMA AllFit == \A f \in AllFunctions : Fits(f)
  BY StopFunctionsFit, MoveFunctionsFit, ServoFunctionsFit, SettingFunctionsFit,
     KinematicFunctionsFit, SafetyFunctionsFit, QueryFunctionsFit, FreedriveFunctionsFit,
     TargetFunctionsFit
  DEF AllFunctions
-----------------------------------------------------------------------------
(* Registers *)

\* Where the registers of the control interface are.
LEMMA ControlRegistersAre ==
    \A r \in ControlRegisters :
       \/ r[1] = "int" /\ r[2] \in 0..7
       \/ r[1] = "double" /\ r[2] \in 0..17
       \/ r[1] = "external_force_torque"
  <1> DEFINE Low(r) == \/ r[1] = "int" /\ r[2] \in 0..7
                       \/ r[1] = "double" /\ r[2] \in 0..17
                       \/ r[1] = "external_force_torque"
  <1>1. ASSUME NEW n, NEW i \in 0..8, NEW d \in 0..18, NEW a \in 0..1, i < 8 \/ a = 0,
               RecipeIs(n, i, d, a)
        PROVE  \A k \in DOMAIN Recipe[n] : Low(Recipe[n][k])
    <2> TAKE k \in DOMAIN Recipe[n]
    <2>1. k \in 1..(i + d + a)
      BY <1>1 DEF RecipeIs
    <2>2. \/ k <= i /\ Recipe[n][k] = IntReg(k - 1)
          \/ k > i /\ k <= i + d /\ Recipe[n][k] = DoubleReg(k - i - 1)
          \/ k > i + d /\ Recipe[n][k] = IntReg(k - d - 1)
      BY <1>1, <2>1 DEF RecipeIs
    <2> QED
      BY <1>1, <2>1, <2>2 DEF IntReg, DoubleReg
  <1>2. \A k \in DOMAIN Recipe[21] : Low(Recipe[21][k])
    <2>1. Recipe[21][1][1] = "int" /\ Recipe[21][1][2] = 0
      BY Recipe21 DEF IntReg
    <2>2. \A k \in 2..7 : Recipe[21][k][1] = "external_force_torque"
      BY Recipe21
    <2> QED
      BY <2>1, <2>2, Recipe21
  <1> HIDE DEF Low
  <1>3. \A n \in 1..20 : \A k \in DOMAIN Recipe[n] : Low(Recipe[n][k])
    <2>1. \A n \in 1..10 : \A k \in DOMAIN Recipe[n] : Low(Recipe[n][k])
      BY <1>1, RecipeTable
    <2>2. \A n \in 11..20 : \A k \in DOMAIN Recipe[n] : Low(Recipe[n][k])
      BY <1>1, RecipeTable
    <2> QED
      BY <2>1, <2>2
  <1>4. \A r \in ControlRegisters : Low(r)
    BY <1>2, <1>3, RecipeCount DEF ControlRegisters, Range
  <1> QED
    BY <1>4 DEF Low

\* Recipes of RTDEIOInterface that name no register of the control interface.
Apart(recipe) == \A k \in DOMAIN recipe : recipe[k] \notin ControlRegisters

LEMMA IoRecipesApart ==
    /\ \A bank \in Banks : Apart(IoDigitalRecipe(bank))
    /\ Apart(IoSliderRecipe) /\ Apart(IoAnalogRecipe)
    /\ \A n \in 18..22 : Apart(IoIntRecipe(n)) /\ Apart(IoDoubleRecipe(n))
  <1>1. ASSUME NEW r, \/ r[1] \in Banks \cup {"slider", "analog"}
                      \/ r[1] \in {"int", "double"} /\ r[2] \in 18..23
        PROVE  r \notin ControlRegisters
    BY <1>1, ControlRegistersAre DEF Banks
  <1>2. \A bank \in Banks : Apart(IoDigitalRecipe(bank))
    BY <1>1 DEF Apart, IoDigitalRecipe, IntReg
  <1>3. Apart(IoSliderRecipe) /\ Apart(IoAnalogRecipe)
    BY <1>1 DEF Apart, IoSliderRecipe, IoAnalogRecipe, IntReg
  <1>4. \A n \in 18..22 : Apart(IoIntRecipe(n)) /\ Apart(IoDoubleRecipe(n))
    BY <1>1 DEF Apart, IoIntRecipe, IoDoubleRecipe, IntReg, DoubleReg
  <1> QED
    BY <1>2, <1>3, <1>4

LEMMA InRegisters == ControlRegisters \subseteq Registers /\ IntReg(0) \in ControlRegisters
  <1>1. 4 \in DOMAIN Recipe /\ Range(Recipe[4]) = {IntReg(0)}
    BY RecipeCount DEF Recipe, Range
  <1> QED
    BY <1>1 DEF Registers, ControlRegisters

LEMMA IoKeeps ==
    ASSUME NEW recipe, Apart(recipe), IoWrites(recipe)
    PROVE  /\ \A r \in ControlRegisters : in'[r] = in[r]
           /\ \A r \in Registers : in'[r] = in[r] \/ in'[r].who = "io"
  <1>1. CASE in' = in
    BY <1>1
  <1>2. CASE in' = [r \in Registers |->
             IF r \in Range(recipe)
             THEN [who |-> "io", call |-> io',
                   field |-> [k \in DOMAIN recipe |-> <<"io", k>>]
                                 [CHOOSE k \in DOMAIN recipe : recipe[k] = r]]
             ELSE in[r]]
    <2>1. ControlRegisters \cap Range(recipe) = {}
      BY DEF Apart, Range
    <2> QED
      BY <1>2, <2>1, InRegisters
  <1> QED
    BY <1>1, <1>2 DEF IoWrites, Unpack
-----------------------------------------------------------------------------
(* A package arrives *)

\* Register contents q after call c of f, where q0 was before.
Written(q, q0, c, f) ==
    /\ \A k \in 1..Len(Recipe[f.recipe]) :
          q[Recipe[f.recipe][k]] = [who |-> "control", call |-> c, field |-> Pack(f)[k]]
    /\ \A r \in ControlRegisters : q[r] = q0[r] \/ q[r].who = "control"
    /\ \A r \in Registers \ ControlRegisters : q[r] = q0[r]

LEMMA UnpackWrites ==
    ASSUME NEW f \in AllFunctions, NEW c
    PROVE  Written(Unpack(Recipe[f.recipe], "control", c, Pack(f)), in, c, f)
  <1> DEFINE recipe == Recipe[f.recipe]
             q == Unpack(recipe, "control", c, Pack(f))
             at(r) == CHOOSE k \in DOMAIN recipe : recipe[k] = r
  <1>1. Fits(f)
    BY AllFit
  <1>2. /\ f.recipe \in DOMAIN Recipe /\ Len(Pack(f)) = Len(recipe)
        /\ DOMAIN recipe = 1..Len(recipe)
        /\ \A j, k \in DOMAIN recipe : recipe[j] = recipe[k] => j = k
    BY <1>1 DEF Fits, OnceEach
  <1>3. Range(recipe) \subseteq ControlRegisters
    BY <1>2 DEF ControlRegisters
  <1>4. q = [r \in Registers |->
             IF r \in Range(recipe)
             THEN [who |-> "control", call |-> c, field |-> Pack(f)[at(r)]]
             ELSE in[r]]
    BY <1>2 DEF Unpack
  <1>5. ASSUME NEW k \in DOMAIN recipe
        PROVE  recipe[k] \in Range(recipe) /\ recipe[k] \in Registers /\ at(recipe[k]) = k
    <2>1. recipe[k] \in Range(recipe)
      BY DEF Range
    <2>2. at(recipe[k]) \in DOMAIN recipe /\ recipe[at(recipe[k])] = recipe[k]
      OBVIOUS
    <2> QED
      BY <1>2, <1>3, <2>1, <2>2, InRegisters
  <1> HIDE DEF recipe, q, at
  <1>6. \A k \in DOMAIN recipe :
          q[recipe[k]] = [who |-> "control", call |-> c, field |-> Pack(f)[k]]
    BY <1>4, <1>5
  <1>7. \A r \in ControlRegisters : q[r] = in[r] \/ q[r].who = "control"
    BY <1>4, InRegisters
  <1>8. \A r \in Registers \ ControlRegisters : q[r] = in[r]
    BY <1>3, <1>4
  <1> QED
    BY <1>2, <1>6, <1>7, <1>8 DEF Written, recipe, q

\* sendClearCommand.
Cleared(q, q0) ==
    /\ q[IntReg(0)].field[1] = "NO_CMD" /\ q[IntReg(0)].who = "control"
    /\ \A r \in Registers : r # IntReg(0) => q[r] = q0[r]

LEMMA ClearWrites ==
    ASSUME ClearCommand
    PROVE  Cleared(in', in)
  <1>1. Recipe[4] = <<IntReg(0)>>
    BY DEF Recipe
  <1>2. Range(<<IntReg(0)>>) = {IntReg(0)} /\ Len(<<IntReg(0)>>) = Len(<< <<"NO_CMD", 0>> >>)
        /\ DOMAIN <<IntReg(0)>> = {1}
    BY DEF Range
  <1>3. in' = [r \in Registers |->
             IF r \in {IntReg(0)}
             THEN [who |-> "control", call |-> Len(log),
                   field |-> << <<"NO_CMD", 0>> >>[CHOOSE k \in {1} : <<IntReg(0)>>[k] = r]]
             ELSE in[r]]
    BY <1>1, <1>2 DEF ClearCommand, Unpack
  <1>4. (CHOOSE k \in {1} : <<IntReg(0)>>[k] = IntReg(0)) = 1
    OBVIOUS
  <1>5. in'[IntReg(0)] = [who |-> "control", call |-> Len(log), field |-> <<"NO_CMD", 0>>]
    BY <1>3, <1>4, InRegisters
  <1> QED
    BY <1>3, <1>5 DEF Cleared
-----------------------------------------------------------------------------
(* The invariants *)

StateInv ==
    /\ log \in Seq(AllFunctions)
    /\ done \in 0..Len(log) /\ ret.call \in 0..Len(log)
    /\ DOMAIN out = OutInt \cup OutDoubles

\* Only the control interface writes control registers, only the other one the
\* rest.
SepInv ==
    /\ \A r \in ControlRegisters : in[r].who \in {"nobody", "control"}
    /\ \A r \in Registers \ ControlRegisters : in[r] = Untouched \/ in[r].who = "io"

\* The registers hold what call c of f sent.
Sent(c, f) ==
    \A k \in 1..Len(Recipe[f.recipe]) :
       in[Recipe[f.recipe][k]] = [who |-> "control", call |-> c, field |-> Pack(f)[k]]

\* A command in the register is there with all the arguments of its call.
Number == in[IntReg(0)].call
CommandInv ==
    Cmd # "NO_CMD" =>
       Number \in 1..Len(log) /\ Cmd = log[Number].type /\ Sent(Number, log[Number])

\* While a call waits its command is in the register, and once it is done the
\* registers that the branch writes are its own.
WaitInv ==
    /\ pc = "wait" =>
          /\ log # <<>> /\ Number = Len(log)
          /\ Cmd = log[Len(log)].type /\ Cmd \notin HostContinuous
          /\ done = Len(log) => \A r \in Uploaded(Cmd).writes \cap DOMAIN out : out[r] = Len(log)
    /\ pc = "read" => log # <<>> /\ log[Len(log)].type \in HostContinuous

RegistersInv ==
    StateInv /\ SepInv /\ CommandInv /\ WaitInv /\ ArgumentsArrive /\ AnswerIsWritten

LEMMA RegistersInit == Init => RegistersInv
  <1> SUFFICES ASSUME Init PROVE RegistersInv
    OBVIOUS
  <1>1. IntReg(0) \in Registers
    BY InRegisters
  <1>2. /\ in[IntReg(0)].field = <<"NO_CMD", 0>> /\ in[IntReg(0)].who = "nobody"
        /\ \A r \in Registers : r # IntReg(0) => in[r] = Untouched
    BY <1>1 DEF Init, Untouched
  <1>3. StateInv
    BY DEF Init, StateInv
  <1>4. SepInv
    BY <1>2, InRegisters DEF SepInv, Untouched
  <1>5. CommandInv
    BY <1>2 DEF CommandInv, Cmd
  <1>6. WaitInv /\ ArgumentsArrive /\ AnswerIsWritten
    BY DEF Init, WaitInv, ArgumentsArrive, AnswerIsWritten
  <1> QED
    BY <1>3, <1>4, <1>5, <1>6 DEF RegistersInv
\* Registers and history of the control interface stay as they are.
LEMMA ControlKept ==
    ASSUME RegistersInv, UNCHANGED controlVars, \A r \in ControlRegisters : in'[r] = in[r]
    PROVE  StateInv' /\ CommandInv' /\ WaitInv' /\ ArgumentsArrive' /\ AnswerIsWritten'
  <1>1. /\ log' = log /\ out' = out /\ pc' = pc /\ ret' = ret /\ done' = done /\ used' = used
    BY DEF controlVars
  <1>2. in'[IntReg(0)] = in[IntReg(0)]
    BY InRegisters
  <1>3. StateInv'
    BY <1>1 DEF RegistersInv, StateInv
  <1>4. ASSUME Cmd # "NO_CMD"
        PROVE  Sent(Number, log[Number])'
    <2>1. Number \in 1..Len(log) /\ Sent(Number, log[Number]) /\ Number' = Number
      BY <1>2, <1>4 DEF RegistersInv, CommandInv, Number
    <2>2. log[Number] \in AllFunctions
      BY <2>1 DEF RegistersInv, StateInv
    <2>3. \A k \in 1..Len(Recipe[log[Number].recipe]) :
             Recipe[log[Number].recipe][k] \in ControlRegisters
      BY <2>2, AllFit DEF Fits, ControlRegisters, Range
    <2>4. log'[Number'] = log[Number]
      BY <1>1, <2>1
    <2> QED
      BY <2>1, <2>3, <2>4 DEF Sent
  <1>5. CommandInv'
    BY <1>1, <1>2, <1>4 DEF RegistersInv, CommandInv, Cmd, Number
  <1>6. WaitInv'
    BY <1>1, <1>2 DEF RegistersInv, WaitInv, Cmd, Number
  <1>7. ArgumentsArrive'
    BY <1>1 DEF RegistersInv, ArgumentsArrive, Genuine
  <1>8. AnswerIsWritten'
    BY <1>1 DEF RegistersInv, AnswerIsWritten
  <1> QED
    BY <1>3, <1>5, <1>6, <1>7, <1>8

LEMMA IoStep ==
    ASSUME RegistersInv, UNCHANGED controlVars, NEW recipe, Apart(recipe), IoWrites(recipe)
    PROVE  RegistersInv'
  <1>1. /\ \A r \in ControlRegisters : in'[r] = in[r]
        /\ \A r \in Registers : in'[r] = in[r] \/ in'[r].who = "io"
    BY IoKeeps
  <1>2. SepInv'
    BY <1>1 DEF RegistersInv, SepInv
  <1> QED
    BY <1>1, <1>2, ControlKept DEF RegistersInv

\* The history of calls grows by f and keeps what is said of earlier ones.
LEMMA Logged ==
    ASSUME StateInv, NEW f \in AllFunctions, log' = Append(log, f)
    PROVE  /\ log' \in Seq(AllFunctions) /\ Len(log') = Len(log) + 1 /\ log'[Len(log')] = f
           /\ \A n \in 1..Len(log) : log'[n] = log[n]
           /\ log' # <<>> /\ Len(log) \in Nat
  BY DEF StateInv

LEMMA CallStep ==
    ASSUME RegistersInv, NEW f \in AllFunctions, Call(f)
    PROVE  RegistersInv'
  <1>1. /\ log' \in Seq(AllFunctions) /\ Len(log') = Len(log) + 1 /\ log'[Len(log')] = f
        /\ \A n \in 1..Len(log) : log'[n] = log[n]
        /\ log' # <<>> /\ Len(log) \in Nat
    BY Logged DEF Call, RegistersInv
  <1>2. Written(in', in, Len(log'), f)
    BY UnpackWrites DEF Call
  <1>3. out' = out /\ ret' = ret /\ done' = done /\ used' = used
    BY DEF Call
  <1>4. Fits(f)
    BY AllFit
  <1>5. in'[IntReg(0)] = [who |-> "control", call |-> Len(log'), field |-> Pack(f)[1]]
    <2>1. Recipe[f.recipe][1] = IntReg(0) /\ 1 \in 1..Len(Recipe[f.recipe])
      BY <1>4 DEF Fits
    <2> QED
      BY <1>2, <2>1 DEF Written
  <1>6. Cmd' = (IF f.type = "WATCHDOG" THEN "NO_CMD" ELSE f.type) /\ Number' = Len(log')
    BY <1>4, <1>5 DEF Cmd, Number, Fits
  <1>7. StateInv'
    BY <1>1, <1>3 DEF RegistersInv, StateInv
  <1>8. SepInv'
    BY <1>2 DEF RegistersInv, SepInv, Written
  <1>9. CommandInv'
    <2>1. Sent(Number, log[Number])'
      BY <1>1, <1>2, <1>6 DEF Sent, Written
    <2> QED
      BY <1>1, <1>6, <2>1 DEF CommandInv
  <1>10. WaitInv'
    <2>1. pc' = IF f.type \in HostContinuous THEN "read" ELSE "wait"
      BY DEF Call
    <2>2. done' # Len(log')
      BY <1>1, <1>3 DEF RegistersInv, StateInv
    <2>3. f.type \notin HostContinuous => f.type # "WATCHDOG"
      BY DEF HostContinuous
    <2> QED
      BY <1>1, <1>6, <2>1, <2>2, <2>3 DEF WaitInv
  <1>11. ArgumentsArrive'
    <2>1. done # 0 => log'[done] = log[done]
      BY <1>1 DEF RegistersInv, StateInv
    <2> QED
      BY <1>3, <2>1 DEF RegistersInv, ArgumentsArrive, Genuine
  <1>12. AnswerIsWritten'
    <2>1. ret.call # 0 => log'[ret.call] = log[ret.call]
      BY <1>1 DEF RegistersInv, StateInv
    <2> QED
      BY <1>3, <2>1 DEF RegistersInv, AnswerIsWritten
  <1> QED
    BY <1>7, <1>8, <1>9, <1>10, <1>11, <1>12 DEF RegistersInv
LEMMA RejectStep ==
    ASSUME RegistersInv, NEW f \in AllFunctions, Reject(f)
    PROVE  RegistersInv'
  <1>1. /\ log' \in Seq(AllFunctions) /\ Len(log') = Len(log) + 1
        /\ \A n \in 1..Len(log) : log'[n] = log[n]
        /\ log' # <<>> /\ Len(log) \in Nat
    BY Logged DEF Reject, RegistersInv
  <1>2. /\ in' = in /\ out' = out /\ done' = done /\ used' = used /\ pc' = "idle"
        /\ ret' = [call |-> Len(log'), from |-> {}]
    BY DEF Reject
  <1>3. StateInv'
    BY <1>1, <1>2 DEF RegistersInv, StateInv
  <1>4. SepInv'
    BY <1>2 DEF RegistersInv, SepInv
  <1>5. CommandInv'
    <2>0. Cmd' = Cmd /\ Number' = Number
      BY <1>2 DEF Cmd, Number
    <2> SUFFICES ASSUME Cmd # "NO_CMD"
                 PROVE  /\ Number \in 1..Len(log') /\ Cmd = log'[Number].type
                        /\ Sent(Number, log[Number])'
      BY <2>0 DEF CommandInv
    <2>1. Number \in 1..Len(log) /\ Cmd = log[Number].type /\ Sent(Number, log[Number])
      BY DEF RegistersInv, CommandInv
    <2>2. log'[Number] = log[Number]
      BY <1>1, <2>1
    <2>3. Sent(Number, log[Number])'
      BY <1>2, <2>0, <2>1, <2>2 DEF Sent
    <2> QED
      BY <1>1, <2>1, <2>2, <2>3
  <1>6. WaitInv'
    BY <1>2 DEF WaitInv
  <1>7. ArgumentsArrive'
    <2>1. done # 0 => log'[done] = log[done]
      BY <1>1 DEF RegistersInv, StateInv
    <2> QED
      BY <1>2, <2>1 DEF RegistersInv, ArgumentsArrive, Genuine
  <1>8. AnswerIsWritten'
    BY <1>2 DEF AnswerIsWritten
  <1> QED
    BY <1>3, <1>4, <1>5, <1>6, <1>7, <1>8 DEF RegistersInv

\* The command is cleared: nothing is left to be processed.
LEMMA ClearStep ==
    ASSUME RegistersInv, ClearCommand, pc' = "idle", UNCHANGED <<out, log, done, used>>
    PROVE  /\ (ret'.call \in 0..Len(log) => StateInv')
           /\ SepInv' /\ CommandInv' /\ WaitInv' /\ ArgumentsArrive'
  <1>1. Cleared(in', in)
    BY ClearWrites
  <1>2. out' = out /\ log' = log /\ done' = done /\ used' = used
    OBVIOUS
  <1>3. ret'.call \in 0..Len(log) => StateInv'
    BY <1>2 DEF RegistersInv, StateInv
  <1>4. SepInv'
    BY <1>1, InRegisters DEF RegistersInv, SepInv, Cleared
  <1>5. CommandInv'
    BY <1>1 DEF CommandInv, Cmd, Cleared
  <1>6. WaitInv'
    BY DEF WaitInv
  <1>7. ArgumentsArrive'
    BY <1>2 DEF RegistersInv, ArgumentsArrive, Genuine
  <1> QED
    BY <1>3, <1>4, <1>5, <1>6, <1>7

LEMMA FinishStep ==
    ASSUME RegistersInv, Finish
    PROVE  RegistersInv'
  <1>1. /\ pc = "wait" /\ done = Len(log) /\ pc' = "idle" /\ ClearCommand /\ Answered(Last(log))
        /\ out' = out /\ log' = log /\ done' = done /\ used' = used
    BY DEF Finish
  <1> DEFINE f == log[Len(log)]
  <1>2. /\ log # <<>> /\ log \in Seq(AllFunctions) /\ Len(log) \in Nat /\ Last(log) = f
    BY <1>1 DEF RegistersInv, StateInv, WaitInv, Last
  <1>3. Len(log) \in 1..Len(log) /\ f \in AllFunctions
    BY <1>2
  <1> HIDE DEF f
  <1>4. ret' = [call |-> Len(log), from |-> {out[r] : r \in f.answer}]
    BY <1>1, <1>2 DEF Answered
  <1>5. AnswerIsWritten'
    <2> SUFFICES ASSUME Keeps(Version, ScriptBranch(f.type).need), ret'.from # {}
                 PROVE  ret'.from = {ret'.call}
      BY <1>1, <1>4 DEF AnswerIsWritten, f
    <2>1. Cmd = f.type /\ f.type \notin HostContinuous
      BY <1>1 DEF RegistersInv, WaitInv, f
    <2>2. Uploaded(Cmd) = ScriptBranch(f.type)
      BY <2>1 DEF Uploaded
    <2>3. f.answer \subseteq ScriptBranch(f.type).writes /\ f.answer \subseteq DOMAIN out
      BY <1>3, <2>1, AllFit DEF Fits, RegistersInv, StateInv
    <2>4. \A r \in f.answer : out[r] = Len(log)
      BY <1>1, <2>2, <2>3 DEF RegistersInv, WaitInv
    <2> QED
      BY <1>4, <2>4
  <1>6. StateInv' /\ SepInv' /\ CommandInv' /\ WaitInv' /\ ArgumentsArrive'
    BY <1>1, <1>2, <1>4, ClearStep
  <1> QED
    BY <1>5, <1>6 DEF RegistersInv

LEMMA FinishContinuousStep ==
    ASSUME RegistersInv, FinishContinuous
    PROVE  RegistersInv'
  <1>1. /\ pc = "read" /\ pc' = "idle" /\ Answered(Last(log))
        /\ in' = in /\ out' = out /\ log' = log /\ done' = done /\ used' = used
    BY DEF FinishContinuous
  <1>2. /\ log # <<>> /\ Len(log) \in Nat /\ log[Len(log)].type \in HostContinuous
    BY <1>1 DEF RegistersInv, StateInv, WaitInv
  <1>3. ret'.call = Len(log)
    BY <1>1 DEF Answered
  <1>4. StateInv'
    BY <1>1, <1>2, <1>3 DEF RegistersInv, StateInv
  <1>5. SepInv'
    BY <1>1 DEF RegistersInv, SepInv
  <1>6. CommandInv'
    BY <1>1 DEF RegistersInv, CommandInv, Sent, Cmd, Number
  <1>7. WaitInv'
    BY <1>1 DEF WaitInv
  <1>8. ArgumentsArrive'
    BY <1>1 DEF RegistersInv, ArgumentsArrive, Genuine
  <1>9. AnswerIsWritten'
    BY <1>1, <1>2, <1>3 DEF AnswerIsWritten
  <1> QED
    BY <1>4, <1>5, <1>6, <1>7, <1>8, <1>9 DEF RegistersInv

LEMMA ReadyTimeoutStep ==
    ASSUME RegistersInv, ReadyTimeout
    PROVE  RegistersInv'
  <1>1. /\ pc' = "idle" /\ ClearCommand /\ ret' = ret
        /\ out' = out /\ log' = log /\ done' = done /\ used' = used
    BY DEF ReadyTimeout, controlVars
  <1>2. StateInv' /\ SepInv' /\ CommandInv' /\ WaitInv' /\ ArgumentsArrive'
    BY <1>1, ClearStep DEF RegistersInv, StateInv
  <1>3. AnswerIsWritten'
    BY <1>1 DEF RegistersInv, AnswerIsWritten
  <1> QED
    BY <1>2, <1>3 DEF RegistersInv
LEMMA ProcessStep ==
    ASSUME RegistersInv, ProcessCmd, Cmd # "NO_CMD", UNCHANGED <<in, log, pc, ret>>
    PROVE  RegistersInv'
  <1> DEFINE f == log[Number]
             b == Uploaded(Cmd)
  <1>0. in' = in /\ log' = log /\ pc' = pc /\ ret' = ret
    OBVIOUS
  <1>1. Number \in 1..Len(log) /\ Cmd = f.type /\ Sent(Number, f)
    BY DEF RegistersInv, CommandInv
  <1>2. log \in Seq(AllFunctions) /\ f \in AllFunctions
    BY <1>1 DEF RegistersInv, StateInv
  <1>3. /\ used' = {[as |-> u[1], reg |-> in[u[2]]] : u \in b.uses}
        /\ out' = [r \in DOMAIN out |-> IF r \in b.writes THEN Number ELSE out[r]]
        /\ done' = Number
    BY DEF ProcessCmd, Number
  <1>4. b.uses = {} \/ b.uses = ScriptBranch(f.type).uses
    BY <1>1 DEF Uploaded, NoBranch, Branch
  <1> HIDE DEF f, b
  <1>5. StateInv'
    BY <1>0, <1>1, <1>2, <1>3 DEF RegistersInv, StateInv
  <1>6. SepInv'
    BY <1>0 DEF RegistersInv, SepInv
  <1>7. CommandInv'
    BY <1>0 DEF RegistersInv, CommandInv, Sent, Cmd, Number
  <1>8. WaitInv'
    <2>1. Cmd' = Cmd /\ Number' = Number /\ Uploaded(Cmd)' = b
      BY <1>0 DEF Cmd, Number, b
    <2>2. \A r \in b.writes \cap DOMAIN out' : out'[r] = Number
      BY <1>3
    <2>3. pc = "wait" => /\ log # <<>> /\ Number = Len(log)
                         /\ Cmd = log[Len(log)].type /\ Cmd \notin HostContinuous
      BY DEF RegistersInv, WaitInv
    <2>4. pc = "read" => log # <<>> /\ log[Len(log)].type \in HostContinuous
      BY DEF RegistersInv, WaitInv
    <2> QED
      BY <1>0, <2>1, <2>2, <2>3, <2>4 DEF WaitInv
  <1>9. ArgumentsArrive'
    <2>1. ASSUME NEW u \in b.uses, ~Unsent(f, u[1])
          PROVE  in[u[2]] = [who |-> "control", call |-> Number, field |-> u[1]]
      <3>1. u \in ScriptBranch(f.type).uses
        BY <1>4, <2>1
      <3>2. Carries(f, u)
        BY <1>2, <2>1, <3>1, AllFit DEF Fits
      <3>3. PICK k \in 1..Len(Recipe[f.recipe]) : Recipe[f.recipe][k] = u[2] /\ Pack(f)[k] = u[1]
        BY <3>2 DEF Carries
      <3>4. in[Recipe[f.recipe][k]] = [who |-> "control", call |-> Number, field |-> Pack(f)[k]]
        BY <1>1 DEF Sent
      <3> QED
        BY <3>3, <3>4
    <2>2. ASSUME NEW x \in used', ~Unsent(f, x.as)
          PROVE  x.reg.who = "control" /\ x.reg.call = done' /\ x.reg.field = x.as
      <3>1. PICK u \in b.uses : x = [as |-> u[1], reg |-> in[u[2]]]
        BY <1>3
      <3>2. in[u[2]] = [who |-> "control", call |-> Number, field |-> u[1]]
        <4>1. ~Unsent(f, u[1])
          BY <2>2, <3>1
        <4> QED
          BY <2>1, <4>1
      <3> QED
        BY <1>3, <3>1, <3>2
    <2>3. log'[done'] = f
      BY <1>0, <1>3 DEF f
    <2> QED
      BY <2>2, <2>3 DEF ArgumentsArrive, Genuine
  <1>10. AnswerIsWritten'
    BY <1>0 DEF RegistersInv, AnswerIsWritten
  <1> QED
    BY <1>5, <1>6, <1>7, <1>8, <1>9, <1>10 DEF RegistersInv

\* The control interface and its registers are left alone.
LEMMA QuietStep ==
    ASSUME RegistersInv, UNCHANGED <<in, out, log, pc, ret, done, used>>
    PROVE  RegistersInv'
  BY DEF RegistersInv, StateInv, SepInv, CommandInv, Sent, Cmd, Number, WaitInv, ArgumentsArrive,
         Genuine, AnswerIsWritten

LEMMA RegistersNext == RegistersInv /\ [Next]_vars => RegistersInv'
  <1> SUFFICES ASSUME RegistersInv, [Next]_vars PROVE RegistersInv'
    OBVIOUS
  <1>1. ASSUME NEW f \in Functions, Call(f) \/ Reject(f)
        PROVE  RegistersInv'
    BY <1>1, CallStep, RejectStep, RegistersAssumption
  <1>2. CASE Finish
    BY <1>2, FinishStep
  <1>3. CASE FinishContinuous
    BY <1>3, FinishContinuousStep
  <1>4. CASE ReadyTimeout
    BY <1>4, ReadyTimeoutStep
  <1>5. CASE ScriptIdle
    BY <1>5, QuietStep DEF ScriptIdle
  <1>6. CASE ScriptRealtimeCmd
    <2>1. Cmd # "NO_CMD"
      BY <1>6 DEF ScriptRealtimeCmd, ScriptRealtime
    <2> QED
      BY <1>6, <2>1, ProcessStep DEF ScriptRealtimeCmd
  <1>7. CASE ScriptRegularCmd
    BY <1>7, ProcessStep DEF ScriptRegularCmd
  <1>8. ASSUME NEW bank \in Banks, NEW id \in IoIds, NEW level \in BOOLEAN,
               SetDigitalOut(bank, id, level)
        PROVE  RegistersInv'
    BY <1>8, IoStep, IoRecipesApart DEF SetDigitalOut
  <1>9. ASSUME NEW id \in IoIds, NEW type \in {"voltage", "current"}, SetAnalogOutput(id, type)
        PROVE  RegistersInv'
    BY <1>9, IoStep, IoRecipesApart DEF SetAnalogOutput
  <1>10. CASE SetSpeedSlider
    BY <1>10, IoStep, IoRecipesApart DEF SetSpeedSlider
  <1>11. ASSUME NEW n \in {18, 22}, SetInputIntRegister(n) \/ SetInputDoubleRegister(n)
         PROVE  RegistersInv'
    BY <1>11, IoStep, IoRecipesApart DEF SetInputIntRegister, SetInputDoubleRegister
  <1>12. CASE IoIsLost \/ IoLinkChanges \/ IoReconnect
    BY <1>12, QuietStep DEF IoIsLost, IoLinkChanges, IoReconnect, controlVars
  <1>13. CASE UNCHANGED vars
    BY <1>13, QuietStep DEF vars, controlVars
  <1> QED
    BY <1>1, <1>2, <1>3, <1>4, <1>5, <1>6, <1>7, <1>8, <1>9, <1>10, <1>11, <1>12, <1>13 DEF Next

LEMMA RegistersInvariant == Spec => []RegistersInv
  <1>1. Init => RegistersInv
    BY RegistersInit
  <1>2. RegistersInv /\ [Next]_vars => RegistersInv'
    BY RegistersNext
  <1> QED
    BY <1>1, <1>2, PTL DEF Spec

\* The four tables agree: whatever was called before and whatever the other
\* interface writes in between, process_cmd passes on the arguments of the call
\* that sent the command, each as what it was meant to be.
THEOREM ArgumentsAreGenuine == Spec => []ArgumentsArrive
  <1>1. RegistersInv => ArgumentsArrive
    BY DEF RegistersInv
  <1> QED
    BY <1>1, RegistersInvariant, PTL

\* A function that waits for DONE returns what its own command has written into
\* the output registers, if the controller keeps the lines of its branch.
THEOREM AnswersAreWritten == Spec => []AnswerIsWritten
  <1>1. RegistersInv => AnswerIsWritten
    BY DEF RegistersInv
  <1> QED
    BY <1>1, RegistersInvariant, PTL

\* The control interface and the IO interface never write each other's registers.
THEOREM InterfacesAreSeparate == Spec => []Separate
  <1>1. RegistersInv => Separate
    BY InRegisters DEF RegistersInv, SepInv, Separate, Untouched
  <1> QED
    BY <1>1, RegistersInvariant, PTL
-----------------------------------------------------------------------------
(* The outputs *)

\* The masks of the numbers that a shift can have.
LEMMA MaskTable ==
    \A id \in 0..31 :
       /\ Mask(id) \in {0, 1, 2, 4, 8, 16, 32, 64, 128}
       /\ (Mask(id) = 1) <=> (id = 0)
       /\ (Mask(id) = 2) <=> (id = 1)
       /\ (Mask(id) = 4) <=> (id = 2)
       /\ (Mask(id) = 8) <=> (id = 3)
       /\ (Mask(id) = 16) <=> (id = 4)
       /\ (Mask(id) = 32) <=> (id = 5)
       /\ (Mask(id) = 64) <=> (id = 6)
       /\ (Mask(id) = 128) <=> (id = 7)
  <1>1. /\ Mask(0) = 1 /\ Mask(1) = 2 /\ Mask(2) = 4 /\ Mask(3) = 8
        /\ Mask(4) = 16 /\ Mask(5) = 32 /\ Mask(6) = 64 /\ Mask(7) = 128
    BY DEF Mask
  <1>2. /\ Mask(8) = 0 /\ Mask(9) = 0 /\ Mask(10) = 0 /\ Mask(11) = 0
        /\ Mask(12) = 0 /\ Mask(13) = 0 /\ Mask(14) = 0 /\ Mask(15) = 0
        /\ Mask(16) = 0 /\ Mask(17) = 0 /\ Mask(18) = 0 /\ Mask(19) = 0
        /\ Mask(20) = 0 /\ Mask(21) = 0 /\ Mask(22) = 0 /\ Mask(23) = 0
        /\ Mask(24) = 0 /\ Mask(25) = 0 /\ Mask(26) = 0 /\ Mask(27) = 0
        /\ Mask(28) = 0 /\ Mask(29) = 0 /\ Mask(30) = 0 /\ Mask(31) = 0
    BY DEF Mask
  <1>3. \A id \in 8..31 : Mask(id) = 0
    BY <1>2
  <1> QED
    BY <1>1, <1>3

LEMMA BitTable ==
    \A m \in {0, 1, 2, 4, 8, 16, 32, 64, 128} :
       /\ Bit(0, m) <=> m = 1
       /\ Bit(1, m) <=> m = 2
       /\ Bit(2, m) <=> m = 4
       /\ Bit(3, m) <=> m = 8
       /\ Bit(4, m) <=> m = 16
       /\ Bit(5, m) <=> m = 32
       /\ Bit(6, m) <=> m = 64
       /\ Bit(7, m) <=> m = 128
  BY DEF Bit

\* A mask has the bit of its output and no other, and none for a number past 7.
LEMMA MaskBits ==
    ASSUME NEW id \in 0..31, NEW k \in 0..7
    PROVE  (Bit(k, Mask(id)) <=> k = id) /\ ~Bit(k, 0)
  <1>1. \A m \in {0, 1, 2, 4, 8, 16, 32, 64, 128} : Bit(k, m) <=>
            \/ k = 0 /\ m = 1
            \/ k = 1 /\ m = 2
            \/ k = 2 /\ m = 4
            \/ k = 3 /\ m = 8
            \/ k = 4 /\ m = 16
            \/ k = 5 /\ m = 32
            \/ k = 6 /\ m = 64
            \/ k = 7 /\ m = 128
    <2>1. k = 0 \/ k = 1 \/ k = 2 \/ k = 3 \/ k = 4 \/ k = 5 \/ k = 6 \/ k = 7
      OBVIOUS
    <2> QED
      BY <2>1, BitTable
  <1> QED
    BY <1>1, MaskTable

\* Beside the property: the shape of what was asked, so that it can be updated.
AnalogValues == [0..1 -> [by : Nat, type : {"voltage", "current"}]]

OutInv ==
    /\ levels \in [Banks -> [0..7 -> BOOLEAN]]
    /\ analog \in AnalogValues /\ io \in Nat
    /\ \E a \in AnalogValues : asked = [levels |-> levels, analog |-> a]
    /\ OutputsAsAsked

LEMMA DigitalStep ==
    ASSUME OutInv, NEW bank \in Banks, NEW id \in 0..31, NEW level \in BOOLEAN,
           SetDigitalOut(bank, id, level)
    PROVE  OutInv'
  <1> DEFINE value == IF level THEN Mask(id) ELSE 0
             l == levels[bank]
             new == [k \in 0..7 |-> IF Bit(k, Mask(id)) THEN Bit(k, value) ELSE l[k]]
             ask == [k \in 0..7 |-> IF k = id THEN level ELSE l[k]]
  <1>1. l \in [0..7 -> BOOLEAN]
    BY DEF OutInv
  <1>2. ASSUME NEW k \in 0..7
        PROVE  (IF Bit(k, Mask(id)) THEN Bit(k, value) ELSE l[k])
                  = (IF k = id THEN level ELSE l[k])
    <2>1. CASE k = id
      <3>1. Bit(k, Mask(id)) /\ ~Bit(k, 0)
        BY <2>1, MaskBits
      <3>2. CASE level = TRUE
        BY <2>1, <3>1, <3>2 DEF Bit
      <3>3. CASE level = FALSE
        BY <2>1, <3>1, <3>3 DEF Bit
      <3> QED
        BY <3>2, <3>3
    <2>2. CASE k # id
      <3>1. ~Bit(k, Mask(id))
        BY <2>2, MaskBits
      <3> QED
        BY <2>2, <3>1
    <2> QED
      BY <2>1, <2>2
  <1>3. new = ask
    BY <1>2, Zenon
  <1>4. new \in [0..7 -> BOOLEAN]
    <2>1. ask \in [0..7 -> BOOLEAN]
      BY <1>1
    <2> QED
      BY <1>3, <2>1
  <1>5. /\ levels' = [levels EXCEPT ![bank] = new]
        /\ asked' = [asked EXCEPT !.levels[bank] =
                         [k \in 0..7 |-> IF k = id THEN level ELSE @[k]]]
        /\ analog' = analog /\ io' = io + 1
    BY DEF SetDigitalOut, IoSends
  <1>6. PICK a \in AnalogValues : asked = [levels |-> levels, analog |-> a]
    BY DEF OutInv
  <1>7. asked' = [asked EXCEPT !.levels[bank] = ask]
    BY <1>5, <1>6
  <1> HIDE DEF new, ask
  <1>8. asked' = [levels |-> [levels EXCEPT ![bank] = ask], analog |-> a]
    BY <1>6, <1>7
  <1>9. asked' = [levels |-> levels', analog |-> a]
    BY <1>3, <1>5, <1>8
  <1>10. OutputsAsAsked'
    <2>1. asked.analog = a /\ asked'.analog = a /\ asked'.levels = levels'
      BY <1>6, <1>9
    <2>2. analog' = analog
      BY <1>5
    <2>3. OutputsAsAsked
      BY DEF OutInv
    <2> QED
      BY <2>1, <2>2, <2>3 DEF OutputsAsAsked, Unshifted
  <1>11. levels' \in [Banks -> [0..7 -> BOOLEAN]]
    BY <1>4, <1>5 DEF OutInv
  <1>12. analog' \in AnalogValues /\ io' \in Nat
    BY <1>5 DEF OutInv
  <1> QED
    BY <1>9, <1>10, <1>11, <1>12 DEF OutInv

\* The unshifted type: bit 0 for a voltage, bit 1 never.
LEMMA TypeBits == Bit(0, 1) /\ ~Bit(1, 1) /\ ~Bit(0, 0) /\ ~Bit(1, 0)
  BY DEF Bit

LEMMA AnalogStep ==
    ASSUME OutInv, NEW id \in 0..31, NEW type \in {"voltage", "current"},
           SetAnalogOutput(id, type)
    PROVE  OutInv'
  <1> DEFINE types == IF type = "voltage" THEN 1 ELSE 0
             got(k) == IF Bit(k, types) THEN "voltage" ELSE "current"
             new == [k \in 0..1 |-> IF k = id THEN [by |-> io + 1, type |-> got(k)] ELSE analog[k]]
  <1>0. PICK a \in AnalogValues : asked = [levels |-> levels, analog |-> a]
    BY DEF OutInv
  <1> DEFINE ask == [k \in 0..1 |-> IF k = id THEN [by |-> io + 1, type |-> type] ELSE a[k]]
  <1>1. levels' = levels /\ io' = io + 1 /\ io \in Nat /\ analog \in AnalogValues
    BY DEF SetAnalogOutput, IoSends, OutInv
  <1>2. \A k \in 0..1 : Bit(k, Mask(id)) <=> k = id
    BY MaskBits
  <1>3. analog' = new
    <2>1. analog' = [k \in 0..1 |->
                       IF Bit(k, Mask(id))
                       THEN [by |-> IF k = id THEN io + 1 ELSE 0, type |-> got(k)] ELSE analog[k]]
      BY DEF SetAnalogOutput
    <2>2. \A k \in 0..1 :
             (IF Bit(k, Mask(id))
              THEN [by |-> IF k = id THEN io + 1 ELSE 0, type |-> got(k)] ELSE analog[k])
             = (IF k = id THEN [by |-> io + 1, type |-> got(k)] ELSE analog[k])
      <3> HIDE DEF got
      <3> QED
        BY <1>2
    <2> HIDE DEF got
    <2> QED
      BY <2>1, <2>2, Zenon
  <1>4. asked' = [levels |-> levels, analog |-> ask]
    BY <1>0 DEF SetAnalogOutput
  <1>5. \A k \in 0..1 : got(k) \in {"voltage", "current"} /\ (got(k) = type \/ (k = 1 /\ type = "voltage"))
    BY TypeBits
  <1> HIDE DEF got, types
  <1>6. new \in AnalogValues /\ ask \in AnalogValues
    BY <1>1, <1>5 DEF AnalogValues
  <1>7. ASSUME NEW k \in 0..1
        PROVE  /\ new[k].by = ask[k].by
               /\ new[k].type = ask[k].type \/ (k = 1 /\ ask[k].type = "voltage")
    <2>1. CASE k = id
      BY <1>5, <2>1
    <2>2. CASE k # id
      BY <1>0, <2>2 DEF OutInv, OutputsAsAsked, Unshifted
    <2> QED
      BY <2>1, <2>2
  <1> HIDE DEF new, ask
  <1>8. OutputsAsAsked'
    BY <1>1, <1>3, <1>4, <1>7 DEF OutputsAsAsked, Unshifted
  <1>9. levels' \in [Banks -> [0..7 -> BOOLEAN]] /\ io' \in Nat
    BY <1>1 DEF OutInv
  <1> QED
    BY <1>1, <1>3, <1>4, <1>6, <1>8, <1>9 DEF OutInv

LEMMA OutNext == OutInv /\ [Next]_vars => OutInv'
  <1> SUFFICES ASSUME OutInv, [Next]_vars PROVE OutInv'
    OBVIOUS
  <1>1. ASSUME NEW bank \in Banks, NEW id \in IoIds, NEW level \in BOOLEAN,
               SetDigitalOut(bank, id, level)
        PROVE  OutInv'
    BY <1>1, DigitalStep, RegistersAssumption
  <1>2. ASSUME NEW id \in IoIds, NEW type \in {"voltage", "current"}, SetAnalogOutput(id, type)
        PROVE  OutInv'
    BY <1>2, AnalogStep, RegistersAssumption
  <1>3. ASSUME UNCHANGED <<levels, analog, asked>>, io' = io \/ io' = io + 1
        PROVE  OutInv'
    BY <1>3 DEF OutInv, OutputsAsAsked, Unshifted
  <1>4. ASSUME NEW f \in Functions, Call(f) \/ Reject(f)
        PROVE  OutInv'
    BY <1>3, <1>4 DEF Call, Reject, ioVars
  <1>5. CASE Finish \/ FinishContinuous \/ ReadyTimeout
    BY <1>3, <1>5 DEF Finish, FinishContinuous, ReadyTimeout, ioVars
  <1>6. CASE ScriptIdle \/ ScriptRealtimeCmd \/ ScriptRegularCmd
    BY <1>3, <1>6 DEF ScriptIdle, ScriptRealtimeCmd, ScriptRegularCmd, ioVars
  <1>7. CASE SetSpeedSlider
    BY <1>3, <1>7 DEF SetSpeedSlider, IoSends
  <1>8. ASSUME NEW n \in {18, 22}, SetInputIntRegister(n) \/ SetInputDoubleRegister(n)
        PROVE  OutInv'
    BY <1>3, <1>8 DEF SetInputIntRegister, SetInputDoubleRegister, IoSends
  <1>9. CASE IoIsLost \/ IoLinkChanges \/ IoReconnect
    BY <1>3, <1>9 DEF IoIsLost, IoLinkChanges, IoReconnect
  <1>10. CASE UNCHANGED vars
    BY <1>3, <1>10 DEF vars, ioVars
  <1> QED
    BY <1>1, <1>2, <1>4, <1>5, <1>6, <1>7, <1>8, <1>9, <1>10 DEF Next

\* Every digital and analog output has the value last sent for it: the mask of a
\* setter has the bit of its output and no other, and no bit for a number past 7.
\* An analog output has the type asked for too, except output 1, whose bit of the
\* type setAnalogOutputVoltage never sets.
THEOREM OutputsAreAsAsked == Spec => []OutputsAsAsked
  <1>1. Init => OutInv
    <2> SUFFICES ASSUME Init PROVE OutInv
      OBVIOUS
    <2>1. /\ levels = [b \in Banks |-> [k \in 0..7 |-> FALSE]] /\ io = 0
          /\ analog = [k \in 0..1 |-> [by |-> 0, type |-> "current"]]
          /\ asked = [levels |-> levels, analog |-> analog]
      BY DEF Init
    <2>2. analog \in AnalogValues
      BY <2>1 DEF AnalogValues
    <2> QED
      BY <2>1, <2>2 DEF OutInv, OutputsAsAsked
  <1>2. OutInv /\ [Next]_vars => OutInv'
    BY OutNext
  <1>3. OutInv => OutputsAsAsked
    BY DEF OutInv
  <1> QED
    BY <1>1, <1>2, <1>3, PTL DEF Spec
=============================================================================
