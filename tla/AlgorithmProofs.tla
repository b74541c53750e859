--------------------------- MODULE AlgorithmProofs ---------------------------
(***************************************************************************)
(* Theorems about two algorithms that one thread runs to the end, for      *)
(* inputs of any size: the expansion of a topic's macros (MacroTable), and *)
(* the in-place permutation that builds the node store (NodeStore).        *)
(***************************************************************************)
EXTENDS MacroTable, NodeStore, Integers, FiniteSetTheorems, SequenceTheorems, TLAPS

-----------------------------------------------------------------------------
(***************************************************************************)
(* A topic's macro table, of any size and with any references, is refused  *)
(* exactly when it is broken.                                              *)
(*                                                                         *)
(* A set of macros is sound when it holds all that its members name and no *)
(* circle.  The union of the sound sets is sound, and a macro that names   *)
(* nothing outside it belongs to it.  Whatever an expansion has left       *)
(* behind is in that union; whatever it is inside of is a path.            *)
(***************************************************************************)
Sound(S) ==
    /\ S \subseteq DOMAIN raw
    /\ \A n \in S : Calls(n) \subseteq S
    /\ \A C \in SUBSET S : ~Circular(C)

Good == UNION {S \in SUBSET DOMAIN raw : Sound(S)}

\* Every macro among the first leaves of n's body, up to but not including
\* position k, is good.
GoodUpTo(n, k) ==
    \A i \in DOMAIN raw[n] : i < k /\ raw[n][i].do = "macro" => raw[n][i].name \in Good

Frame == [name : DOMAIN raw, at : Nat \ {0}]

MacroTypes ==
    /\ \A n \in DOMAIN raw : raw[n] \in Seq(Leaf)
    /\ opened \in Seq(Frame)
    /\ verdict \in {"resolving", "resolved", "refused"}

\* The expansions are a path without repetition, each inside the leaf before its
\* caller's position.
Path ==
    /\ \A i, j \in DOMAIN opened : opened[i].name = opened[j].name => i = j
    /\ \A i \in DOMAIN opened :
         i # Len(opened) =>
            /\ opened[i].at - 1 \in DOMAIN raw[opened[i].name]
            /\ raw[opened[i].name][opened[i].at - 1].do = "macro"
            /\ raw[opened[i].name][opened[i].at - 1].name = opened[i + 1].name

LeftBehind ==
    /\ DOMAIN table \subseteq Good
    /\ \A i \in DOMAIN opened :
         GoodUpTo(opened[i].name, IF i = Len(opened) THEN opened[i].at ELSE opened[i].at - 1)

\* The inductive invariant.
MacroInv ==
    /\ MacroTypes
    /\ Path
    /\ LeftBehind
    /\ verdict = "refused" => Broken
    /\ verdict = "resolved" => ~Broken

-----------------------------------------------------------------------------
LEMMA GoodIsSound == Sound(Good)
  <1>1. Good \subseteq DOMAIN raw
    BY DEF Good
  <1>2. ASSUME NEW n \in Good PROVE Calls(n) \subseteq Good
    BY DEF Good, Sound
  <1>3. ASSUME NEW C \in SUBSET Good, Circular(C) PROVE FALSE
    <2>1. PICK c \in C : TRUE
      BY <1>3 DEF Circular
    <2>2. PICK S \in SUBSET DOMAIN raw : Sound(S) /\ c \in S
      BY <2>1 DEF Good
    <2>3. C \cap S # {} /\ C \cap S \in SUBSET S
      BY <2>1, <2>2
    <2>4. \A d \in C \cap S : Calls(d) \cap (C \cap S) # {}
      BY <1>3, <2>2 DEF Circular, Sound
    <2>5. Circular(C \cap S)
      BY <2>3, <2>4 DEF Circular
    <2> QED BY <2>2, <2>3, <2>5 DEF Sound
  <1> QED BY <1>1, <1>2, <1>3 DEF Sound

\* A macro that names only good ones is good.
LEMMA GoodGrows ==
    ASSUME NEW n \in DOMAIN raw, Calls(n) \subseteq Good
    PROVE  n \in Good
  <1> DEFINE S == Good \cup {n}
  <1>1. S \subseteq DOMAIN raw /\ \A m \in S : Calls(m) \subseteq S
    BY GoodIsSound DEF Sound
  <1>2. ASSUME NEW C \in SUBSET S, Circular(C) PROVE FALSE
    <2>1. ASSUME C \cap Good # {} PROVE FALSE
      <3>1. \A d \in C \cap Good : Calls(d) \cap (C \cap Good) # {}
        BY <1>2, GoodIsSound DEF Circular, Sound
      <3>2. Circular(C \cap Good) /\ C \cap Good \in SUBSET Good
        BY <2>1, <3>1 DEF Circular
      <3> QED BY <3>2, GoodIsSound DEF Sound
    <2>2. C = {n}
      BY <1>2, <2>1 DEF Circular
    <2>3. n \in Calls(n)
      BY <1>2, <2>2 DEF Circular
    <2> QED BY <2>1, <2>2, <2>3
  <1>3. Sound(S)
    BY <1>1, <1>2 DEF Sound
  <1> QED BY <1>1, <1>3 DEF Good

LEMMA CallsAre ==
    ASSUME NEW n, NEW i \in DOMAIN raw[n], raw[n][i].do = "macro"
    PROVE  raw[n][i].name \in Calls(n)
  BY DEF Calls

\* A body all of whose leaves are behind: its macro is good.
LEMMA ReadToTheEnd ==
    ASSUME MacroTypes, NEW n \in DOMAIN raw, NEW k \in Nat, k > Len(raw[n]), GoodUpTo(n, k)
    PROVE  n \in Good
  <1>1. DOMAIN raw[n] = 1..Len(raw[n]) /\ Len(raw[n]) \in Nat
    BY DEF MacroTypes
  <1>2. \A i \in DOMAIN raw[n] : raw[n][i].do = "macro" => raw[n][i].name \in Good
    BY <1>1 DEF GoodUpTo
  <1>3. Calls(n) \subseteq Good
    BY <1>2 DEF Calls
  <1> QED BY <1>3, GoodGrows

LEMMA AllGoodIsNotBroken ==
    ASSUME DOMAIN raw \subseteq Good
    PROVE  ~Broken
  <1>1. \A n \in DOMAIN raw : Calls(n) \subseteq DOMAIN raw
    BY GoodIsSound DEF Sound
  <1>2. \A C \in SUBSET DOMAIN raw : ~Circular(C)
    BY GoodIsSound DEF Sound
  <1> QED BY <1>1, <1>2 DEF Broken

LEMMA SameTable ==
    ASSUME raw' = raw
    PROVE  /\ Good' = Good
           /\ Broken' = Broken
           /\ \A n, k : GoodUpTo(n, k)' = GoodUpTo(n, k)
  <1>1. Good' = Good
    BY DEF Good, Sound, Circular, Calls
  <1>2. Broken' = Broken
    BY DEF Broken, Circular, Calls
  <1> QED BY <1>1, <1>2 DEF GoodUpTo

LEMMA OneBack ==
    ASSUME NEW k \in Nat, NEW x, x = k + 1
    PROVE  x - 1 = k /\ x # k
  <1>1. x \in Int
    OBVIOUS
  <1> QED BY <1>1

LEMMA SameFrames ==
    ASSUME raw' = raw
    PROVE  Frame' = Frame
  BY DEF Frame

\* What the innermost frame is.
LEMMA TopFacts ==
    ASSUME MacroTypes, opened # <<>>
    PROVE  /\ Len(opened) \in Nat /\ Len(opened) >= 1
           /\ DOMAIN opened = 1..Len(opened)
           /\ Len(opened) \in DOMAIN opened
           /\ Innermost.name \in DOMAIN raw
           /\ Innermost.at \in Nat /\ Innermost.at >= 1
           /\ raw[Innermost.name] \in Seq(Leaf)
           /\ DOMAIN raw[Innermost.name] = 1..Len(raw[Innermost.name])
           /\ Len(raw[Innermost.name]) \in Nat
  <1>1. opened \in Seq(Frame)
    BY DEF MacroTypes
  <1>2. Len(opened) \in Nat /\ DOMAIN opened = 1..Len(opened) /\ Len(opened) >= 1
    BY <1>1
  <1>3. Len(opened) \in DOMAIN opened
    BY <1>2
  <1>4. Innermost \in Frame
    BY <1>1, <1>2, <1>3 DEF Innermost
  <1>5. Innermost.name \in DOMAIN raw /\ Innermost.at \in Nat /\ Innermost.at >= 1
    BY <1>4 DEF Frame
  <1>6. raw[Innermost.name] \in Seq(Leaf)
    BY <1>5 DEF MacroTypes
  <1> QED BY <1>2, <1>3, <1>5, <1>6

\* The leaf the innermost frame comes to.
LEMMA ComingFacts ==
    ASSUME MacroTypes, Expanding
    PROVE  Innermost.at \in DOMAIN raw[Innermost.name] /\ Coming = raw[Innermost.name][Innermost.at]
  BY TopFacts DEF Expanding, AtEnd, Coming

LEMMA GoneOnFacts ==
    ASSUME MacroTypes, opened # <<>>
    PROVE  /\ GoneOn \in Seq(Frame)
           /\ Len(GoneOn) = Len(opened) /\ DOMAIN GoneOn = DOMAIN opened
           /\ \A i \in DOMAIN opened : GoneOn[i].name = opened[i].name
           /\ \A i \in DOMAIN opened : i # Len(opened) => GoneOn[i] = opened[i]
           /\ GoneOn[Len(opened)].at = Innermost.at + 1
  <1>1. opened \in Seq(Frame)
    BY DEF MacroTypes
  <1>2. Len(opened) \in DOMAIN opened /\ DOMAIN opened = 1..Len(opened)
    BY TopFacts
  <1>3. opened[Len(opened)] = Innermost /\ Innermost \in Frame
    BY <1>1, <1>2 DEF Innermost
  <1>4. GoneOn = [opened EXCEPT ![Len(opened)] = [Innermost EXCEPT !.at = @ + 1]]
    BY <1>3 DEF GoneOn
  <1> DEFINE t == [Innermost EXCEPT !.at = @ + 1]
  <1>5. t \in Frame /\ t.name = Innermost.name /\ t.at = Innermost.at + 1
    BY <1>3 DEF Frame
  <1> HIDE DEF t
  <1>6. GoneOn = [opened EXCEPT ![Len(opened)] = t]
    BY <1>4 DEF t
  <1>7. /\ GoneOn \in Seq(Frame)
        /\ Len(GoneOn) = Len(opened) /\ DOMAIN GoneOn = DOMAIN opened
    BY <1>1, <1>2, <1>5, <1>6
  <1>8. /\ GoneOn[Len(opened)] = t
        /\ \A i \in DOMAIN opened : i # Len(opened) => GoneOn[i] = opened[i]
    BY <1>1, <1>2, <1>6
  <1>9. \A i \in DOMAIN opened : GoneOn[i].name = opened[i].name
    BY <1>3, <1>5, <1>8
  <1> QED BY <1>5, <1>7, <1>8, <1>9

\* One more leaf is behind: nothing is asked of it unless it is a macro.
LEMMA OneFurther ==
    ASSUME MacroTypes, Expanding, GoodUpTo(Innermost.name, Innermost.at),
           Coming.do # "macro" \/ Coming.name \in Good
    PROVE  GoodUpTo(Innermost.name, Innermost.at + 1)
  <1>1. Innermost.at \in DOMAIN raw[Innermost.name] /\ Coming = raw[Innermost.name][Innermost.at]
    BY ComingFacts
  <1>2. DOMAIN raw[Innermost.name] = 1..Len(raw[Innermost.name]) /\ Len(raw[Innermost.name]) \in Nat
    BY TopFacts DEF Expanding
  <1>3. ASSUME NEW i \in DOMAIN raw[Innermost.name], i < Innermost.at + 1, raw[Innermost.name][i].do = "macro"
        PROVE  raw[Innermost.name][i].name \in Good
    <2>1. i < Innermost.at \/ i = Innermost.at
      BY <1>1, <1>2, <1>3
    <2> QED BY <1>1, <1>3, <2>1 DEF GoodUpTo
  <1> QED BY <1>3 DEF GoodUpTo

-----------------------------------------------------------------------------
LEMMA InitHolds == MacroInit => MacroInv
  <1> SUFFICES ASSUME MacroInit PROVE MacroInv
    OBVIOUS
  <1>1. MacroTypes
    BY TablesAssumption DEF MacroInit, MacroStart, MacroTypes
  <1>2. DOMAIN opened = {} /\ DOMAIN table = {} /\ verdict = "resolving"
    BY DEF MacroInit, MacroStart
  <1>3. Path /\ LeftBehind
    BY <1>2 DEF Path, LeftBehind
  <1> QED BY <1>1, <1>2, <1>3 DEF MacroInv

LEMMA BeginHolds == MacroInv /\ Begin => MacroInv'
  <1> SUFFICES ASSUME MacroInv, Begin PROVE MacroInv'
    OBVIOUS
  <1>1. PICK n \in DOMAIN raw : opened' = <<[name |-> n, at |-> 1]>>
    BY DEF Begin
  <1>2. raw' = raw /\ table' = table /\ verdict' = "resolving"
    BY DEF Begin
  <1>3. DOMAIN opened' = {1} /\ Len(opened') = 1 /\ opened'[1].name = n /\ opened'[1].at = 1
    BY <1>1
  <1>4. MacroTypes'
    <2>1. opened' \in Seq(Frame)
      BY <1>1 DEF Frame
    <2> QED BY <1>2, <2>1, SameFrames DEF MacroInv, MacroTypes
  <1>5. Path'
    BY <1>3 DEF Path
  <1>6. GoodUpTo(n, 1)
    BY DEF MacroInv, MacroTypes, GoodUpTo
  <1>7. LeftBehind'
    BY <1>2, <1>3, <1>6, SameTable DEF MacroInv, LeftBehind
  <1> QED BY <1>2, <1>4, <1>5, <1>7 DEF MacroInv

LEMMA CopyHolds == MacroInv /\ Copy => MacroInv'
  <1> SUFFICES ASSUME MacroInv, Copy PROVE MacroInv'
    OBVIOUS
  <1>1. MacroTypes /\ Expanding /\ opened # <<>> /\ Coming.do # "macro"
    BY DEF MacroInv, Copy, Expanding
  <1>2. raw' = raw /\ table' = table /\ verdict' = "resolving" /\ opened' = GoneOn
    BY DEF Copy, Expanding
  <1>3. Len(opened) \in DOMAIN opened
    BY <1>1, TopFacts
  <1>4. MacroTypes'
    BY <1>1, <1>2, GoneOnFacts, SameFrames DEF MacroTypes
  <1>5. Path'
    BY <1>1, <1>2, GoneOnFacts DEF MacroInv, Path
  <1>6. GoodUpTo(Innermost.name, Innermost.at + 1)
    <2>1. GoodUpTo(Innermost.name, Innermost.at)
      BY <1>3 DEF MacroInv, LeftBehind, Innermost
    <2> QED BY <1>1, <2>1, OneFurther
  <1>7. LeftBehind'
    <2>1. ASSUME NEW i \in DOMAIN GoneOn
          PROVE  GoodUpTo(GoneOn[i].name, IF i = Len(GoneOn) THEN GoneOn[i].at ELSE GoneOn[i].at - 1)
      <3>1. CASE i = Len(opened)
        BY <1>1, <1>6, <3>1, GoneOnFacts DEF Innermost
      <3>2. CASE i # Len(opened)
        BY <1>1, <3>2, GoneOnFacts DEF MacroInv, LeftBehind
      <3> QED BY <3>1, <3>2
    <2> QED BY <1>2, <2>1, SameTable DEF MacroInv, LeftBehind
  <1> QED BY <1>2, <1>4, <1>5, <1>7 DEF MacroInv

LEMMA EnterHolds == MacroInv /\ Enter => MacroInv'
  <1> SUFFICES ASSUME MacroInv, Enter PROVE MacroInv'
    OBVIOUS
  <1> DEFINE N == Len(opened)
             f == [name |-> Coming.name, at |-> 1]
  <1>1. MacroTypes /\ Expanding /\ opened # <<>> /\ Coming.do = "macro"
        /\ Coming.name \notin OnStack /\ Coming.name \in DOMAIN raw
    BY DEF MacroInv, Enter, Expanding
  <1>2. raw' = raw /\ table' = table /\ verdict' = "resolving" /\ opened' = Append(GoneOn, f)
    BY DEF Enter, Expanding
  <1>3. N \in DOMAIN opened /\ N \in Nat /\ DOMAIN opened = 1..N
    BY <1>1, TopFacts
  <1>4. GoneOn \in Seq(Frame) /\ Len(GoneOn) = N
    BY <1>1, GoneOnFacts
  <1>5. /\ opened' \in Seq(Frame)
        /\ Len(opened') = N + 1 /\ DOMAIN opened' = 1..(N + 1)
        /\ \A i \in 1..N : opened'[i] = GoneOn[i]
        /\ opened'[N + 1] = f
    <2>1. f \in Frame
      BY <1>1 DEF Frame
    <2> QED BY <1>2, <1>3, <1>4, <2>1
  <1>6. MacroTypes'
    BY <1>1, <1>2, <1>5, SameFrames DEF MacroTypes
  <1>7. \A i \in 1..N : opened'[i].name = opened[i].name /\ opened[i].name # f.name
    BY <1>1, <1>3, <1>5, GoneOnFacts DEF OnStack
  <1>8. Path'
    <2>1. ASSUME NEW i \in DOMAIN opened', NEW j \in DOMAIN opened',
                 opened'[i].name = opened'[j].name
          PROVE  i = j
      <3>1. CASE i \in 1..N /\ j \in 1..N
        BY <1>3, <1>7, <2>1, <3>1 DEF MacroInv, Path
      <3>2. CASE i = N + 1 \/ j = N + 1
        BY <1>3, <1>5, <1>7, <2>1, <3>2
      <3> QED BY <1>3, <1>5, <3>1, <3>2
    <2>2. ASSUME NEW i \in DOMAIN opened', i # Len(opened')
          PROVE  /\ opened'[i].at - 1 \in DOMAIN raw[opened'[i].name]
                 /\ raw[opened'[i].name][opened'[i].at - 1].do = "macro"
                 /\ raw[opened'[i].name][opened'[i].at - 1].name = opened'[i + 1].name
      <3>1. CASE i = N
        <4>1. opened'[i].name = Innermost.name /\ opened'[i].at = Innermost.at + 1 /\ opened'[i + 1] = f
          BY <1>1, <1>3, <1>5, <3>1, GoneOnFacts DEF Innermost
        <4>2. Innermost.at \in DOMAIN raw[Innermost.name] /\ Coming = raw[Innermost.name][Innermost.at]
          BY <1>1, ComingFacts
        <4>3. opened'[i].at - 1 = Innermost.at
          <5>1. Innermost.at \in Nat /\ opened'[i].at = Innermost.at + 1
            BY <1>1, <4>1, TopFacts
          <5> QED BY <5>1, OneBack
        <4>4. raw[opened'[i].name][opened'[i].at - 1] = Coming
          BY <4>1, <4>2, <4>3
        <4> QED BY <1>1, <4>1, <4>2, <4>3, <4>4
      <3>2. CASE i # N
        <4>1. i \in 1..N /\ i + 1 \in 1..N
          BY <1>3, <1>5, <2>2, <3>2
        <4>2. opened'[i] = opened[i] /\ opened'[i + 1].name = opened[i + 1].name
          BY <1>1, <1>3, <1>5, <1>7, <3>2, <4>1, GoneOnFacts
        <4> QED BY <1>3, <3>2, <4>1, <4>2 DEF MacroInv, Path
      <3> QED BY <3>1, <3>2
    <2> QED BY <1>2, <2>1, <2>2 DEF Path
  <1>9. LeftBehind'
    <2>1. ASSUME NEW i \in DOMAIN opened'
          PROVE  GoodUpTo(opened'[i].name,
                          IF i = Len(opened') THEN opened'[i].at ELSE opened'[i].at - 1)
      <3>1. CASE i = N + 1
        <4>1. raw[Coming.name] \in Seq(Leaf)
          BY <1>1 DEF MacroTypes
        <4>2. GoodUpTo(Coming.name, 1)
          BY <4>1 DEF GoodUpTo
        <4> QED BY <1>5, <3>1, <4>2
      <3>2. CASE i = N
        <4>0. opened'[i] = GoneOn[N] /\ GoneOn[N].at = Innermost.at + 1 /\ GoneOn[N].name = Innermost.name
          BY <1>1, <1>3, <1>5, <3>2, GoneOnFacts DEF Innermost
        <4>1. opened'[i].name = Innermost.name /\ opened'[i].at - 1 = Innermost.at
          BY <1>1, <4>0, TopFacts
        <4>2. GoodUpTo(Innermost.name, Innermost.at)
          BY <1>3 DEF MacroInv, LeftBehind, Innermost
        <4>3. i # Len(opened')
          <5>1. N + 1 # N
            BY <1>3, OneBack
          <5> QED BY <1>5, <3>2, <5>1
        <4> QED BY <4>1, <4>2, <4>3
      <3>3. CASE i \in 1..N /\ i # N
        <4>1. opened'[i] = opened[i] /\ i # Len(opened')
          BY <1>1, <1>3, <1>5, <3>3, GoneOnFacts
        <4> QED BY <1>3, <3>3, <4>1 DEF MacroInv, LeftBehind
      <3> QED BY <1>3, <1>5, <3>1, <3>2, <3>3
    <2> QED BY <1>2, <2>1, SameTable DEF MacroInv, LeftBehind
  <1> QED BY <1>2, <1>6, <1>8, <1>9 DEF MacroInv

LEMMA LeaveHolds == MacroInv /\ Leave => MacroInv'
  <1> SUFFICES ASSUME MacroInv, Leave PROVE MacroInv'
    OBVIOUS
  <1> DEFINE N == Len(opened)
  <1>1. MacroTypes /\ opened \in Seq(Frame) /\ N > 1 /\ AtEnd
    BY DEF MacroInv, MacroTypes, Leave
  <1>2. raw' = raw /\ table' = table /\ verdict' = "resolving"
        /\ opened' = SubSeq(opened, 1, N - 1)
    BY DEF Leave
  <1>3. opened # <<>> /\ N \in Nat /\ DOMAIN opened = 1..N
    BY <1>1
  <1>4. /\ opened' \in Seq(Frame)
        /\ Len(opened') = N - 1 /\ DOMAIN opened' = 1..(N - 1)
        /\ \A i \in 1..(N - 1) : opened'[i] = opened[i]
    <2>1. N - 1 \in Nat /\ N - 1 <= N /\ 1 <= N - 1
      BY <1>1, <1>3
    <2> DEFINE M == N - 1
    <2>2. M \in Nat /\ M <= N /\ 1 <= M /\ opened' = SubSeq(opened, 1, M)
      BY <1>2, <2>1
    <2> HIDE DEF M
    <2>3. SubSeq(opened, 1, M) = [i \in 1..M |-> opened[i]]
      BY <1>1, <1>3, <2>2
    <2>4. \A i \in 1..M : opened[i] \in Frame
      BY <1>1, <1>3, <2>2
    <2>5. opened' \in Seq(Frame) /\ Len(opened') = M /\ DOMAIN opened' = 1..M
      BY <2>2, <2>3, <2>4
    <2>6. \A i \in 1..M : opened'[i] = opened[i]
      BY <2>2, <2>3
    <2> QED BY <2>5, <2>6 DEF M
  <1>5. MacroTypes'
    BY <1>1, <1>2, <1>4, SameFrames DEF MacroTypes
  <1>6. Path'
    <2>1. \A i \in DOMAIN opened' : i \in DOMAIN opened /\ opened'[i] = opened[i] /\ i # N
      BY <1>3, <1>4
    <2>2. ASSUME NEW i \in DOMAIN opened', i # Len(opened')
          PROVE  i + 1 \in 1..(N - 1) /\ opened'[i + 1] = opened[i + 1]
      BY <1>3, <1>4, <2>2
    <2>3. \A i, j \in DOMAIN opened' : opened'[i].name = opened'[j].name => i = j
      BY <2>1 DEF MacroInv, Path
    <2>4. ASSUME NEW i \in DOMAIN opened', i # Len(opened')
          PROVE  /\ opened'[i].at - 1 \in DOMAIN raw[opened'[i].name]
                 /\ raw[opened'[i].name][opened'[i].at - 1].do = "macro"
                 /\ raw[opened'[i].name][opened'[i].at - 1].name = opened'[i + 1].name
      BY <2>1, <2>2, <2>4 DEF MacroInv, Path
    <2> QED BY <1>2, <2>3, <2>4 DEF Path
  <1>7. Innermost.name \in Good
    <2>1. GoodUpTo(Innermost.name, Innermost.at)
      BY <1>3, TopFacts DEF MacroInv, LeftBehind, Innermost
    <2>2. Innermost.name \in DOMAIN raw /\ Innermost.at \in Nat /\ Innermost.at > Len(raw[Innermost.name])
      BY <1>1, <1>3, TopFacts DEF AtEnd
    <2> QED BY <1>1, <2>1, <2>2, ReadToTheEnd
  <1>8. LeftBehind'
    <2>1. ASSUME NEW i \in DOMAIN opened'
          PROVE  GoodUpTo(opened'[i].name,
                          IF i = Len(opened') THEN opened'[i].at ELSE opened'[i].at - 1)
      <3>0. i \in DOMAIN opened /\ i # N /\ opened'[i] = opened[i]
        BY <1>1, <1>3, <1>4
      <3>1. GoodUpTo(opened[i].name, opened[i].at - 1)
        BY <3>0 DEF MacroInv, LeftBehind
      <3>2. CASE i # N - 1
        BY <1>4, <3>0, <3>1, <3>2
      <3>3. CASE i = N - 1
        <4>1. /\ opened[i].at - 1 \in DOMAIN raw[opened[i].name]
              /\ raw[opened[i].name][opened[i].at - 1].name = Innermost.name
          <5>1. i + 1 = N
            BY <1>1, <1>3, <3>3
          <5> QED BY <3>0, <5>1 DEF MacroInv, Path, Innermost
        <4>2. opened[i].at \in Nat /\ opened[i].name \in DOMAIN raw
          <5>1. opened[i] \in Frame
            BY <1>1, <1>3, <3>0
          <5> QED BY <5>1 DEF Frame
        <4>3. raw[opened[i].name] \in Seq(Leaf)
          BY <1>1, <4>2 DEF MacroTypes
        <4>4. \A j \in DOMAIN raw[opened[i].name] :
                j < opened[i].at => j < opened[i].at - 1 \/ j = opened[i].at - 1
          BY <4>2, <4>3
        <4>5. GoodUpTo(opened[i].name, opened[i].at)
          BY <1>7, <3>1, <4>1, <4>4 DEF GoodUpTo
        <4> QED BY <1>4, <3>0, <3>3, <4>5
      <3> QED BY <3>2, <3>3
    <2> QED BY <1>2, <2>1, SameTable DEF MacroInv, LeftBehind
  <1> QED BY <1>2, <1>5, <1>6, <1>8 DEF MacroInv

LEMMA StoreHolds == MacroInv /\ Store => MacroInv'
  <1> SUFFICES ASSUME MacroInv, Store PROVE MacroInv'
    OBVIOUS
  <1>0. MacroTypes /\ Len(opened) = 1 /\ AtEnd
    BY DEF MacroInv, Store
  <1>1. MacroTypes /\ Len(opened) = 1 /\ opened # <<>> /\ AtEnd
    <2>1. Len(<<>>) = 0
      OBVIOUS
    <2> QED BY <1>0, <2>1
  <1>2. raw' = raw /\ DOMAIN table' = DOMAIN table \cup {Innermost.name} /\ opened' = <<>>
        /\ verdict' = "resolving"
    BY DEF Store
  <1>3. Innermost.name \in Good
    <2>1. GoodUpTo(Innermost.name, Innermost.at)
      BY <1>1, TopFacts DEF MacroInv, LeftBehind, Innermost
    <2>2. Innermost.name \in DOMAIN raw /\ Innermost.at \in Nat /\ Innermost.at > Len(raw[Innermost.name])
      BY <1>1, TopFacts DEF AtEnd
    <2> QED BY <1>1, <2>1, <2>2, ReadToTheEnd
  <1>4. MacroTypes'
    <2>1. <<>> \in Seq(Frame)
      OBVIOUS
    <2> QED BY <1>1, <1>2, <2>1, SameFrames DEF MacroTypes
  <1>5. Path'
    BY <1>2 DEF Path
  <1>6. LeftBehind'
    BY <1>2, <1>3, SameTable DEF MacroInv, LeftBehind
  <1> QED BY <1>2, <1>4, <1>5, <1>6 DEF MacroInv

\* A name found on the stack closes a circle: the expansions from it on.
LEMMA FoundOnStack ==
    ASSUME MacroInv, Expanding, Coming.do = "macro", Coming.name \in OnStack
    PROVE  Broken
  <1> DEFINE N == Len(opened)
  <1>1. MacroTypes /\ opened # <<>>
    BY DEF MacroInv, Expanding
  <1>2. N \in Nat /\ DOMAIN opened = 1..N /\ N \in DOMAIN opened
        /\ \A i \in DOMAIN opened : opened[i].name \in DOMAIN raw
    <2>1. N \in Nat /\ DOMAIN opened = 1..N /\ N \in DOMAIN opened
      BY <1>1, TopFacts
    <2>2. \A i \in DOMAIN opened : opened[i] \in Frame
      BY <1>1, <2>1 DEF MacroTypes
    <2> QED BY <2>1, <2>2 DEF Frame
  <1>3. PICK k \in DOMAIN opened : opened[k].name = Coming.name
    BY DEF OnStack
  <1> DEFINE C == {opened[i].name : i \in k..N}
  <1>4. C \in SUBSET DOMAIN raw /\ opened[k].name \in C
    BY <1>2, <1>3
  <1>5. ASSUME NEW i \in k..N PROVE Calls(opened[i].name) \cap C # {}
    <2>1. CASE i = N
      <3>1. Innermost.at \in DOMAIN raw[Innermost.name] /\ Coming = raw[Innermost.name][Innermost.at]
        BY <1>1, ComingFacts
      <3>2. Coming.name \in Calls(Innermost.name)
        BY <3>1, CallsAre
      <3> QED BY <1>3, <1>4, <2>1, <3>2 DEF Innermost
    <2>2. CASE i # N
      <3>0. k \in Nat /\ 1 <= k
        BY <1>2
      <3>1. i \in DOMAIN opened /\ i + 1 \in k..N
        <4>1. i \in Nat /\ k <= i /\ i <= N
          BY <1>2, <1>5, <3>0
        <4> HIDE DEF N
        <4>2. i < N
          BY <1>2, <2>2, <4>1
        <4>3. i \in 1..N /\ i + 1 \in k..N
          BY <1>2, <3>0, <4>1, <4>2
        <4> QED BY <1>2, <4>3
      <3>2. opened[i + 1].name \in Calls(opened[i].name)
        BY <1>2, <2>2, <3>1, CallsAre DEF MacroInv, Path
      <3> QED BY <3>1, <3>2
    <2> QED BY <2>1, <2>2
  <1>6. Circular(C)
    BY <1>4, <1>5 DEF Circular
  <1> QED BY <1>4, <1>6 DEF Broken

LEMMA RefuseHolds == MacroInv /\ Refuse => MacroInv'
  <1> SUFFICES ASSUME MacroInv, Refuse PROVE MacroInv'
    OBVIOUS
  <1>1. MacroTypes /\ Expanding /\ opened # <<>> /\ Coming.do = "macro"
    BY DEF MacroInv, Refuse, Expanding
  <1>2. UNCHANGED <<raw, table, opened>> /\ verdict' = "refused"
    BY DEF Refuse
  <1>3. Broken
    <2>1. CASE Coming.name \in OnStack
      BY <1>1, <2>1, FoundOnStack
    <2>2. CASE Coming.name \notin DOMAIN raw
      <3>1. Coming.name \in Calls(Innermost.name) /\ Innermost.name \in DOMAIN raw
        BY <1>1, ComingFacts, CallsAre, TopFacts
      <3> QED BY <2>2, <3>1 DEF Broken
    <2> QED BY <2>1, <2>2 DEF Refuse
  <1>4. Broken' /\ MacroTypes' /\ Path' /\ LeftBehind'
    BY <1>1, <1>2, <1>3, SameTable, SameFrames DEF MacroInv, MacroTypes, Path, LeftBehind
  <1> QED BY <1>2, <1>4 DEF MacroInv

LEMMA AllResolvedHolds == MacroInv /\ AllResolved => MacroInv'
  <1> SUFFICES ASSUME MacroInv, AllResolved PROVE MacroInv'
    OBVIOUS
  <1>1. UNCHANGED <<raw, table, opened>> /\ verdict' = "resolved" /\ DOMAIN raw = DOMAIN table
    BY DEF AllResolved
  <1>2. ~Broken
    BY <1>1, AllGoodIsNotBroken DEF MacroInv, LeftBehind
  <1>3. ~Broken' /\ MacroTypes' /\ Path' /\ LeftBehind'
    BY <1>1, <1>2, SameTable, SameFrames DEF MacroInv, MacroTypes, Path, LeftBehind
  <1> QED BY <1>1, <1>3 DEF MacroInv

\* The invariant of the expansion.
THEOREM ExpansionKeepsTrack == MacroSpec => []MacroInv
  <1>1. ASSUME MacroInv, [MacroStep]_macroVars PROVE MacroInv'
    <2>1. CASE Begin
      BY <1>1, <2>1, BeginHolds
    <2>2. CASE Copy
      BY <1>1, <2>2, CopyHolds
    <2>3. CASE Enter
      BY <1>1, <2>3, EnterHolds
    <2>4. CASE Refuse
      BY <1>1, <2>4, RefuseHolds
    <2>5. CASE Leave
      BY <1>1, <2>5, LeaveHolds
    <2>6. CASE Store
      BY <1>1, <2>6, StoreHolds
    <2>7. CASE AllResolved
      BY <1>1, <2>7, AllResolvedHolds
    <2>8. CASE UNCHANGED macroVars
      <3>1. UNCHANGED <<raw, table, opened, verdict>>
        BY <2>8 DEF macroVars
      <3>2. Broken' = Broken /\ MacroTypes' /\ Path' /\ LeftBehind'
        BY <1>1, <3>1, SameTable, SameFrames DEF MacroInv, MacroTypes, Path, LeftBehind
      <3> QED BY <1>1, <3>1, <3>2 DEF MacroInv
    <2> QED BY <1>1, <2>1, <2>2, <2>3, <2>4, <2>5, <2>6, <2>7, <2>8 DEF MacroStep
  <1> QED BY InitHolds, <1>1, PTL DEF MacroSpec

\* A table is refused exactly when some macro of it, used or not, names
\* something unknown or can never be expanded.
THEOREM RefusalOfMacrosIsExact == MacroSpec => []RefusedIffBroken
  <1>1. MacroInv => RefusedIffBroken
    BY DEF MacroInv, RefusedIffBroken
  <1> QED BY <1>1, ExpansionKeepsTrack, PTL

\* The names being expanded are a path without a repetition: no expansion is
\* deeper than the table has macros.
THEOREM StackIsAPath == MacroSpec => []StackIsPath
  <1>1. ASSUME MacroInv PROVE StackIsPath
    <2>1. \A i \in DOMAIN opened : i # Len(opened) =>
             opened[i + 1].name \in Calls(opened[i].name)
      BY <1>1, CallsAre DEF MacroInv, Path
    <2> QED BY <1>1, <2>1 DEF MacroInv, Path, StackIsPath
  <1> QED BY <1>1, ExpansionKeepsTrack, PTL

-----------------------------------------------------------------------------
(***************************************************************************)
(* The in-place permutation of NodeStore, for any number of records, any   *)
(* hash, and ids that may repeat.                                          *)
(*                                                                         *)
(* The argument follows the records by the slot they were collected in.    *)
(* Those of the placed slots, and of the slot the walk began at, have been *)
(* lifted; all of these but the one in hand are where their hash sends     *)
(* them, no two in one slot; every other slot still holds its own.         *)
(***************************************************************************)
Origin(i) == load.records[i]
Target(i) == Dest(Origin(i))

\* The records of D are in the placed slots, each in its own.
Settled(D) ==
    /\ \A i \in D : /\ Target(i) \in placed
                    /\ records[Target(i)] = Origin(i)
                    /\ shared[Target(i)] = load.shared[i]
    /\ \A i, j \in D : Target(i) = Target(j) => i = j
    /\ \A s \in placed : \E i \in D : Target(i) = s

Untouched(S) == \A j \in S : records[j] = Origin(j) /\ shared[j] = load.shared[j]

InHand(k) == item = Origin(k) /\ carry = load.shared[k]

Arrays ==
    /\ load \in Loads
    /\ placed \subseteq Slots
    /\ DOMAIN records = Slots
    /\ DOMAIN shared = Slots
    /\ phase \in {"scan", "walk", "built", "panicked"}
    /\ start \in Nat

Scanning ==
    /\ start \in Slots
    /\ 0..(start - 1) \subseteq placed
    /\ Settled(placed)
    /\ Untouched(Slots \ placed)

Walking ==
    /\ start \in Slots \ placed
    /\ 0..(start - 1) \subseteq placed
    /\ steps \in Nat
    /\ steps <= Cardinality(placed)
    /\ Untouched(Slots \ (placed \cup {start}))
    /\ \E k \in placed \cup {start} :
         /\ InHand(k)
         /\ Settled((placed \cup {start}) \ {k})

Built == placed = Slots /\ Settled(Slots)

\* The inductive invariant.
BuildInv ==
    /\ Arrays
    /\ phase = "scan" => Scanning
    /\ phase = "walk" => Walking
    /\ phase = "built" => Built
    /\ phase = "panicked" => ~IsPlain(load)

-----------------------------------------------------------------------------
\* What a load promises, one fact at a time.
LEMMA LoadFacts ==
    ASSUME load \in Loads
    PROVE  /\ load.count \in Nat
           /\ DOMAIN load.records = Slots
           /\ load.shared \in [Slots -> BOOLEAN]
           /\ load.hash \in [Id -> Nat]
           /\ \A i \in Slots : Origin(i).id \in Id
           /\ \A i \in Slots : Target(i) \in Slots
           /\ IsPlain(load) => \A i, j \in Slots : Target(i) = Target(j) => i = j
  BY LoadsAssumption DEF Slots, Origin, Target, Dest

LEMMA SlotsFinite ==
    ASSUME load \in Loads
    PROVE  IsFiniteSet(Slots) /\ Cardinality(Slots) = load.count
  <1>1. load.count \in Nat
    BY LoadFacts
  <1>2. IsFiniteSet(0..(load.count - 1))
    BY <1>1, FS_Interval
  <1>3. CASE load.count = 0
    <2>1. Slots = {}
      BY <1>3 DEF Slots, SlotsOf
    <2> QED BY <2>1, <1>3, FS_EmptySet
  <1>4. CASE load.count > 0
    <2>1. Cardinality(0..(load.count - 1)) = (load.count - 1) - 0 + 1
      BY <1>1, <1>4, FS_Interval
    <2> QED BY <1>1, <1>2, <2>1 DEF Slots, SlotsOf
  <1> QED BY <1>1, <1>3, <1>4

LEMMA InitBuilds == StoreInit => BuildInv
  <1> SUFFICES ASSUME StoreInit PROVE BuildInv
    OBVIOUS
  <1>1. load \in Loads /\ load.count \in Nat /\ DOMAIN load.records = Slots
        /\ load.shared \in [Slots -> BOOLEAN]
    BY LoadFacts DEF StoreInit
  <1>2. Arrays
    BY <1>1 DEF StoreInit, Arrays
  <1>3. Settled({})
    BY DEF StoreInit, Settled
  <1>4. Untouched(Slots)
    BY DEF StoreInit, Untouched, Origin
  <1>5. ASSUME load.count # 0 PROVE Scanning
    <2>1. start \in Slots /\ 0..(start - 1) = {}
      BY <1>1, <1>5 DEF StoreInit, Slots, SlotsOf
    <2> QED BY <2>1, <1>3, <1>4 DEF StoreInit, Scanning
  <1>6. ASSUME load.count = 0 PROVE Built
    <2>1. Slots = {}
      BY <1>6 DEF Slots, SlotsOf
    <2> QED BY <2>1, <1>3 DEF StoreInit, Built
  <1> QED BY <1>2, <1>5, <1>6 DEF BuildInv, StoreInit

\* The outer loop goes on: what holds of the next slot, or at the end.
LEMMA Advancing ==
    ASSUME Arrays, start \in Slots, 0..start \subseteq placed', Advance,
           load' = load, placed' \subseteq Slots,
           Settled(placed)', Untouched(Slots \ placed)'
    PROVE  /\ phase' \in {"scan", "built"}
           /\ start' \in Nat
           /\ phase' = "scan" => Scanning'
           /\ phase' = "built" => Built'
  <1>1. load.count \in Nat /\ Slots' = Slots /\ start' = start + 1 /\ start \in Nat
    BY LoadFacts DEF Arrays, Advance, Slots
  <1>2. phase' \in {"scan", "built"}
    BY DEF Advance
  <1>3. ASSUME phase' = "scan" PROVE Scanning'
    <2>1. start' \in Slots
      BY <1>1, <1>3 DEF Advance, Slots, SlotsOf
    <2>2. 0..(start' - 1) = 0..start
      BY <1>1
    <2> QED BY <1>1, <2>1, <2>2 DEF Scanning
  <1>4. ASSUME phase' = "built" PROVE Built'
    <2>1. Slots \subseteq 0..start
      BY <1>1, <1>4 DEF Advance, Slots, SlotsOf
    <2>2. placed' = Slots
      BY <2>1
    <2> QED BY <1>1, <2>2 DEF Built
  <1> QED BY <1>1, <1>2, <1>3, <1>4

LEMMA SkipKeeps == BuildInv /\ SkipPlaced => BuildInv'
  <1> SUFFICES ASSUME BuildInv, SkipPlaced PROVE BuildInv'
    OBVIOUS
  <1>1. Arrays /\ Scanning /\ start \in placed /\ Advance
    BY DEF BuildInv, SkipPlaced
  <1>2. UNCHANGED <<load, records, shared, placed, item, carry>> /\ Slots' = Slots
    BY DEF SkipPlaced, Slots
  <1>3. 0..start \subseteq placed'
    BY <1>1, <1>2 DEF Scanning, Arrays
  <1>4. Settled(placed)' /\ Untouched(Slots \ placed)'
    BY <1>1, <1>2 DEF Scanning, Settled, Untouched, Origin, Target, Dest
  <1>5. /\ phase' \in {"scan", "built"}
        /\ start' \in Nat
        /\ phase' = "scan" => Scanning'
        /\ phase' = "built" => Built'
    BY <1>1, <1>2, <1>3, <1>4, Advancing DEF Scanning, Arrays
  <1>6. Arrays'
    BY <1>1, <1>2, <1>5 DEF Arrays
  <1> QED BY <1>5, <1>6 DEF BuildInv

LEMMA LiftKeeps == BuildInv /\ Lift => BuildInv'
  <1> SUFFICES ASSUME BuildInv, Lift PROVE BuildInv'
    OBVIOUS
  <1>1. Arrays /\ Scanning /\ start \notin placed /\ phase' = "walk" /\ steps' = 0
    BY DEF BuildInv, Lift
  <1>2. UNCHANGED <<load, records, shared, placed, start>> /\ Slots' = Slots
    BY DEF Lift, Slots
  <1>3. Arrays'
    BY <1>1, <1>2 DEF Arrays
  <1>4. InHand(start)'
    BY <1>1, <1>2 DEF Lift, InHand, Scanning, Untouched, Origin
  <1>5. Settled((placed \cup {start}) \ {start})'
    <2>1. (placed' \cup {start'}) \ {start'} = placed
      BY <1>1, <1>2
    <2> QED BY <1>1, <1>2, <2>1 DEF Scanning, Settled, Origin, Target, Dest
  <1>6. Untouched(Slots \ (placed \cup {start}))'
    BY <1>1, <1>2 DEF Scanning, Untouched, Origin
  <1>7. steps' <= Cardinality(placed')
    <2>1. IsFiniteSet(placed)
      BY <1>1, SlotsFinite, FS_Subset DEF Arrays
    <2>2. Cardinality(placed) \in Nat
      BY <2>1, FS_CardinalityType
    <2> QED BY <1>1, <1>2, <2>2
  <1>8. Walking'
    BY <1>1, <1>2, <1>4, <1>5, <1>6, <1>7 DEF Walking, Scanning
  <1> QED BY <1>1, <1>3, <1>8 DEF BuildInv

LEMMA CloseKeeps == BuildInv /\ Close => BuildInv'
  <1> SUFFICES ASSUME BuildInv, Close PROVE BuildInv'
    OBVIOUS
  <1>1. Arrays /\ Walking /\ Advance /\ Dest(item) = start
    BY DEF BuildInv, Close
  <1>2. /\ load' = load /\ Slots' = Slots
        /\ placed' = placed \cup {start}
        /\ records' = [records EXCEPT ![start] = item]
        /\ shared' = [shared EXCEPT ![start] = carry]
    BY DEF Close, Slots
  <1>3. start \in Slots \ placed /\ placed' \subseteq Slots /\ DOMAIN records = Slots
        /\ DOMAIN shared = Slots
    BY <1>1, <1>2 DEF Walking, Arrays
  <1>4. PICK k \in placed \cup {start} :
            InHand(k) /\ Settled((placed \cup {start}) \ {k})
    BY <1>1 DEF Walking
  <1> DEFINE D == (placed \cup {start}) \ {k}
  <1>5. Target(k) = start
    BY <1>1, <1>4 DEF InHand, Target
  <1>6. placed' = D \cup {k}
    BY <1>2, <1>4
  <1>7. Settled(placed)'
    <2>1. \A i : Target(i)' = Target(i) /\ Origin(i)' = Origin(i)
      BY <1>2 DEF Target, Origin, Dest
    <2>2. records'[start] = Origin(k) /\ shared'[start] = load.shared[k]
      BY <1>2, <1>3, <1>4 DEF InHand
    <2>3. \A i \in D : /\ Target(i) \in placed
                       /\ records[Target(i)] = Origin(i)
                       /\ shared[Target(i)] = load.shared[i]
      BY <1>4 DEF Settled
    <2>4. \A i \in D : /\ Target(i) # start
                       /\ records'[Target(i)] = Origin(i)
                       /\ shared'[Target(i)] = load.shared[i]
      BY <1>2, <1>3, <2>3 DEF Arrays
    <2>5. \A i, j \in D : Target(i) = Target(j) => i = j
      BY <1>4 DEF Settled
    <2>6. \A s \in placed : \E i \in D : Target(i) = s
      BY <1>4 DEF Settled
    <2>7. \A i \in placed' : /\ Target(i) \in placed'
                             /\ records'[Target(i)] = Origin(i)
                             /\ shared'[Target(i)] = load.shared[i]
      BY <1>2, <1>5, <1>6, <2>2, <2>3, <2>4
    <2>8. \A i, j \in placed' : Target(i) = Target(j) => i = j
      BY <1>5, <1>6, <2>4, <2>5
    <2>9. \A s \in placed' : \E i \in placed' : Target(i) = s
      BY <1>2, <1>5, <1>6, <2>6
    <2> HIDE DEF D
    <2> QED BY <1>2, <2>1, <2>7, <2>8, <2>9 DEF Settled
  <1>8. Untouched(Slots \ placed)'
    <2>1. Untouched(Slots \ placed')
      BY <1>1, <1>2 DEF Walking, Untouched
    <2> QED BY <1>2, <1>3, <2>1 DEF Untouched, Origin, Arrays
  <1>9. 0..start \subseteq placed'
    BY <1>1, <1>2 DEF Walking, Arrays
  <1>10. /\ phase' \in {"scan", "built"}
         /\ start' \in Nat
         /\ phase' = "scan" => Scanning'
         /\ phase' = "built" => Built'
    BY <1>1, <1>2, <1>3, <1>7, <1>8, <1>9, Advancing
  <1>11. Arrays'
    BY <1>1, <1>2, <1>3, <1>10 DEF Arrays
  <1> QED BY <1>10, <1>11 DEF BuildInv

LEMMA DisplaceKeeps == BuildInv /\ Displace => BuildInv'
  <1> SUFFICES ASSUME BuildInv, Displace PROVE BuildInv'
    OBVIOUS
  <1>0. PICK d : d = Dest(item)
    OBVIOUS
  <1>1. Arrays /\ Walking /\ d # start /\ d \notin placed
    BY <1>0 DEF BuildInv, Displace
  <1>2. /\ load' = load /\ Slots' = Slots /\ start' = start
        /\ placed' = placed \cup {d}
        /\ records' = [records EXCEPT ![d] = item]
        /\ item' = records[d]
        /\ shared' = [shared EXCEPT ![d] = carry]
        /\ carry' = shared[d]
        /\ steps' = steps + 1
    BY <1>0 DEF Displace, Slots
  <1>3. PICK k \in placed \cup {start} :
            InHand(k) /\ Settled((placed \cup {start}) \ {k})
    BY <1>1 DEF Walking
  <1> DEFINE D == (placed \cup {start}) \ {k}
  <1>4. start \in Slots /\ placed \subseteq Slots /\ k \in Slots
    BY <1>1, <1>3 DEF Walking, Arrays
  <1>5. d = Target(k) /\ d \in Slots
    BY <1>0, <1>1, <1>3, <1>4, LoadFacts DEF InHand, Target, Arrays
  <1>6. Arrays'
    BY <1>1, <1>2, <1>5 DEF Arrays, Displace
  <1>7. InHand(d)'
    <2>1. d \in Slots \ (placed \cup {start})
      BY <1>1, <1>5
    <2> QED BY <1>1, <1>2, <2>1 DEF Walking, Untouched, InHand, Origin
  <1>8. (placed' \cup {start}) \ {d} = D \cup {k}
    BY <1>1, <1>2, <1>3
  <1>9. Settled((placed \cup {start}) \ {d})'
    <2>1. \A i : Target(i)' = Target(i) /\ Origin(i)' = Origin(i)
      BY <1>2 DEF Target, Origin, Dest
    <2>2. records'[d] = Origin(k) /\ shared'[d] = load.shared[k]
      BY <1>1, <1>2, <1>3, <1>5 DEF InHand, Arrays
    <2>3. \A i \in D : /\ Target(i) \in placed
                       /\ records[Target(i)] = Origin(i)
                       /\ shared[Target(i)] = load.shared[i]
      BY <1>3 DEF Settled
    <2>4. \A i \in D : /\ Target(i) # d
                       /\ records'[Target(i)] = Origin(i)
                       /\ shared'[Target(i)] = load.shared[i]
      BY <1>1, <1>2, <1>4, <2>3 DEF Arrays
    <2>5. \A i, j \in D : Target(i) = Target(j) => i = j
      BY <1>3 DEF Settled
    <2>6. \A s \in placed : \E i \in D : Target(i) = s
      BY <1>3 DEF Settled
    <2> HIDE DEF D
    <2>7. \A i \in D \cup {k} : /\ Target(i) \in placed'
                                /\ records'[Target(i)] = Origin(i)
                                /\ shared'[Target(i)] = load.shared[i]
      BY <1>2, <1>5, <2>2, <2>3, <2>4
    <2>8. \A i, j \in D \cup {k} : Target(i) = Target(j) => i = j
      BY <1>5, <2>4, <2>5
    <2>9. \A s \in placed' : \E i \in D \cup {k} : Target(i) = s
      BY <1>2, <1>5, <2>6
    <2> QED BY <1>2, <1>8, <2>1, <2>7, <2>8, <2>9 DEF Settled
  <1>10. Untouched(Slots \ (placed \cup {start}))'
    <2>1. Untouched(Slots \ (placed' \cup {start}))
      BY <1>1, <1>2 DEF Walking, Untouched
    <2> QED BY <1>1, <1>2, <2>1 DEF Untouched, Origin, Arrays
  <1>11. /\ steps' \in Nat
         /\ steps' <= Cardinality(placed')
         /\ Cardinality(placed') \in Nat
         /\ Cardinality(placed') <= load.count
    <2>1. IsFiniteSet(placed)
      BY <1>1, <1>4, SlotsFinite, FS_Subset DEF Arrays
    <2>2. Cardinality(placed') = Cardinality(placed) + 1
      BY <1>1, <1>2, <2>1, FS_AddElement
    <2>3. Cardinality(placed) \in Nat
      BY <2>1, FS_CardinalityType
    <2>4. Cardinality(placed') <= Cardinality(Slots)
      <3>1. placed \cup {d} \subseteq Slots
        BY <1>4, <1>5
      <3>2. IsFiniteSet(Slots)
        BY <1>1, SlotsFinite DEF Arrays
      <3> QED BY <1>2, <3>1, <3>2, FS_Subset
    <2>5. steps \in Nat /\ steps <= Cardinality(placed)
      BY <1>1 DEF Walking
    <2>6. Cardinality(Slots) = load.count
      BY <1>1, SlotsFinite DEF Arrays
    <2> QED BY <1>2, <2>2, <2>3, <2>4, <2>5, <2>6
  <1>12. phase' = "walk"
    <2>1. load.count \in Nat
      BY <1>1, LoadFacts DEF Arrays
    <2>2. steps' <= load.count
      BY <1>11, <2>1
    <2> QED BY <1>2, <2>2 DEF Displace
  <1>13. start' \in Slots' \ placed' /\ 0..(start' - 1) \subseteq placed'
    BY <1>1, <1>2 DEF Walking
  <1>14. \E m \in placed' \cup {start'} :
            InHand(m)' /\ Settled((placed \cup {start}) \ {m})'
    BY <1>2, <1>7, <1>9
  <1>15. Walking'
    BY <1>10, <1>11, <1>13, <1>14 DEF Walking
  <1> QED BY <1>6, <1>12, <1>15 DEF BuildInv

LEMMA ClaimKeeps == BuildInv /\ ClaimedTwice => BuildInv'
  <1> SUFFICES ASSUME BuildInv, ClaimedTwice PROVE BuildInv'
    OBVIOUS
  <1>1. Arrays /\ Walking /\ Dest(item) \in placed
    BY DEF BuildInv, ClaimedTwice
  <1>2. UNCHANGED <<load, records, shared, placed, start>> /\ phase' = "panicked"
        /\ Slots' = Slots
    BY DEF ClaimedTwice, Slots
  <1>3. PICK k \in placed \cup {start} :
            InHand(k) /\ Settled((placed \cup {start}) \ {k})
    BY <1>1 DEF Walking
  <1>4. PICK i \in (placed \cup {start}) \ {k} : Target(i) = Dest(item)
    BY <1>1, <1>3 DEF Settled
  <1>5. Target(i) = Target(k) /\ i # k /\ i \in Slots /\ k \in Slots
    BY <1>1, <1>3, <1>4 DEF InHand, Target, Walking, Arrays
  <1>6. ~IsPlain(load)
    BY <1>1, <1>5, LoadFacts DEF Arrays
  <1>7. Arrays' /\ ~IsPlain(load)'
    BY <1>1, <1>2, <1>6 DEF Arrays
  <1> QED BY <1>2, <1>7 DEF BuildInv

\* The permutation keeps its invariant, whatever the ids and the hash.
THEOREM BuildKeepsTrack == StoreSpec => []BuildInv
  <1>1. ASSUME BuildInv, [BuildStep]_storeVars PROVE BuildInv'
    <2>1. CASE SkipPlaced
      BY <1>1, <2>1, SkipKeeps
    <2>2. CASE Lift
      BY <1>1, <2>2, LiftKeeps
    <2>3. CASE Close
      BY <1>1, <2>3, CloseKeeps
    <2>4. CASE Displace
      BY <1>1, <2>4, DisplaceKeeps
    <2>5. CASE ClaimedTwice
      BY <1>1, <2>5, ClaimKeeps
    <2>6. CASE UNCHANGED storeVars
      <3>1. UNCHANGED <<load, records, shared, placed, start, item, carry, steps, phase>>
        BY <2>6 DEF storeVars
      <3>2. Slots' = Slots
        BY <3>1 DEF Slots
      <3>3. Arrays'
        BY <1>1, <3>1, <3>2 DEF BuildInv, Arrays
      <3>4. phase = "scan" => Scanning'
        BY <1>1, <3>1, <3>2 DEF BuildInv, Scanning, Settled, Untouched, Origin, Target, Dest
      <3>5. phase = "walk" => Walking'
        <4>1. SUFFICES ASSUME phase = "walk", Walking PROVE Walking'
          BY <1>1 DEF BuildInv
        <4>2. PICK k \in placed \cup {start} :
                  InHand(k) /\ Settled((placed \cup {start}) \ {k})
          BY <4>1 DEF Walking
        <4>3. InHand(k)' /\ Settled((placed \cup {start}) \ {k})'
          BY <3>1, <4>2 DEF InHand, Settled, Origin, Target, Dest
        <4>4. Untouched(Slots \ (placed \cup {start}))'
          BY <3>1, <3>2, <4>1 DEF Walking, Untouched, Origin
        <4> QED BY <3>1, <3>2, <4>1, <4>3, <4>4 DEF Walking
      <3>6. phase = "built" => Built'
        BY <1>1, <3>1, <3>2 DEF BuildInv, Built, Settled, Origin, Target, Dest
      <3> QED BY <1>1, <3>1, <3>3, <3>4, <3>5, <3>6 DEF BuildInv
    <2> QED BY <1>1, <2>1, <2>2, <2>3, <2>4, <2>5, <2>6 DEF BuildStep
  <1> QED BY InitBuilds, <1>1, PTL DEF StoreSpec

LEMMA BuiltIsExact ==
    ASSUME BuildInv, phase = "built"
    PROVE  IsPlain(load) /\ \A id \in Id : Lookup(id) = Collected(id)
  <1>1. Arrays /\ Settled(Slots) /\ placed = Slots
    BY DEF BuildInv, Built
  <1>2. /\ \A i \in Slots : Target(i) \in Slots /\ Origin(i).id \in Id
        /\ load.hash \in [Id -> Nat]
    BY <1>1, LoadFacts DEF Arrays
  <1>3. \A i \in Slots : Target(i) = load.hash[Origin(i).id]
    BY DEF Target, Dest
  <1>4. \A i, j \in Slots : Target(i) = Target(j) => i = j
    BY <1>1 DEF Settled
  <1>5. \A i \in Slots : records[Target(i)] = Origin(i) /\ shared[Target(i)] = load.shared[i]
    BY <1>1 DEF Settled
  <1>6. \A s \in Slots : \E i \in Slots : Target(i) = s
    BY <1>1 DEF Settled
  <1>7. IsPlain(load)
    BY <1>3, <1>4 DEF IsPlain, Slots, Origin
  <1>8. ASSUME NEW id \in Id PROVE Lookup(id) = Collected(id)
    <2>1. CASE \E i \in Slots : Origin(i).id = id
      <3>1. PICK i \in Slots : Origin(i).id = id
        BY <2>1
      <3>2. Target(i) = load.hash[id] /\ load.hash[id] \in Slots
        BY <1>2, <1>3, <3>1
      <3>3. records[load.hash[id]] = Origin(i) /\ shared[load.hash[id]] = load.shared[i]
        BY <1>5, <3>2
      <3>4. Lookup(id) = {[at |-> Origin(i).at, shared |-> load.shared[i]]}
        BY <3>1, <3>2, <3>3 DEF Lookup
      <3>5. {j \in Slots : load.records[j].id = id} = {i}
        BY <1>7, <3>1 DEF IsPlain, Slots, Origin
      <3>6. Collected(id) = {[at |-> Origin(i).at, shared |-> load.shared[i]]}
        BY <3>5 DEF Collected, Origin
      <3> QED BY <3>4, <3>6
    <2>2. CASE \A i \in Slots : Origin(i).id # id
      <3>1. Collected(id) = {}
        BY <2>2 DEF Collected, Origin
      <3>2. ASSUME load.hash[id] \in Slots PROVE records[load.hash[id]].id # id
        <4>1. PICK i \in Slots : Target(i) = load.hash[id]
          BY <1>6, <3>2
        <4> QED BY <1>5, <2>2, <4>1
      <3>3. Lookup(id) = {}
        BY <3>2 DEF Lookup
      <3> QED BY <3>1, <3>3
    <2> QED BY <2>1, <2>2
  <1> QED BY <1>7, <1>8

\* Every id collected finds its own coordinates and its own bit, and no
\* other id finds anything: the in-place permutation loses, repeats and
\* mismatches nothing.
THEOREM TableIsExact == StoreSpec => []LookupsAreExact
  <1>1. BuildInv => LookupsAreExact
    BY BuiltIsExact DEF LookupsAreExact
  <1> QED BY <1>1, BuildKeepsTrack, PTL

\* The assertions of the loop fire exactly for a repeated id; the bound on
\* the length of a cycle never does.
THEOREM PanicIsExact == StoreSpec => []PanicsIffDuplicate
  <1>1. BuildInv => PanicsIffDuplicate
    BY BuiltIsExact DEF PanicsIffDuplicate, BuildInv
  <1> QED BY <1>1, BuildKeepsTrack, PTL

=============================================================================
