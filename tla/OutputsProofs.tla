---------------------------- MODULE OutputsProofs ----------------------------
(***************************************************************************)
(* Proofs about the three keepers of output, which MCOutputs explores side *)
(* by side: the ring of a command (CommandOutput.tla), that of a terminal  *)
(* session (PtySession.tla) and the panel (BridgeUiState.tla).             *)
(***************************************************************************)
EXTENDS MCOutputs, FiniteSetTheorems, SequenceTheorems, WellFoundedInduction, TLAPS

----------------------------------------------------------------------------
(***************************************************************************)
(* Induction, over sets of numbers: what it takes to reason about the      *)
(* folds, the selections and the concatenations of the three modules.      *)
(***************************************************************************)
LEMMA NatInd ==
  ASSUME NEW S, 0 \in S, \A n \in Nat : n \in S => n + 1 \in S
  PROVE  Nat \subseteq S
<1> SUFFICES ASSUME Nat \ S # {} PROVE FALSE
  OBVIOUS
<1>1. \E x \in Nat \ S : \A y \in Nat \ S : ~ (<<y, x>> \in OpToRel(<, Nat))
  <2> DEFINE T == Nat \ S
  <2>1. T \subseteq Nat /\ T # {}
    OBVIOUS
  <2> HIDE DEF T
  <2>2. \E x \in T : \A y \in T : ~ (<<y, x>> \in OpToRel(<, Nat))
    BY <2>1, NatLessThanWellFounded, WFMin
  <2> QED BY <2>2 DEF T
<1>2. PICK x \in Nat \ S : \A y \in Nat \ S : ~ (<<y, x>> \in OpToRel(<, Nat))
  BY <1>1
<1>3. x # 0 /\ x - 1 \in Nat /\ x - 1 < x
  OBVIOUS
<1>4. <<x - 1, x>> \in OpToRel(<, Nat)
  BY <1>3 DEF OpToRel
<1>5. x - 1 \in S
  BY <1>2, <1>3, <1>4
<1>6. (x - 1) + 1 \in S
  BY <1>3, <1>5
<1> QED BY <1>3, <1>6

LEMMA NatLeast ==
  ASSUME NEW T, T \subseteq Nat, T # {}
  PROVE  \E m \in T : \A y \in T : m <= y
<1>1. PICK m \in T : \A y \in T : ~ (<<y, m>> \in OpToRel(<, Nat))
  BY NatLessThanWellFounded, WFMin
<1>2. ASSUME NEW y \in T, y < m PROVE FALSE
  <2>1. <<y, m>> \in Nat \X Nat /\ <<y, m>>[1] < <<y, m>>[2]
    BY <1>2
  <2>2. <<y, m>> \in OpToRel(<, Nat)
    BY <2>1 DEF OpToRel
  <2> QED BY <1>1, <2>2
<1> QED BY <1>2

LEMMA MaxIs ==
  ASSUME NEW S, S \subseteq Int, NEW m \in S, \A y \in S : y <= m
  PROVE  Max(S) = m
<1>1. Max(S) \in S /\ \A y \in S : Max(S) >= y
  <2>1. \E x \in S : \A y \in S : x >= y
    OBVIOUS
  <2> QED BY <2>1 DEF Max
<1>2. Max(S) \in Int /\ Max(S) >= m /\ Max(S) <= m
  BY <1>1
<1> QED BY <1>2

LEMMA MinIs ==
  ASSUME NEW S, S \subseteq Int, NEW m \in S, \A y \in S : m <= y
  PROVE  Min(S) = m
<1>1. Min(S) \in S /\ \A y \in S : Min(S) <= y
  <2>1. \E x \in S : \A y \in S : x <= y
    OBVIOUS
  <2> QED BY <2>1 DEF Min
<1>2. Min(S) \in Int /\ Min(S) <= m /\ Min(S) >= m
  BY <1>1
<1> QED BY <1>2

LEMMA MaxFacts ==
  ASSUME NEW n \in Int, NEW S, S \subseteq Int, S # {}, \A y \in S : y <= n
  PROVE  Max(S) \in S /\ \A y \in S : y <= Max(S)
<1> DEFINE T == {n - y : y \in S}
<1>1. T \subseteq Nat /\ T # {}
  <2>1. \A y \in S : n - y \in Nat
    OBVIOUS
  <2> QED BY <2>1
<1>2. PICK m \in T : \A y \in T : m <= y
  <2> HIDE DEF T
  <2> QED BY <1>1, NatLeast
<1>3. PICK x \in S : m = n - x
  OBVIOUS
<1>4. ASSUME NEW y \in S PROVE y <= x
  <2>1. n - y \in T
    OBVIOUS
  <2>2. m <= n - y
    BY <1>2, <2>1
  <2> QED BY <1>3, <2>2
<1>5. Max(S) = x
  BY <1>4, MaxIs
<1> QED BY <1>4, <1>5

LEMMA MinFacts ==
  ASSUME NEW S, S \subseteq Nat, S # {}
  PROVE  Min(S) \in S /\ \A y \in S : Min(S) <= y
<1>1. PICK m \in S : \A y \in S : m <= y
  BY NatLeast
<1>2. S \subseteq Int
  OBVIOUS
<1>3. Min(S) = m
  BY <1>1, <1>2, MinIs
<1> QED BY <1>1, <1>3

(* Values given one after the other.                                       *)
Successive(v, n, base, F) == v[0] = base /\ \A i \in 1..n : v[i] = F[i][v[i - 1]]

LEMMA ValuesExist ==
  ASSUME NEW n \in Nat, NEW X, NEW base \in X, NEW F \in [1..n -> [X -> X]]
  PROVE  \E v \in [0..n -> X] : Successive(v, n, base, F)
<1> DEFINE Q(k, v) == v[0] = base /\ \A i \in 1..k : v[i] = F[i][v[i - 1]]
           S == {k \in Nat : k <= n => \E v \in [0..k -> X] : Q(k, v)}
<1>1. 0 \in S
  <2> DEFINE v == [i \in 0..0 |-> base]
  <2>1. v \in [0..0 -> X] /\ Q(0, v)
    OBVIOUS
  <2> QED BY <2>1
<1>2. ASSUME NEW k \in Nat, k \in S PROVE k + 1 \in S
  <2> SUFFICES ASSUME k + 1 <= n PROVE \E v \in [0..(k + 1) -> X] : Q(k + 1, v)
    OBVIOUS
  <2>1. PICK v \in [0..k -> X] : Q(k, v)
    BY <1>2
  <2> DEFINE w == [i \in 0..(k + 1) |-> IF i = k + 1 THEN F[k + 1][v[k]] ELSE v[i]]
  <2>2. F[k + 1][v[k]] \in X
    OBVIOUS
  <2>3. w \in [0..(k + 1) -> X]
    BY <2>2
  <2>4. Q(k + 1, w)
    BY <2>1
  <2> QED BY <2>3, <2>4
<1> HIDE DEF S
<1>3. n \in S
  BY <1>1, <1>2, NatInd
<1> QED BY <1>3 DEF S, Successive

(* The function by which MapThenFoldSet goes through a sequence of n.      *)
IsFold(it, n, base, F) ==
  it = [s \in SUBSET (1..n) |->
          IF s = {} THEN base ELSE F[Max(s)][it[s \ {Max(s)}]]]

LEMMA FoldExists ==
  ASSUME NEW n \in Nat, NEW X, NEW base \in X, NEW F \in [1..n -> [X -> X]]
  PROVE  \E it \in [SUBSET (1..n) -> X] : IsFold(it, n, base, F)
<1> DEFINE P(k) == k <= n => \E it \in [SUBSET (1..k) -> X] : IsFold(it, k, base, F)
           S == {k \in Nat : P(k)}
<1>1. P(0)
  <2> DEFINE it == [s \in SUBSET (1..0) |-> base]
  <2>1. it \in [SUBSET (1..0) -> X] /\ IsFold(it, 0, base, F)
    BY DEF IsFold
  <2> QED BY <2>1
<1>2. ASSUME NEW k \in Nat, P(k) PROVE P(k + 1)
  <2> SUFFICES ASSUME k + 1 <= n
               PROVE \E it \in [SUBSET (1..(k + 1)) -> X] : IsFold(it, k + 1, base, F)
    OBVIOUS
  <2>0. k <= n
    OBVIOUS
  <2>1. PICK g \in [SUBSET (1..k) -> X] : IsFold(g, k, base, F)
    BY <1>2, <2>0, Zenon
  <2> DEFINE h == [s \in SUBSET (1..(k + 1)) |->
                     IF k + 1 \in s THEN F[k + 1][g[s \ {k + 1}]] ELSE g[s]]
  <2>2. ASSUME NEW s \in SUBSET (1..(k + 1)), k + 1 \in s
        PROVE  /\ s \ {k + 1} \in SUBSET (1..k)
               /\ Max(s) = k + 1 /\ s # {}
               /\ h[s] \in X /\ h[s] = F[Max(s)][h[s \ {Max(s)}]]
    <3>1. s \ {k + 1} \in SUBSET (1..k)
      OBVIOUS
    <3>2. Max(s) = k + 1
      <4>1. s \subseteq Int /\ k + 1 \in s /\ \A y \in s : y <= k + 1
        BY <2>2
      <4> QED BY <4>1, MaxIs
    <3>3. h[s \ {k + 1}] = g[s \ {k + 1}] /\ h[s] = F[k + 1][g[s \ {k + 1}]]
          /\ F[k + 1] \in [X -> X] /\ g[s \ {k + 1}] \in X
      BY <2>2, <3>1
    <3> QED BY <2>2, <3>1, <3>2, <3>3
  <2>3. ASSUME NEW s \in SUBSET (1..(k + 1)), k + 1 \notin s
        PROVE  /\ h[s] \in X
               /\ h[s] = IF s = {} THEN base ELSE F[Max(s)][h[s \ {Max(s)}]]
    <3>1. s \in SUBSET (1..k) /\ h[s] = g[s] /\ g[s] \in X
      BY <2>3
    <3>2. g[s] = IF s = {} THEN base ELSE F[Max(s)][g[s \ {Max(s)}]]
      BY <2>1, <3>1 DEF IsFold
    <3>3. s # {} => s \ {Max(s)} \in SUBSET (1..k) /\ h[s \ {Max(s)}] = g[s \ {Max(s)}]
      BY <2>3, <3>1
    <3> QED BY <3>1, <3>2, <3>3
  <2>4. h \in [SUBSET (1..(k + 1)) -> X]
    <3> HIDE DEF h
    <3>1. \A s \in SUBSET (1..(k + 1)) : h[s] \in X
      BY <2>2, <2>3
    <3> QED BY <3>1 DEF h
  <2>5. IsFold(h, k + 1, base, F)
    <3>1. h = [s \in SUBSET (1..(k + 1)) |-> h[s]]
      OBVIOUS
    <3> HIDE DEF h
    <3>2. \A s \in SUBSET (1..(k + 1)) :
             h[s] = IF s = {} THEN base ELSE F[Max(s)][h[s \ {Max(s)}]]
      BY <2>2, <2>3
    <3> QED BY <3>1, <3>2 DEF IsFold
  <2> QED BY <2>4, <2>5
<1>3. n \in S
  <2> HIDE DEF P
  <2>1. 0 \in S /\ \A k \in Nat : k \in S => k + 1 \in S
    BY <1>1, <1>2
  <2> HIDE DEF S
  <2> QED BY <2>1, NatInd
<1>4. P(n)
  <2> HIDE DEF P
  <2> QED BY <1>3
<1>5. n <= n
  OBVIOUS
<1> QED BY <1>4, <1>5, Zenon

(* A function that goes through a sequence has the values given one after  *)
(* the other.                                                              *)
LEMMA Follows ==
  ASSUME NEW n \in Nat, NEW it, NEW v, it[1..0] = v[0],
         \A k \in 1..n : it[1..(k - 1)] = v[k - 1] => it[1..k] = v[k]
  PROVE  it[1..n] = v[n]
<1> DEFINE S == {k \in Nat : k <= n => it[1..k] = v[k]}
<1>1. 0 \in S
  OBVIOUS
<1>2. ASSUME NEW k \in Nat, k \in S PROVE k + 1 \in S
  <2>1. k + 1 <= n => (k + 1) - 1 = k /\ k + 1 \in 1..n
    OBVIOUS
  <2> QED BY <1>2, <2>1
<1> HIDE DEF S
<1>3. n \in S
  BY <1>1, <1>2, NatInd
<1> QED BY <1>3 DEF S

LEMMA TopOff ==
  ASSUME NEW k \in Nat \ {0} PROVE Max(1..k) = k /\ (1..k) \ {Max(1..k)} = 1..(k - 1) /\ 1..k # {}
<1> DEFINE S == 1..k
<1>1. S \subseteq Int /\ k \in S /\ \A y \in S : y <= k
  OBVIOUS
<1>2. Max(S) = k
  <2> HIDE DEF S
  <2> QED BY <1>1, MaxIs
<1>3. S \ {k} = 1..(k - 1) /\ S # {}
  OBVIOUS
<1> QED BY <1>2, <1>3

----------------------------------------------------------------------------
(***************************************************************************)
(* Terminal sessions.                                                      *)
(***************************************************************************)
PtyInv ==
  /\ PtyTypeOK /\ InputsOnce
  /\ ~truncated => ringStart = 0 /\ ptyNext = printed /\ ptyRing = [i \in 1..printed |-> i]

LEMMA PtyIsHonestThen == PtyInv => PtyIsHonest
<1> SUFFICES ASSUME PtyInv, ~truncated, NEW offset \in 0..ptyNext
             PROVE  Read(offset) = [i \in 1..(printed - offset) |-> offset + i]
  BY DEF PtyInv, PtyIsHonest, LossIsTold
<1>1. ringStart = 0 /\ ptyNext = printed /\ ptyRing = [i \in 1..printed |-> i]
      /\ printed \in Nat /\ Len(ptyRing) = printed /\ ptyRing \in Seq(1..MaxPrinted)
  BY BoundsAssumption DEF PtyInv, PtyTypeOK
<1>2. Read(offset) = SubSeq(ptyRing, offset + 1, printed)
  BY <1>1 DEF Read
<1> QED BY <1>1, <1>2

LEMMA PtyStart == PtyInit => PtyInv
<1> SUFFICES ASSUME PtyInit PROVE PtyInv
  OBVIOUS
<1>1. PtyTypeOK
  <2>1. Len(ptyRing) = 0 /\ ptyRing \in Seq(1..MaxPrinted)
    BY DEF PtyInit
  <2>0. ringStart = 0 /\ ptyNext = 0 /\ printed = 0 /\ inputSeq = 0 /\ asked = 0
        /\ truncated \in BOOLEAN
    BY DEF PtyInit
  <2>2. Len(ptyRing) <= MaxOutput /\ ringStart \in Nat /\ ptyNext = ringStart + Len(ptyRing)
        /\ truncated \in BOOLEAN /\ printed \in 0..MaxPrinted
        /\ inputSeq \in 0..MaxInputs /\ asked \in 0..inputSeq
    BY <2>0, <2>1, MaxOutputAssumption, BoundsAssumption
  <2>3. /\ ptyState \in Terminal \cup {"RUNNING", "KILLING"}
        /\ process \in {"alive", "killed", "dead"} /\ (process = "dead" <=> ptyState \in Terminal)
    BY DEF PtyInit, Terminal
  <2> QED BY <2>1, <2>2, <2>3 DEF PtyTypeOK
<1>2. InputsOnce
  <2>1. \A f : f = [i \in 1..0 |-> i - 1] => f = <<>>
    OBVIOUS
  <2> QED BY <2>1 DEF PtyInit, InputsOnce
<1>3. ptyRing = [i \in 1..printed |-> i]
  BY DEF PtyInit
<1> QED BY <1>1, <1>2, <1>3 DEF PtyInit, PtyInv

LEMMA PrintsKeeps ==
  ASSUME PtyInv, NEW n \in 1..MaxPrinted, Prints(n) PROVE PtyInv'
<1> DEFINE first == ptyNext + n > MaxOutput /\ ringStart = 0 /\ ptyNext < MaxOutput
           size == IF first THEN MaxOutput - ptyNext ELSE n
           chunk == [i \in 1..size |-> printed + i]
           combined == ptyRing \o chunk
           overflow == Len(combined) - MaxOutput
<1>0. MaxOutput \in Nat /\ MaxOutput > 0 /\ MaxPrinted \in Nat /\ MaxInputs \in Nat
      /\ ptyRing \in Seq(1..MaxPrinted) /\ Len(ptyRing) \in Nat /\ Len(ptyRing) <= MaxOutput
      /\ ringStart \in Nat /\ ptyNext = ringStart + Len(ptyRing) /\ printed \in Nat /\ n \in Nat
      /\ printed + n <= MaxPrinted
  BY MaxOutputAssumption, BoundsAssumption, LenProperties DEF PtyInv, PtyTypeOK, Prints
<1>1. size \in 0..n
  BY <1>0
<1>2. chunk \in Seq(1..MaxPrinted) /\ Len(chunk) = size
  <2> HIDE DEF size
  <2> QED BY <1>0, <1>1
<1>3. combined \in Seq(1..MaxPrinted) /\ Len(combined) = Len(ptyRing) + size
  <2> HIDE DEF chunk, size
  <2> QED BY <1>0, <1>1, <1>2, ConcatProperties
<1>4. /\ printed' = printed + n
      /\ ptyNext' = ptyNext + size
      /\ IF overflow > 0
         THEN /\ ptyRing' = SubSeq(combined, overflow + 1, Len(combined))
              /\ ringStart' = ringStart + overflow /\ truncated' = TRUE
         ELSE /\ ptyRing' = combined /\ UNCHANGED ringStart
              /\ truncated' = (truncated \/ first)
      /\ UNCHANGED <<ptyState, process, inputSeq, asked, applied>>
  BY DEF Prints, AppendChunk, inputVars
<1>5. printed' \in 0..MaxPrinted
  BY <1>0, <1>4
<1>6. ptyRing' \in Seq(1..MaxPrinted) /\ Len(ptyRing') <= MaxOutput
      /\ ringStart' \in Nat /\ ptyNext' = ringStart' + Len(ptyRing')
  <2> HIDE DEF combined, size
  <2>1. CASE overflow > 0
    <3>1. overflow + 1 \in 1..Len(combined) + 1 /\ Len(combined) \in Nat /\ overflow \in Nat
      BY <1>0, <1>1, <1>3, <2>1
    <3>2. ptyRing' \in Seq(1..MaxPrinted) /\ Len(ptyRing') = MaxOutput
      <4> DEFINE from == overflow + 1
                 last == Len(combined)
      <4>1. from \in Nat \ {0} /\ last \in Nat /\ last - from + 1 = MaxOutput /\ from <= last
            /\ from \in 1..last + 1 /\ last \in from - 1..Len(combined)
        BY <1>0, <3>1, <2>1
      <4>2. ptyRing' = SubSeq(combined, from, last)
        BY <1>4, <2>1
      <4> HIDE DEF from, last, overflow
      <4>3. \A i \in 1..last : combined[i] \in 1..MaxPrinted
        BY <1>3, ElementOfSeq DEF last
      <4>4. ptyRing' = [i \in 1..MaxOutput |-> combined[from + i - 1]]
        BY <4>1, <4>2, <1>0, <1>3
      <4>5. \A i \in 1..MaxOutput : combined[from + i - 1] \in 1..MaxPrinted
        BY <4>1, <4>3, <1>0
      <4> QED BY <4>4, <4>5, <1>0
    <3> QED BY <1>0, <1>1, <1>3, <1>4, <2>1, <3>1, <3>2
  <2>2. CASE ~(overflow > 0)
    <3>1. ptyRing' = combined /\ ringStart' = ringStart
      BY <1>4, <2>2
    <3>2. Len(combined) <= MaxOutput
      BY <1>0, <1>1, <1>3, <2>2
    <3> QED BY <1>0, <1>1, <1>3, <1>4, <3>1, <3>2
  <2> QED BY <2>1, <2>2
<1>7. ASSUME ~truncated' PROVE ringStart' = 0 /\ ptyNext' = printed' /\ ptyRing' = [i \in 1..printed' |-> i]
  <2>1. ~truncated /\ ~first /\ ~(overflow > 0)
    BY <1>4, <1>7
  <2>2. ringStart = 0 /\ ptyNext = printed /\ ptyRing = [i \in 1..printed |-> i]
    BY <2>1 DEF PtyInv
  <2>3. size = n
    BY <2>1
  <2>4. chunk = [i \in 1..n |-> printed + i]
    BY <2>3
  <2>5. ptyRing \o chunk = [i \in 1..(printed + n) |-> i]
    <3>1. Len(ptyRing) = printed
      BY <1>0, <2>2
    <3>2. Len(chunk) = n
      BY <1>2, <2>3
    <3> HIDE DEF chunk, size
    <3>3. combined \in Seq(1..MaxPrinted) /\ Len(combined) = printed + n
      BY <1>3, <2>3, <3>1
    <3>4. \A i \in 1..(printed + n) :
             combined[i] = IF i <= printed THEN ptyRing[i] ELSE chunk[i - printed]
      BY <1>0, <1>2, <3>1, <3>2, ConcatProperties
    <3>5. \A i \in 1..(printed + n) : combined[i] = i
      BY <1>0, <2>2, <2>4, <3>4
    <3> HIDE DEF combined
    <3>6. combined = [i \in 1..(printed + n) |-> i]
      BY <3>3, <3>5
    <3> QED BY <3>6 DEF combined
  <2> QED BY <1>4, <2>1, <2>2, <2>3, <2>5
<1>8. truncated' \in BOOLEAN
  BY <1>4 DEF PtyInv, PtyTypeOK
<1> HIDE DEF combined, size, chunk, first
<1> QED BY <1>4, <1>5, <1>6, <1>7, <1>8 DEF PtyInv, PtyTypeOK, InputsOnce

LEMMA WriteKeeps ==
  ASSUME PtyInv, Write PROVE PtyInv'
<1>1. CASE asked = inputSeq
  <2>1. inputSeq \in Nat /\ inputSeq + 1 \in 0..MaxInputs /\ inputSeq' = inputSeq + 1
        /\ applied' = Append(applied, inputSeq) /\ applied = [i \in 1..inputSeq |-> i - 1]
    BY <1>1, BoundsAssumption DEF PtyInv, PtyTypeOK, InputsOnce, Write
  <2>2. applied \in Seq(Nat) /\ Len(applied) = inputSeq
    BY <2>1
  <2>3. applied' = [i \in 1..inputSeq' |-> i - 1]
    BY <2>1, <2>2
  <2>4. asked' \in 0..inputSeq'
    BY <1>1, <2>1 DEF Write, PtyInv, PtyTypeOK
  <2> QED BY <2>1, <2>3, <2>4 DEF Write, PtyInv, PtyTypeOK, InputsOnce, ringVars
<1>2. CASE asked # inputSeq
  BY <1>2 DEF Write, PtyInv, PtyTypeOK, InputsOnce, ringVars
<1> QED BY <1>1, <1>2

LEMMA PtyKeeps == ASSUME PtyInv, [PtyNextState]_ptyVars PROVE PtyInv'
<1>1. ASSUME NEW n \in 1..MaxPrinted, Prints(n) PROVE PtyInv'
  BY <1>1, PrintsKeeps
<1>2. CASE Write
  BY <1>2, WriteKeeps
<1>3. CASE Kill
  BY <1>3 DEF Kill, PtyInv, PtyTypeOK, Terminal, InputsOnce, ringVars, inputVars
<1>4. CASE ForceKill
  BY <1>4 DEF ForceKill, PtyInv, PtyTypeOK, Terminal, InputsOnce, ringVars, inputVars
<1>5. CASE PtyExit
  BY <1>5 DEF PtyExit, PtyInv, PtyTypeOK, Terminal, InputsOnce, ringVars, inputVars
<1>6. CASE UNCHANGED ptyVars
  BY <1>6 DEF PtyInv, PtyTypeOK, InputsOnce, ringVars, inputVars, ptyVars
<1> QED BY <1>1, <1>2, <1>3, <1>4, <1>5, <1>6 DEF PtyNextState

----------------------------------------------------------------------------
(***************************************************************************)
(* Commands.  First the bytes of a stream.                                 *)
(***************************************************************************)
(* STRING holds the last four too, which the provers do not know.          *)
Symbols == STRING \cup {"n", "m", "x", "h"}

LEMMA WidthFacts == \A symbol : Width(symbol) \in {1, 2} /\ Width(symbol) \in Nat
  BY DEF Width

LEMMA BytesBeforeIs ==
  ASSUME stream \in Seq(Symbols),
         NEW v \in [0..Len(stream) -> Nat], v[0] = 0,
         \A i \in 1..Len(stream) : v[i] = v[i - 1] + Width(stream[i]),
         NEW i \in 0..Len(stream)
  PROVE  BytesBefore(i) = v[i]
<1> DEFINE seq == SubSeq(stream, 1, i)
           F == [j \in 1..i |-> [x \in Nat |-> x + Width(seq[j])]]
           c == CHOOSE it : it = [s \in SUBSET (DOMAIN seq) |->
                              IF s = {} THEN 0 ELSE it[s \ {Max(s)}] + Width(seq[Max(s)])]
<1>0. Len(stream) \in Nat /\ i \in Nat /\ i <= Len(stream)
  BY LenProperties
<1>1. DOMAIN seq = 1..i /\ \A j \in 1..i : seq[j] = stream[j]
  <2>1. Len(seq) = i /\ seq \in Seq(Symbols)
    BY <1>0, SubSeqProperties
  <2> QED BY <1>0, <2>1, SubSeqProperties
<1>2. BytesBefore(i) = c[DOMAIN seq]
  BY DEF BytesBefore, FoldLeft, MapThenFoldSet
<1>3. F \in [1..i -> [Nat -> Nat]]
  <2>1. \A j \in 1..i, x \in Nat : x + Width(seq[j]) \in Nat
    <3> HIDE DEF seq
    <3> QED BY WidthFacts
  <2> QED BY <2>1
<1>4. PICK it \in [SUBSET (1..i) -> Nat] : IsFold(it, i, 0, F)
  <2> HIDE DEF F
  <2> QED BY <1>0, <1>3, FoldExists
<1>5. it = [s \in SUBSET (DOMAIN seq) |->
              IF s = {} THEN 0 ELSE it[s \ {Max(s)}] + Width(seq[Max(s)])]
  <2>1. ASSUME NEW s \in SUBSET (1..i), s # {}
        PROVE  F[Max(s)][it[s \ {Max(s)}]] = it[s \ {Max(s)}] + Width(seq[Max(s)])
    <3>1. Max(s) \in 1..i
      <4>1. s \subseteq Int /\ \A y \in s : y <= i
        OBVIOUS
      <4>2. Max(s) \in s
        <5>1. i \in Int
          BY <1>0
        <5> QED BY <2>1, <4>1, <5>1, MaxFacts
      <4> QED BY <4>2
    <3>2. it[s \ {Max(s)}] \in Nat
      OBVIOUS
    <3> QED BY <3>1, <3>2
  <2> HIDE DEF F, seq
  <2> QED BY <1>1, <1>4, <2>1 DEF IsFold
<1>6. c = [s \in SUBSET (DOMAIN seq) |->
              IF s = {} THEN 0 ELSE c[s \ {Max(s)}] + Width(seq[Max(s)])]
  <2> HIDE DEF seq
  <2> QED BY <1>5
<1> HIDE DEF c, seq
<1>7. c[1..0] = v[0]
  BY <1>1, <1>6
<1>8. ASSUME NEW k \in 1..i, c[1..(k - 1)] = v[k - 1] PROVE c[1..k] = v[k]
  <2>1. k \in Nat \ {0} /\ 1..k \in SUBSET (DOMAIN seq)
    BY <1>0, <1>1
  <2>2. c[1..k] = c[1..(k - 1)] + Width(seq[k])
    BY <1>6, <2>1, TopOff
  <2> QED BY <1>0, <1>1, <1>8, <2>2
<1>9. c[1..i] = v[i]
  BY <1>0, <1>7, <1>8, Follows, ZenonT(60)
<1> QED BY <1>1, <1>2, <1>9

LEMMA BytesBeforeFacts ==
  ASSUME stream \in Seq(Symbols)
  PROVE  /\ BytesBefore(0) = 0
         /\ \A i \in 0..Len(stream) : BytesBefore(i) \in Nat
         /\ \A i \in 1..Len(stream) : BytesBefore(i) = BytesBefore(i - 1) + Width(stream[i])
<1> DEFINE n == Len(stream)
           F == [j \in 1..n |-> [x \in Nat |-> x + Width(stream[j])]]
<1>0. n \in Nat
  BY LenProperties
<1>1. F \in [1..n -> [Nat -> Nat]]
  <2>1. \A j \in 1..n, x \in Nat : x + Width(stream[j]) \in Nat
    BY WidthFacts
  <2> QED BY <2>1
<1>2. PICK v \in [0..n -> Nat] : v[0] = 0 /\ \A i \in 1..n : v[i] = F[i][v[i - 1]]
  <2> HIDE DEF F, n
  <2>1. \E v \in [0..n -> Nat] : Successive(v, n, 0, F)
    BY <1>0, <1>1, ValuesExist
  <2> QED BY <2>1 DEF Successive
<1>3. \A i \in 1..n : v[i] = v[i - 1] + Width(stream[i])
  <2>1. \A i \in 1..n : v[i - 1] \in Nat
    BY <1>0
  <2> QED BY <1>2, <2>1
<1>4. \A i \in 0..n : BytesBefore(i) = v[i]
  BY <1>2, <1>3, BytesBeforeIs
<1>5. \A i \in 1..n : i \in 0..n /\ i - 1 \in 0..n
  BY <1>0
<1>6. 0 \in 0..n /\ \A i \in 0..n : v[i] \in Nat
  BY <1>0
<1> HIDE DEF F
<1>7. BytesBefore(0) = 0
  BY <1>2, <1>4, <1>6
<1>8. \A i \in 0..n : BytesBefore(i) \in Nat
  BY <1>4, <1>6
<1>9. \A i \in 1..n : BytesBefore(i) = BytesBefore(i - 1) + Width(stream[i])
  BY <1>3, <1>4, <1>5
<1> QED BY <1>7, <1>8, <1>9

LEMMA BytesBeforeGrows ==
  ASSUME stream \in Seq(Symbols), NEW i \in 0..Len(stream), NEW j \in 0..Len(stream), i < j
  PROVE  BytesBefore(i) < BytesBefore(j)
<1> DEFINE n == Len(stream)
           P(d) == i + d + 1 <= n => BytesBefore(i) < BytesBefore(i + d + 1)
           S == {d \in Nat : P(d)}
<1>0. n \in Nat /\ i \in Nat /\ j \in Nat /\ i <= n /\ j <= n
  BY LenProperties
<1>1. \A k \in 0..n : k + 1 <= n => /\ BytesBefore(k) \in Nat /\ BytesBefore(k + 1) \in Nat
                                   /\ BytesBefore(k) < BytesBefore(k + 1)
  <2> TAKE k \in 0..n
  <2> HAVE k + 1 <= n
  <2>1. k + 1 \in 1..n /\ k + 1 \in 0..n /\ (k + 1) - 1 = k
    BY <1>0
  <2>2. BytesBefore(k + 1) = BytesBefore(k) + Width(stream[k + 1])
    BY <2>1, BytesBeforeFacts
  <2>3. Width(stream[k + 1]) \in {1, 2}
    BY WidthFacts
  <2> QED BY <2>1, <2>2, <2>3, BytesBeforeFacts
<1>2. P(0)
  BY <1>0, <1>1
<1>3. ASSUME NEW d \in Nat, P(d) PROVE P(d + 1)
  <2> SUFFICES ASSUME i + (d + 1) + 1 <= n PROVE BytesBefore(i) < BytesBefore(i + (d + 1) + 1)
    OBVIOUS
  <2>1. i + d + 1 \in 0..n /\ (i + d + 1) + 1 <= n /\ i + (d + 1) + 1 = (i + d + 1) + 1
    BY <1>0
  <2>2. BytesBefore(i) < BytesBefore(i + d + 1) /\ BytesBefore(i) \in Nat
    BY <1>0, <1>3, <2>1, BytesBeforeFacts
  <2>3. /\ BytesBefore(i + d + 1) \in Nat /\ BytesBefore((i + d + 1) + 1) \in Nat
        /\ BytesBefore(i + d + 1) < BytesBefore((i + d + 1) + 1)
    BY <1>1, <2>1
  <2> QED BY <2>1, <2>2, <2>3
<1>4. Nat \subseteq S
  <2> HIDE DEF P
  <2>1. 0 \in S /\ \A d \in Nat : d \in S => d + 1 \in S
    BY <1>2, <1>3
  <2> HIDE DEF S
  <2> QED BY <2>1, NatInd
<1>5. j - i - 1 \in Nat /\ i + (j - i - 1) + 1 = j
  BY <1>0
<1>6. P(j - i - 1)
  <2> HIDE DEF P
  <2> QED BY <1>4, <1>5
<1> QED BY <1>0, <1>5, <1>6

(* Where the symbols of the stream begin and end, the byte at a place, and *)
(* the bytes from one place to another.                                    *)
Ends == {BytesBefore(j) : j \in 0..Len(stream)}
ByteAt(p) == [at |-> p, first |-> p \in Ends, last |-> p + 1 \in Ends]
Segment(a, b) == [q \in 1..(b - a) |-> ByteAt(a + q - 1)]

LEMMA ByteFields ==
  ASSUME NEW p
  PROVE  ByteAt(p).at = p /\ (ByteAt(p).first <=> p \in Ends) /\ (ByteAt(p).last <=> p + 1 \in Ends)
<1>1. ByteAt(p).at = p
  BY DEF ByteAt
<1>2. ByteAt(p).first <=> p \in Ends
  BY DEF ByteAt
<1>3. ByteAt(p).last <=> p + 1 \in Ends
  BY DEF ByteAt
<1> QED BY <1>1, <1>2, <1>3

LEMMA EndsFacts ==
  ASSUME stream \in Seq(Symbols)
  PROVE  /\ Ends \subseteq Nat /\ 0 \in Ends
         /\ \A i \in 0..Len(stream) : BytesBefore(i) \in Ends
  BY BytesBeforeFacts, LenProperties DEF Ends

LEMMA SegmentFacts ==
  ASSUME NEW a \in Nat, NEW b \in Nat, a <= b
  PROVE  /\ Segment(a, b) \in Seq({ByteAt(p) : p \in Nat})
         /\ Len(Segment(a, b)) = b - a
         /\ \A q \in 1..(b - a) : Segment(a, b)[q] = ByteAt(a + q - 1)
  BY DEF Segment

Cut(bytes, s, e) == SubSeq(bytes, s + 1, e)

LEMMA SegmentSub ==
  ASSUME NEW a \in Nat, NEW b \in Nat, NEW s \in Nat, NEW e \in Nat,
         a <= b, s <= e, e <= b - a
  PROVE  Cut(Segment(a, b), s, e) = Segment(a + s, a + e)
<1> DEFINE G == Segment(a, b)
           Y == {ByteAt(p) : p \in Nat}
<1>1. G \in Seq(Y) /\ Len(G) = b - a /\ \A q \in 1..(b - a) : G[q] = ByteAt(a + q - 1)
  BY SegmentFacts
<1> HIDE DEF G
<1>2. SubSeq(G, s + 1, e) = [q \in 1..(e - s) |-> G[s + q]]
  BY <1>1
<1>3. \A q \in 1..(e - s) : G[s + q] = ByteAt(a + s + q - 1)
  BY <1>1
<1>4. (a + e) - (a + s) = e - s
  OBVIOUS
<1>5. Segment(a + s, a + e) = [q \in 1..(e - s) |-> ByteAt(a + s + q - 1)]
  BY <1>4 DEF Segment
<1>6. SubSeq(G, s + 1, e) = Segment(a + s, a + e)
  BY <1>2, <1>3, <1>5
<1> QED BY <1>6 DEF G, Cut

LEMMA SegmentConcat ==
  ASSUME NEW a \in Nat, NEW b \in Nat, NEW d \in Nat, a <= b, b <= d
  PROVE  Segment(a, b) \o Segment(b, d) = Segment(a, d)
<1> DEFINE Y == {ByteAt(p) : p \in Nat}
           G == Segment(a, b)
           H == Segment(b, d)
           K == Segment(a, d)
<1>1. G \in Seq(Y) /\ Len(G) = b - a /\ \A q \in 1..(b - a) : G[q] = ByteAt(a + q - 1)
  BY SegmentFacts
<1>2. H \in Seq(Y) /\ Len(H) = d - b /\ \A q \in 1..(d - b) : H[q] = ByteAt(b + q - 1)
  BY SegmentFacts
<1>3. K \in Seq(Y) /\ Len(K) = d - a /\ \A q \in 1..(d - a) : K[q] = ByteAt(a + q - 1)
  <2>1. a <= d
    OBVIOUS
  <2> QED BY <2>1, SegmentFacts
<1> HIDE DEF G, H, K, Y
<1>4. G \o H \in Seq(Y) /\ Len(G \o H) = d - a
  <2>1. G \in Seq(Y) /\ H \in Seq(Y)
    BY ONLY <1>1, <1>2
  <2>2. G \o H \in Seq(Y) /\ Len(G \o H) = Len(G) + Len(H)
    BY ONLY <2>1, ConcatProperties
  <2>3. Len(G) + Len(H) = d - a
    BY <1>1, <1>2
  <2> QED BY ONLY <2>2, <2>3
<1>5. \A q \in 1..(d - a) : (G \o H)[q] = K[q]
  <2> TAKE q \in 1..(d - a)
  <2>1. CASE q <= b - a
    BY <1>1, <1>2, <1>3, <2>1, ConcatProperties
  <2>2. CASE ~(q <= b - a)
    <3>1. q - (b - a) \in 1..(d - b) /\ b + (q - (b - a)) - 1 = a + q - 1
      BY <2>2
    <3>2. (G \o H)[q] = H[q - (b - a)]
      BY <1>1, <1>2, <2>2, ConcatProperties
    <3> QED BY <1>2, <1>3, <3>1, <3>2
  <2> QED BY <2>1, <2>2
<1>6. G \o H = K
  BY <1>3, <1>4, <1>5, SeqEqual
<1> QED BY <1>6 DEF G, H, K

LEMMA SymbolBytes ==
  ASSUME stream \in Seq(Symbols), NEW j \in 1..Len(stream)
  PROVE  [b \in 1..Width(stream[j]) |->
            [at |-> BytesBefore(j - 1) + b - 1,
             first |-> b = 1, last |-> b = Width(stream[j])]]
         = Segment(BytesBefore(j - 1), BytesBefore(j))
<1> DEFINE w == Width(stream[j])
           B == BytesBefore(j - 1)
<1>0. Len(stream) \in Nat /\ j \in 0..Len(stream) /\ j - 1 \in 0..Len(stream)
      /\ w \in {1, 2} /\ B \in Nat /\ BytesBefore(j) = B + w
  BY LenProperties, BytesBeforeFacts, WidthFacts
<1>1. ASSUME NEW p \in Nat, B < p, p < B + w PROVE p \notin Ends
  <2> SUFFICES ASSUME NEW i \in 0..Len(stream), p = BytesBefore(i) PROVE FALSE
    BY DEF Ends
  <2>1. CASE i < j - 1
    BY <1>0, <1>1, <2>1, BytesBeforeGrows
  <2>2. CASE i = j - 1
    BY <1>0, <1>1, <2>2
  <2>3. CASE i = j
    BY <1>0, <1>1, <2>3
  <2>4. CASE i > j
    BY <1>0, <1>1, <2>4, BytesBeforeGrows
  <2> QED BY <1>0, <2>1, <2>2, <2>3, <2>4
<1>2. B \in Ends /\ B + w \in Ends
  BY <1>0, EndsFacts
<1> HIDE DEF w, B
<1>3. ASSUME NEW b \in 1..w
      PROVE  [at |-> B + b - 1, first |-> b = 1, last |-> b = w] = ByteAt(B + b - 1)
  <2>1. (b = 1) = (B + b - 1 \in Ends)
    <3>1. CASE b = 1
      BY <1>0, <1>2, <3>1
    <3>2. CASE b # 1
      <4>1. B + b - 1 \in Nat /\ B < B + b - 1 /\ B + b - 1 < B + w
        BY <1>0, <3>2
      <4> QED BY <1>1, <3>2, <4>1
    <3> QED BY <3>1, <3>2
  <2>2. (b = w) = ((B + b - 1) + 1 \in Ends)
    <3>1. CASE b = w
      <4>1. (B + b - 1) + 1 = B + w
        BY <1>0, <3>1
      <4> QED BY <1>2, <3>1, <4>1
    <3>2. CASE b # w
      <4>1. (B + b - 1) + 1 \in Nat /\ B < (B + b - 1) + 1 /\ (B + b - 1) + 1 < B + w
        BY <1>0, <3>2
      <4> QED BY <1>1, <3>2, <4>1
    <3> QED BY <3>1, <3>2
  <2> QED BY <2>1, <2>2 DEF ByteAt
<1>4. (B + w) - B = w
  BY <1>0
<1>5. [b \in 1..w |-> [at |-> B + b - 1, first |-> b = 1, last |-> b = w]] = Segment(B, B + w)
  BY <1>3, <1>4 DEF Segment
<1> QED BY <1>0, <1>5 DEF w, B

LEMMA BytesAre ==
  ASSUME stream \in Seq(Symbols), NEW i \in Nat, NEW n \in Nat, i + n <= Len(stream)
  PROVE  Bytes(i, n) = Segment(BytesBefore(i), BytesBefore(i + n))
<1> DEFINE sym(k) == [b \in 1..Width(stream[i + k]) |->
                        [at |-> BytesBefore(i + k - 1) + b - 1,
                         first |-> b = 1, last |-> b = Width(stream[i + k])]]
           seqs == [k \in 1..n |-> sym(k)]
           seg(k) == Segment(BytesBefore(i), BytesBefore(i + k))
           c == CHOOSE f : f = [k \in 1..Len(seqs) |->
                                  IF k = 1 THEN seqs[k] ELSE f[k - 1] \o seqs[k]]
           f0 == [k \in 1..n |-> seg(k)]
           S == {k \in Nat : k + 1 <= n => c[k + 1] = seg(k + 1)}
<1>0. Len(stream) \in Nat /\ \A k \in 0..n : i + k \in 0..Len(stream)
  BY LenProperties
<1>1. \A k \in 0..n : BytesBefore(i + k) \in Nat
  BY <1>0, BytesBeforeFacts
<1>2. \A k \in 1..n : sym(k) = Segment(BytesBefore(i + k - 1), BytesBefore(i + k))
  <2> TAKE k \in 1..n
  <2>1. i + k \in 1..Len(stream)
    BY <1>0
  <2> QED BY <2>1, SymbolBytes
<1> HIDE DEF sym
<1>3. Len(seqs) = n /\ \A k \in 1..n : seqs[k] = sym(k)
  OBVIOUS
<1>4. n = 0 => Bytes(i, n) = <<>>
  <2>1. n = 0 => seqs = <<>>
    OBVIOUS
  <2> QED BY <1>3, <2>1 DEF Bytes, FlattenSeq, sym
<1>5. n # 0 => Bytes(i, n) = c[n]
  BY <1>3 DEF Bytes, FlattenSeq, sym
<1>6. \A k \in 1..n : k # 1 => seg(k - 1) \o sym(k) = seg(k)
  <2> TAKE k \in 1..n
  <2> HAVE k # 1
  <2>1. k - 1 \in 0..n /\ i + (k - 1) = i + k - 1 /\ i \in 0..Len(stream)
    BY <1>0
  <2>2. BytesBefore(i) <= BytesBefore(i + k - 1) /\ BytesBefore(i + k - 1) <= BytesBefore(i + k)
        /\ BytesBefore(i) \in Nat /\ BytesBefore(i + k - 1) \in Nat /\ BytesBefore(i + k) \in Nat
    <3>1. i < i + k - 1 /\ i + k - 1 < i + k /\ i + k - 1 \in 0..Len(stream)
          /\ i + k \in 0..Len(stream)
      BY <1>0, <2>1
    <3> QED BY <2>1, <3>1, BytesBeforeGrows, BytesBeforeFacts
  <2>3. seg(k - 1) = Segment(BytesBefore(i), BytesBefore(i + k - 1))
    BY <2>1
  <2>4. sym(k) = Segment(BytesBefore(i + k - 1), BytesBefore(i + k))
    BY <1>2
  <2> HIDE DEF seg
  <2>5. seg(k - 1) \o sym(k) = Segment(BytesBefore(i), BytesBefore(i + k))
    <3> DEFINE A == BytesBefore(i)
               B == BytesBefore(i + k - 1)
               D == BytesBefore(i + k)
    <3>1. A \in Nat /\ B \in Nat /\ D \in Nat /\ A <= B /\ B <= D
      BY <2>2
    <3> HIDE DEF A, B, D
    <3>2. Segment(A, B) \o Segment(B, D) = Segment(A, D)
      BY <3>1, SegmentConcat
    <3> QED BY <2>3, <2>4, <3>2 DEF A, B, D
  <2> QED BY <2>5 DEF seg
<1>7. n # 0 => seg(1) = sym(1)
  <2>1. i + 1 - 1 = i
    OBVIOUS
  <2> QED BY <1>2, <2>1
<1> HIDE DEF seqs, seg
<1>8. f0 = [k \in 1..Len(seqs) |-> IF k = 1 THEN seqs[k] ELSE f0[k - 1] \o seqs[k]]
  <2>1. \A k \in 1..n : f0[k] = IF k = 1 THEN seqs[k] ELSE f0[k - 1] \o seqs[k]
    <3> TAKE k \in 1..n
    <3>1. CASE k = 1
      BY <1>3, <1>7, <3>1
    <3>2. CASE k # 1
      <4>1. k - 1 \in 1..n
        BY <3>2
      <4>2. f0[k] = seg(k) /\ f0[k - 1] = seg(k - 1)
        BY <4>1
      <4> QED BY <1>3, <1>6, <3>2, <4>2
    <3> QED BY <3>1, <3>2
  <2> QED BY <1>3, <2>1
<1>9. c = [k \in 1..Len(seqs) |-> IF k = 1 THEN seqs[k] ELSE c[k - 1] \o seqs[k]]
  <2> HIDE DEF f0
  <2> QED BY <1>8
<1> HIDE DEF c, f0
<1>10. \A k \in 1..n : c[k] = IF k = 1 THEN sym(k) ELSE c[k - 1] \o sym(k)
  BY <1>3, <1>9
<1>11. 0 \in S
  BY <1>7, <1>10
<1>12. ASSUME NEW k \in Nat, k \in S PROVE k + 1 \in S
  <2>1. (k + 1) + 1 <= n => /\ (k + 1) + 1 \in 1..n /\ (k + 1) + 1 # 1
                            /\ ((k + 1) + 1) - 1 = k + 1 /\ k + 1 <= n
    OBVIOUS
  <2>2. (k + 1) + 1 <= n => c[(k + 1) + 1] = c[k + 1] \o sym((k + 1) + 1)
    BY <1>10, <2>1
  <2>3. (k + 1) + 1 <= n => c[(k + 1) + 1] = seg((k + 1) + 1)
    BY <1>6, <1>12, <2>1, <2>2
  <2> QED BY <2>3
<1> HIDE DEF S
<1>13. Nat \subseteq S
  BY <1>11, <1>12, NatInd
<1>14. n # 0 => c[n] = seg(n)
  <2>1. n # 0 => n - 1 \in Nat /\ (n - 1) + 1 = n
    OBVIOUS
  <2> QED BY <1>13, <2>1 DEF S
<1>15. n = 0 => Segment(BytesBefore(i), BytesBefore(i + n)) = <<>>
  <2>1. n = 0 => BytesBefore(i + n) - BytesBefore(i) = 0 
    <3>1. i + 0 = i /\ BytesBefore(i + 0) \in Nat
      BY <1>1
    <3> QED BY <3>1
  <2> QED BY <2>1 DEF Segment
<1> QED BY <1>4, <1>5, <1>14, <1>15 DEF seg

LEMMA StreamStays ==
  ASSUME stream' = stream
  PROVE  /\ \A i : BytesBefore(i)' = BytesBefore(i)
         /\ Ends' = Ends
         /\ \A a, b : Segment(a, b)' = Segment(a, b)
<1>1. \A i : BytesBefore(i)' = BytesBefore(i)
  BY DEF BytesBefore, FoldLeft, MapThenFoldSet
<1>2. Ends' = Ends
  BY <1>1 DEF Ends
<1> QED BY <1>1, <1>2 DEF Segment, ByteAt

(* Where the code points of a segment end.                                 *)
LEMMA BoundariesAre ==
  ASSUME stream \in Seq(Symbols), NEW a \in Ends, NEW b \in Nat, a <= b
  PROVE  Boundaries(Segment(a, b)) = {k \in 0..(b - a) : a + k \in Ends}
<1> DEFINE G == Segment(a, b)
<1>0. a \in Nat
  BY EndsFacts
<1>1. DOMAIN G = 1..(b - a) /\ \A q \in 1..(b - a) : G[q] = ByteAt(a + q - 1)
  BY <1>0, SegmentFacts DEF Segment
<1>2. \A q \in 1..(b - a) : G[q].last <=> a + q \in Ends
  <2> TAKE q \in 1..(b - a)
  <2>1. (a + q - 1) + 1 = a + q
    BY <1>0
  <2>2. G[q] = ByteAt(a + q - 1)
    BY <1>1
  <2>3. ByteAt(a + q - 1).last <=> (a + q - 1) + 1 \in Ends
    BY ByteFields
  <2> HIDE DEF G
  <2> QED BY <2>1, <2>2, <2>3, Zenon
<1>3. a + 0 \in Ends
  BY <1>0
<1> HIDE DEF G
<1>4. Boundaries(G) = {k \in 0..(b - a) : a + k \in Ends}
  <2>1. Boundaries(G) = {0} \cup {k \in 1..(b - a) : G[k].last}
    BY <1>1, Zenon DEF Boundaries
  <2>2. {k \in 1..(b - a) : G[k].last} = {k \in 1..(b - a) : a + k \in Ends}
    BY <1>2, Zenon
  <2>3. {0} \cup {k \in 1..(b - a) : a + k \in Ends} = {k \in 0..(b - a) : a + k \in Ends}
    BY <1>0, <1>3
  <2> QED BY <2>1, <2>2, <2>3, Zenon
<1> QED BY <1>4 DEF G

PageOK(p) ==
  /\ p.kind # "INVALID_ARGUMENT"
  /\ p.kind = "page" =>
        /\ \A i \in DOMAIN p.bytes : p.bytes[i].at = p.from + i - 1
        /\ p.bytes # <<>> => Head(p.bytes).first /\ Last(p.bytes).last
        /\ p.more => p.bytes # <<>>

(* What getOutput and waitForActivity answer for the bytes of the stream   *)
(* from e to next.                                                         *)
LEMMA SnapshotIs ==
  ASSUME stream \in Seq(Symbols), NEW e \in Ends, NEW next \in Ends, e <= next,
         NEW offset \in Ends, offset <= next, NEW max \in Nat \ {0},
         NEW a, a = Snapshot(Segment(e, next), next, offset, max)
  PROVE  /\ PageOK(a)
         /\ a.kind = "page" => offset + Len(a.bytes) \in Ends /\ offset + Len(a.bytes) <= next
         /\ a.kind = "OUTPUT_EXPIRED" => a.earliest \in Ends /\ a.earliest <= next
<1> DEFINE G == Segment(e, next)
           start == offset - e
           within == {k \in Boundaries(G) : start < k /\ k <= start + max}
           beyond == {k \in Boundaries(G) : start < k}
           end == IF within # {} THEN Max(within)
                  ELSE IF start = Len(G) THEN start ELSE Min(beyond)
<1>0. e \in Nat /\ next \in Nat /\ offset \in Nat
  BY EndsFacts
<1>1. Len(G) = next - e /\ next - Len(G) = e
  <2>1. Len(G) = next - e
    BY <1>0, SegmentFacts
  <2> HIDE DEF G
  <2> QED BY <1>0, <2>1
<1>2. Boundaries(G) = {k \in 0..(next - e) : e + k \in Ends}
  BY <1>0, BoundariesAre
<1>3. a = CASE offset < e -> [kind |-> "OUTPUT_EXPIRED", earliest |-> e]
            [] offset >= e /\ start \notin Boundaries(G) -> [kind |-> "INVALID_ARGUMENT"]
            [] OTHER -> [kind |-> "page", from |-> offset, more |-> end < Len(G),
                         bytes |-> SubSeq(G, start + 1, end)]
  <2> HIDE DEF G
  <2>1. next - Len(G) = e
    BY <1>1
  <2>2. a = Snapshot(G, next, offset, max)
    BY DEF G
  <2> QED BY <2>1, <2>2 DEF Snapshot
<1>4. CASE offset < e
  <2>1. a = [kind |-> "OUTPUT_EXPIRED", earliest |-> e]
    BY <1>0, <1>3, <1>4
  <2> QED BY <2>1 DEF PageOK
<1>5. CASE ~(offset < e)
  <2>1. start \in Nat /\ start \in 0..(next - e) /\ e + start = offset
    BY <1>0, <1>5
  <2>2. start \in Boundaries(G)
    BY <1>2, <2>1
  <2>3. a = [kind |-> "page", from |-> offset, more |-> end < Len(G),
             bytes |-> SubSeq(G, start + 1, end)]
    <3> HIDE DEF start, end, G
    <3> QED BY <1>0, <1>3, <1>5, <2>2
  <2>4. next - e \in Boundaries(G)
    <3>1. e + (next - e) = next
      BY <1>0
    <3> QED BY <1>0, <1>2, <3>1
  <2>5. end \in Boundaries(G) /\ start <= end /\ (start # Len(G) => start < end)
    <3>1. CASE within # {}
      <4>1. within \subseteq Int /\ \A y \in within : y <= next - e
        BY <1>2
      <4>2. Max(within) \in within
        <5> HIDE DEF within
        <5>1. next - e \in Int
          BY <1>0
        <5> QED BY <3>1, <4>1, <5>1, MaxFacts
      <4>3. end = Max(within)
        BY <3>1
      <4> HIDE DEF end
      <4>4. end \in Boundaries(G) /\ start < end
        BY <4>2, <4>3
      <4> QED BY <1>2, <2>1, <4>4
    <3>2. CASE within = {} /\ start = Len(G)
      <4>1. end = start
        BY <3>2
      <4> QED BY <2>1, <2>2, <3>2, <4>1
    <3>3. CASE within = {} /\ start # Len(G)
      <4>1. end = Min(beyond)
        BY <3>3
      <4>2. next - e \in beyond
        BY <1>1, <2>1, <2>4, <3>3
      <4>3. beyond \subseteq Nat
        BY <1>2
      <4>4. Min(beyond) \in beyond
        <5> HIDE DEF beyond
        <5> QED BY <4>2, <4>3, MinFacts
      <4> HIDE DEF end
      <4>5. end \in Boundaries(G) /\ start < end
        BY <4>1, <4>4
      <4> QED BY <1>2, <2>1, <4>5
    <3> QED BY <3>1, <3>2, <3>3
  <2> HIDE DEF start, end
  <2>6. end \in Nat /\ end <= next - e /\ e + end \in Ends
    BY <1>2, <2>5
  <2>7. a.bytes = Segment(offset, e + end)
    <3>1. SubSeq(G, start + 1, end) = Segment(e + start, e + end)
      <4>1. e \in Nat /\ next \in Nat /\ e <= next /\ start \in Nat /\ end \in Nat
            /\ start <= end /\ end <= next - e
        BY <1>0, <2>1, <2>5, <2>6
      <4>2. Cut(G, start, end) = Segment(e + start, e + end)
        BY <4>1, SegmentSub
      <4> QED BY <4>2 DEF Cut
    <3> HIDE DEF G
    <3> QED BY <2>1, <2>3, <3>1
  <2>8. a.kind = "page" /\ a.from = offset /\ a.more = (end < Len(G))
    <3> HIDE DEF G
    <3> QED BY <2>3
  <2>9. offset <= e + end /\ e + end \in Nat /\ e + end <= next
    BY <1>0, <2>1, <2>5, <2>6
  <2>10. Len(a.bytes) = (e + end) - offset /\ DOMAIN a.bytes = 1..((e + end) - offset)
         /\ \A q \in 1..((e + end) - offset) : a.bytes[q] = ByteAt(offset + q - 1)
    BY <1>0, <2>7, <2>9, SegmentFacts DEF Segment
  <2>11. \A i \in DOMAIN a.bytes : a.bytes[i].at = offset + i - 1
    <3> TAKE i \in DOMAIN a.bytes
    <3>1. a.bytes[i] = ByteAt(offset + i - 1)
      BY <2>10
    <3> QED BY <3>1, ByteFields
  <2>12. ASSUME a.bytes # <<>> PROVE Head(a.bytes).first /\ Last(a.bytes).last
    <3>0. offset # e + end
      <4>1. ASSUME offset = e + end PROVE a.bytes = <<>>
        <5>1. (e + end) - offset = 0
          BY <1>0, <2>9, <4>1
        <5> QED BY <2>7, <5>1 DEF Segment
      <4> QED BY <2>12, <4>1
    <3>1. (e + end) - offset \in 1..((e + end) - offset) /\ 1 \in 1..((e + end) - offset)
      BY <1>0, <2>9, <3>0
    <3>2. a.bytes[1] = ByteAt(offset)
      <4>1. offset + 1 - 1 = offset
        BY <1>0
      <4> QED BY <2>10, <3>1, <4>1
    <3>3. a.bytes[(e + end) - offset] = ByteAt(e + end - 1)
      <4>1. offset + ((e + end) - offset) - 1 = e + end - 1
        BY <1>0, <2>6
      <4> QED BY <2>10, <3>1, <4>1
    <3>4. Head(a.bytes).first
      <4>1. Head(a.bytes) = a.bytes[1]
        <5>1. a.bytes \in Seq({ByteAt(p) : p \in Nat})
          BY <1>0, <2>7, <2>9, SegmentFacts
        <5> QED BY <2>12, <5>1, HeadTailProperties
      <4>2. ByteAt(offset).first
        BY ByteFields
      <4> QED BY <3>2, <4>1, <4>2, Zenon
    <3>5. Last(a.bytes).last
      <4>1. (e + end - 1) + 1 = e + end
        BY <1>0, <2>6
      <4>2. Last(a.bytes) = ByteAt(e + end - 1)
        BY <2>10, <3>3 DEF Last
      <4>3. ByteAt(e + end - 1).last <=> (e + end - 1) + 1 \in Ends
        BY ByteFields
      <4> QED BY <2>6, <4>1, <4>2, <4>3, Zenon
    <3> QED BY <3>4, <3>5
  <2>13. ASSUME a.more PROVE a.bytes # <<>>
    <3>1. start < end
      <4>1. end < Len(G)
        BY <2>8, <2>13
      <4> HIDE DEF G
      <4> QED BY <1>0, <1>1, <2>1, <2>5, <2>6, <4>1
    <3>2. Len(a.bytes) # 0
      BY <1>0, <2>1, <2>6, <2>10, <3>1
    <3> QED BY <3>2
  <2>14. offset + Len(a.bytes) = e + end
    BY <1>0, <2>6, <2>10
  <2> QED BY <2>6, <2>8, <2>9, <2>11, <2>12, <2>13, <2>14 DEF PageOK
<1> QED BY <1>4, <1>5

----------------------------------------------------------------------------
(***************************************************************************)
(* The invariant of a command.  The ring holds the bytes of the stream     *)
(* that end at nextOffset, and begins and ends between code points, as do  *)
(* the pages; what the parser has handed on and what it keeps back are     *)
(* what has arrived, and it does not hand on the marker.                   *)
(***************************************************************************)
StreamOK ==
  /\ stream \in Seq(Symbols) /\ Len(stream) >= 4
  /\ stream[Len(stream) - 3] = "n" /\ stream[Len(stream) - 2] = "m"
  /\ stream[Len(stream) - 1] = "x" /\ stream[Len(stream)] = "h"
  /\ \A i \in 1..(Len(stream) - 2) : stream[i] \notin {"x", "h"}

Shown == sent - Len(parseBuffer)

ParserOK ==
  /\ sent \in 0..Len(stream) /\ commandStatus \in {"running", "over"}
  /\ commandStatus = "running" =>
        /\ Len(parseBuffer) \in 0..sent /\ sent < Len(stream)
        /\ parseBuffer = SubSeq(stream, Shown + 1, sent)
        /\ Shown <= Len(stream) - 3 /\ nextOffset = BytesBefore(Shown)
  /\ commandStatus = "over" =>
        /\ parseBuffer = <<>>
        /\ sent = Len(stream) => nextOffset - BytesBefore(Len(stream) - 4) \in {0, 1}

RingOK ==
  /\ nextOffset \in Ends /\ Len(ring) \in 0..MaxRing
  /\ nextOffset - Len(ring) \in Ends /\ ring = Segment(nextOffset - Len(ring), nextOffset)
  /\ outputLost \in BOOLEAN /\ LossIsMarked

ReadersOK ==
  /\ kept \in {"commands", "expired", "none"}
  /\ cursor \in Ends /\ cursor <= nextOffset
  /\ NoMissedActivity
  /\ PageOK(page)

CommandInv == StreamOK /\ ParserOK /\ RingOK /\ ReadersOK

LEMMA CommandInvThen == CommandInv => CommandTypeOK /\ PagesAreExact /\ LossIsMarked /\ EndIsWhole /\ NoMissedActivity
<1> SUFFICES ASSUME CommandInv
             PROVE  CommandTypeOK /\ PagesAreExact /\ LossIsMarked /\ EndIsWhole /\ NoMissedActivity
  OBVIOUS
<1>0. stream \in Seq(Symbols) /\ Len(stream) \in Nat /\ nextOffset \in Nat /\ cursor \in Nat
      /\ sent \in 0..Len(stream)
  BY EndsFacts, LenProperties DEF CommandInv, StreamOK, RingOK, ReadersOK, ParserOK
<1>1. CommandTypeOK
  <2>1. Len(parseBuffer) <= sent /\ (commandStatus = "over" => parseBuffer = <<>>)
        /\ commandStatus \in {"running", "over"}
    <3>1. commandStatus = "over" => Len(parseBuffer) = 0
      BY DEF CommandInv, ParserOK
    <3> QED BY <1>0, <3>1 DEF CommandInv, ParserOK
  <2>2. baseline \in -1..nextOffset
    BY <1>0 DEF CommandInv, ReadersOK, NoMissedActivity
  <2>3. Len(ring) <= MaxRing /\ outputLost \in BOOLEAN
    BY RingAssumption DEF CommandInv, RingOK
  <2> QED BY <1>0, <2>1, <2>2, <2>3 DEF CommandInv, ReadersOK, CommandTypeOK
<1>2. PagesAreExact
  BY DEF CommandInv, ReadersOK, PageOK, PagesAreExact
<1>3. EndIsWhole
  <2>1. Len(stream) - Len(Marker) - 2 = Len(stream) - 4
    BY <1>0 DEF Marker
  <2> QED BY <2>1 DEF CommandInv, ParserOK, EndIsWhole
<1> QED BY <1>1, <1>2, <1>3 DEF CommandInv, RingOK, ReadersOK

LEMMA CommandStart == CommandInit => CommandInv
<1> SUFFICES ASSUME CommandInit PROVE CommandInv
  OBVIOUS
<1>1. PICK output \in Seq(STRING \ {"x", "h"}) : stream = output \o <<"n">> \o Marker \o <<"h">>
  BY OutputsAssumption DEF CommandInit
<1>2. StreamOK
  <2> DEFINE n == Len(output)
             s1 == output \o <<"n">>
             s2 == s1 \o <<"m", "x">>
  <2>1. output \in Seq(Symbols)
    <3>1. STRING \ {"x", "h"} \subseteq Symbols
      BY DEF Symbols
    <3> QED BY <3>1, SeqMonotonic
  <2>2. n \in Nat /\ \A i \in 1..n : output[i] \notin {"x", "h"}
    BY <1>1, LenProperties, ElementOfSeq
  <2>3. /\ <<"n">> \in Seq(Symbols) /\ Len(<<"n">>) = 1 /\ <<"n">>[1] = "n"
        /\ <<"m", "x">> \in Seq(Symbols) /\ Len(<<"m", "x">>) = 2
        /\ <<"m", "x">>[1] = "m" /\ <<"m", "x">>[2] = "x"
        /\ <<"h">> \in Seq(Symbols) /\ Len(<<"h">>) = 1 /\ <<"h">>[1] = "h"
    BY DEF Symbols
  <2>4. s1 \in Seq(Symbols) /\ Len(s1) = n + 1
        /\ \A i \in 1..(n + 1) : s1[i] = IF i <= n THEN output[i] ELSE <<"n">>[i - n]
    BY <2>1, <2>2, <2>3, ConcatProperties
  <2>5. s2 \in Seq(Symbols) /\ Len(s2) = n + 3
        /\ \A i \in 1..(n + 3) : s2[i] = IF i <= n + 1 THEN s1[i] ELSE <<"m", "x">>[i - (n + 1)]
    <3> HIDE DEF s1
    <3>1. Len(s1) + Len(<<"m", "x">>) = n + 3
      BY <2>2, <2>3, <2>4
    <3> QED BY <2>3, <2>4, <3>1, ConcatProperties
  <2> HIDE DEF s1, s2
  <2>6. stream \in Seq(Symbols) /\ Len(stream) = n + 4
        /\ \A i \in 1..(n + 4) : stream[i] = IF i <= n + 3 THEN s2[i] ELSE <<"h">>[i - (n + 3)]
    <3>1. stream = s2 \o <<"h">>
      BY <1>1 DEF s1, s2, Marker
    <3>2. Len(s2) + Len(<<"h">>) = n + 4
      BY <2>2, <2>3, <2>5
    <3> QED BY <2>3, <2>5, <3>1, <3>2, ConcatProperties
  <2>7. \A i \in 1..n : stream[i] = output[i]
    BY <2>2, <2>4, <2>5, <2>6
  <2>8. stream[n + 1] = "n" 
    <3>1. n + 1 \in 1..(n + 4) /\ n + 1 \in 1..(n + 3) /\ n + 1 \in 1..(n + 1)
          /\ n + 1 <= n + 3 /\ ~(n + 1 <= n) /\ (n + 1) - n = 1 /\ n + 1 <= n + 1
      BY <2>2
    <3> QED BY <2>3, <2>4, <2>5, <2>6, <3>1
  <2>9. stream[n + 2] = "m" /\ stream[n + 3] = "x"
    <3>1. n + 2 \in 1..(n + 4) /\ n + 2 \in 1..(n + 3) /\ n + 2 <= n + 3
          /\ ~(n + 2 <= n + 1) /\ (n + 2) - (n + 1) = 1
          /\ n + 3 \in 1..(n + 4) /\ n + 3 \in 1..(n + 3) /\ n + 3 <= n + 3
          /\ ~(n + 3 <= n + 1) /\ (n + 3) - (n + 1) = 2
      BY <2>2
    <3> QED BY <2>3, <2>5, <2>6, <3>1
  <2>10. stream[n + 4] = "h"
    <3>1. n + 4 \in 1..(n + 4) /\ ~(n + 4 <= n + 3) /\ (n + 4) - (n + 3) = 1
      BY <2>2
    <3> QED BY <2>3, <2>6, <3>1
  <2> HIDE DEF n
  <2>11. ASSUME NEW i \in 1..(n + 2) PROVE stream[i] \notin {"x", "h"}
    <3>1. i \in 1..n \/ i = n + 1 \/ i = n + 2
      BY <2>2
    <3> QED BY <2>2, <2>7, <2>8, <2>9, <3>1
  <2>12. /\ Len(stream) - 3 = n + 1 /\ Len(stream) - 2 = n + 2 /\ Len(stream) - 1 = n + 3
         /\ Len(stream) >= 4
    BY <2>2, <2>6
  <2> QED BY <2>6, <2>8, <2>9, <2>10, <2>11, <2>12 DEF StreamOK
<1>3. Len(stream) \in Nat /\ BytesBefore(0) = 0 /\ 0 \in Ends /\ Len(stream) >= 4
  BY <1>2, LenProperties, BytesBeforeFacts, EndsFacts DEF StreamOK
<1>4. Len(parseBuffer) = 0 /\ Len(ring) = 0 /\ Shown = 0
  <2>1. parseBuffer = <<>> /\ ring = <<>> /\ sent = 0
    BY DEF CommandInit
  <2>2. Len(parseBuffer) = 0 /\ Len(ring) = 0
    BY <2>1
  <2>3. 0 - 0 = 0
    OBVIOUS
  <2>4. Shown = 0
    BY <2>1, <2>2, <2>3, Zenon DEF Shown
  <2> QED BY <2>2, <2>4
<1>5. ParserOK
  <2>1. SubSeq(stream, 0 + 1, 0) = <<>>
    BY <1>2 DEF StreamOK
  <2>2. sent = 0 /\ commandStatus = "running" /\ parseBuffer = <<>> /\ nextOffset = 0
    BY DEF CommandInit
  <2>3. sent \in 0..Len(stream) /\ sent < Len(stream) /\ Len(parseBuffer) \in 0..sent
    BY <1>3, <1>4, <2>2
  <2>4. parseBuffer = SubSeq(stream, Shown + 1, sent)
    BY <1>4, <2>1, <2>2
  <2>5. Shown <= Len(stream) - 3 /\ nextOffset = BytesBefore(Shown)
    BY <1>3, <1>4, <2>2
  <2> QED BY <2>2, <2>3, <2>4, <2>5 DEF ParserOK
<1>6. RingOK
  <2>1. Segment(0, 0) = <<>>
    BY DEF Segment
  <2>2. ring = <<>> /\ nextOffset = 0 /\ outputLost = FALSE
    BY DEF CommandInit
  <2>3. nextOffset - Len(ring) = 0 /\ ~(nextOffset > Len(ring)) /\ Len(ring) \in 0..MaxRing
    BY <1>4, <2>2, RingAssumption
  <2>4. outputLost \in BOOLEAN
    BY <2>2
  <2> QED BY <1>3, <2>1, <2>2, <2>3, <2>4 DEF RingOK, LossIsMarked
<1>7. ReadersOK
  BY <1>3 DEF CommandInit, ReadersOK, NoMissedActivity, PageOK, NoPage
<1> QED BY <1>2, <1>5, <1>6, <1>7 DEF CommandInv

(* appendOutput: what is dropped of the ring ends with a code point.       *)
LEMMA AppendOutputKeeps ==
  ASSUME stream \in Seq(Symbols), RingOK, NEW i \in Nat, NEW n \in Nat, i + n <= Len(stream),
         nextOffset = BytesBefore(i), AppendOutput(i, n), stream' = stream
  PROVE  /\ RingOK' /\ nextOffset' = BytesBefore(i + n) /\ nextOffset <= nextOffset'
         /\ nextOffset' \in Nat /\ nextOffset \in Nat
         /\ n = 0 => nextOffset' = nextOffset
<1> DEFINE e == nextOffset - Len(ring)
           next == BytesBefore(i + n)
           combined == ring \o Bytes(i, n)
           fits == {k \in Boundaries(combined) : Len(combined) - k <= MaxRing}
           over == Min(fits)
<1>0. /\ Len(stream) \in Nat /\ i \in 0..Len(stream) /\ i + n \in 0..Len(stream)
      /\ e \in Ends /\ e \in Nat /\ nextOffset \in Nat /\ next \in Ends /\ next \in Nat
      /\ e <= nextOffset /\ MaxRing \in Nat /\ ring = Segment(e, nextOffset)
      /\ Len(ring) \in Nat
  BY LenProperties, EndsFacts, RingAssumption DEF RingOK
<1>1. nextOffset <= next
  <2>1. CASE n = 0
    <3>1. i + n = i
      BY <2>1
    <3> QED BY <1>0, <3>1
  <2>2. CASE n # 0
    <3>1. i < i + n
      BY <2>2
    <3> QED BY <1>0, <3>1, BytesBeforeGrows
  <2> QED BY <2>1, <2>2
<1>2. Bytes(i, n) = Segment(nextOffset, next)
  BY BytesAre
<1>3. combined = Segment(e, next)
  <2>1. ring = Segment(e, nextOffset) /\ Bytes(i, n) = Segment(nextOffset, next)
        /\ e \in Nat /\ nextOffset \in Nat /\ next \in Nat /\ e <= nextOffset /\ nextOffset <= next
    BY <1>0, <1>1, <1>2
  <2> HIDE DEF e, next
  <2>2. Segment(e, nextOffset) \o Segment(nextOffset, next) = Segment(e, next)
    BY <2>1, SegmentConcat
  <2> QED BY <2>1, <2>2, Zenon
<1>4. Len(Bytes(i, n)) = next - nextOffset
  <2> HIDE DEF next
  <2> QED BY <1>0, <1>1, <1>2, SegmentFacts
<1>5. Len(combined) = next - e /\ Boundaries(combined) = {k \in 0..(next - e) : e + k \in Ends}
  <2> HIDE DEF e, next
  <2>1. e <= next
    BY <1>0, <1>1
  <2> HIDE DEF combined
  <2> QED BY <1>0, <1>3, <2>1, SegmentFacts, BoundariesAre
<1> HIDE DEF combined, e, next
<1>6. over \in fits
  <2>1. e + (next - e) = next /\ next - e \in 0..(next - e) /\ (next - e) - (next - e) <= MaxRing
    BY <1>0, <1>1
  <2>2. next - e \in fits
    BY <1>0, <1>5, <2>1
  <2>3. fits \subseteq Nat
    BY <1>5
  <2> HIDE DEF fits
  <2> QED BY <2>2, <2>3, MinFacts
<1> HIDE DEF over
<1>7. over \in Nat /\ over <= next - e /\ e + over \in Ends /\ (next - e) - over <= MaxRing
  BY <1>5, <1>6
<1>8. /\ nextOffset' = nextOffset + Len(Bytes(i, n))
      /\ ring' = SubSeq(combined, over + 1, Len(combined))
      /\ outputLost' = (outputLost \/ over > 0)
  BY DEF AppendOutput, combined, over
<1>9. nextOffset' = next
  BY <1>0, <1>1, <1>4, <1>8
<1>10. ring' = Segment(e + over, next)
  <2>1. Cut(Segment(e, next), over, next - e) = Segment(e + over, e + (next - e))
    <3>1. e <= next /\ next - e \in Nat /\ next - e <= next - e
      BY <1>0, <1>1
    <3> QED BY <1>0, <1>7, <3>1, SegmentSub
  <2>2. e + (next - e) = next
    BY <1>0
  <2>3. ring' = Cut(Segment(e, next), over, next - e)
    BY <1>3, <1>5, <1>8 DEF Cut
  <2> QED BY <2>1, <2>2, <2>3
<1>11. Len(ring') = next - (e + over) /\ e + over \in Nat /\ e + over <= next
  <2>1. e + over \in Nat /\ e + over <= next
    BY <1>0, <1>7
  <2> QED BY <1>0, <1>10, <2>1, SegmentFacts
<1>12. nextOffset' - Len(ring') = e + over /\ Len(ring') \in 0..MaxRing
  BY <1>0, <1>7, <1>9, <1>11
<1>13. ASSUME nextOffset' > Len(ring') PROVE outputLost'
  <2>1. e + over > 0
    BY <1>0, <1>9, <1>11, <1>13
  <2>2. CASE over > 0
    BY <1>8, <2>2
  <2>3. CASE ~(over > 0)
    <3>1. nextOffset > Len(ring)
      BY <1>0, <1>7, <2>1, <2>3 DEF e
    <3> QED BY <1>8, <3>1 DEF RingOK, LossIsMarked
  <2> QED BY <2>2, <2>3
<1>14. outputLost' \in BOOLEAN
  BY <1>8
<1>15. RingOK'
  <2>1. Ends' = Ends /\ \A a, b : Segment(a, b)' = Segment(a, b)
    BY StreamStays
  <2>2. nextOffset' \in Ends' /\ Len(ring') \in 0..MaxRing /\ nextOffset' - Len(ring') \in Ends'
    BY <1>0, <1>7, <1>9, <1>12, <2>1
  <2>3. ring' = Segment(nextOffset' - Len(ring'), nextOffset')
    BY <1>9, <1>10, <1>12
  <2>4. (ring = Segment(nextOffset - Len(ring), nextOffset))'
    BY <2>3, StreamStays DEF Segment, ByteAt
  <2>5. LossIsMarked'
    BY <1>13 DEF LossIsMarked
  <2> QED BY <1>14, <2>2, <2>4, <2>5 DEF RingOK
<1>16. n = 0 => nextOffset' = nextOffset
  <2>1. n = 0 => i + n = i
    OBVIOUS
  <2> QED BY <1>9, <2>1 DEF next
<1> QED BY <1>0, <1>1, <1>9, <1>15, <1>16 DEF next

(* finish of a waitForActivity.                                            *)
LEMMA ActivityKeeps ==
  ASSUME stream \in Seq(Symbols), RingOK', stream' = stream, NEW max \in Nat \ {0}, Activity(max),
         nextOffset' \in Nat,
         baseline = -1 \/ (baseline \in Ends /\ baseline <= nextOffset')
  PROVE  PageOK(page)' /\ baseline' = -1
<1> DEFINE e == nextOffset' - Len(ring')
           from == Max({baseline, e})
<1>0. Ends' = Ends /\ \A a, b : Segment(a, b)' = Segment(a, b)
  BY StreamStays
<1>1. nextOffset' \in Ends /\ e \in Ends /\ ring' = Segment(e, nextOffset')
      /\ Len(ring') \in 0..MaxRing
  <2>1. (ring = Segment(nextOffset - Len(ring), nextOffset))'
    BY DEF RingOK
  <2>2. ring' = Segment(e, nextOffset')
    BY <2>1, StreamStays DEF Segment, ByteAt
  <2> QED BY <1>0, <2>2 DEF RingOK
<1>2. page' = IF baseline = -1 THEN NoPage ELSE Snapshot(ring', nextOffset', from, max)
  BY DEF Activity
<1>3. baseline' = -1
  BY DEF Activity
<1>4. CASE baseline = -1
  <2>1. page' = [kind |-> "none"]
    BY <1>2, <1>4 DEF NoPage
  <2>2. PageOK(page')
    BY <2>1 DEF PageOK
  <2> QED BY <1>3, <2>2 DEF PageOK
<1>5. CASE baseline # -1
  <2>0. baseline \in Nat /\ e \in Nat /\ Len(ring') \in Nat /\ e <= nextOffset'
    <3>1. baseline \in Nat /\ e \in Nat
      <4> HIDE DEF e
      <4> QED BY <1>1, <1>5, EndsFacts
    <3>2. Len(ring') \in Nat
      BY <1>1, RingAssumption
    <3>3. nextOffset' - Len(ring') <= nextOffset'
      BY <3>2
    <3> QED BY <3>1, <3>2, <3>3
  <2>1. from \in {baseline, e}
    <3>1. CASE baseline <= e
      <4> DEFINE S == {baseline, e}
      <4>1. S \subseteq Int /\ e \in S /\ \A y \in S : y <= e
        BY <2>0, <3>1
      <4> HIDE DEF S, e
      <4>2. Max(S) = e
        BY <4>1, MaxIs
      <4> QED BY <4>2 DEF S
    <3>2. CASE ~(baseline <= e)
      <4> DEFINE S == {baseline, e}
      <4>1. S \subseteq Int /\ baseline \in S /\ \A y \in S : y <= baseline
        BY <2>0, <3>2
      <4> HIDE DEF S, e
      <4>2. Max(S) = baseline
        BY <4>1, MaxIs
      <4> QED BY <4>2 DEF S
    <3> QED BY <3>1, <3>2
  <2>2. from \in Ends /\ from <= nextOffset'
    BY <1>1, <1>5, <2>0, <2>1
  <2>3. page' = Snapshot(Segment(e, nextOffset'), nextOffset', from, max)
    BY <1>1, <1>2, <1>5
  <2> HIDE DEF e, from
  <2>4. PageOK(page')
    BY <1>1, <2>0, <2>2, <2>3, SnapshotIs
  <2> QED BY <1>3, <2>4 DEF PageOK
<1> QED BY <1>3, <1>4, <1>5

LEMMA AppendedKeeps ==
  ASSUME CommandInv, commandStatus = "running", commandStatus' \in {"running", "over"},
         NEW i \in Nat, NEW n \in Nat, i + n <= Len(stream), nextOffset = BytesBefore(i),
         Appended(i, n), stream' = stream, kept' = kept, cursor' = cursor
  PROVE  RingOK' /\ ReadersOK' /\ nextOffset' = BytesBefore(i + n)
<1>1. /\ RingOK' /\ nextOffset' = BytesBefore(i + n) /\ nextOffset <= nextOffset'
      /\ nextOffset' \in Nat /\ nextOffset \in Nat
      /\ n = 0 => nextOffset' = nextOffset
  BY AppendOutputKeeps DEF Appended, CommandInv, StreamOK
<1>2. stream \in Seq(Symbols) /\ Ends' = Ends /\ cursor \in Nat /\ nextOffset \in Ends
  BY StreamStays, EndsFacts DEF CommandInv, StreamOK, ReadersOK, RingOK
<1>3. kept' \in {"commands", "expired", "none"} /\ cursor' \in Ends' /\ cursor' <= nextOffset'
  BY <1>1, <1>2 DEF CommandInv, ReadersOK
<1>4. NoMissedActivity' /\ PageOK(page)'
  <2>1. CASE n > 0 \/ commandStatus' = "over"
    <3>1. Activity(Unread) /\ Unread \in Nat \ {0}
      BY <2>1 DEF Appended, Unread
    <3>2. baseline = -1 \/ (baseline \in Ends /\ baseline <= nextOffset')
      BY <1>1, <1>2 DEF CommandInv, ReadersOK, NoMissedActivity
    <3>3. PageOK(page)' /\ baseline' = -1
      BY <1>1, <1>2, <3>1, <3>2, ActivityKeeps
    <3> QED BY <3>3 DEF NoMissedActivity
  <2>2. CASE ~(n > 0 \/ commandStatus' = "over")
    <3>1. page' = NoPage /\ baseline' = baseline /\ commandStatus' = "running" /\ n = 0
      BY <2>2 DEF Appended
    <3> QED BY <1>1, <3>1 DEF NoMissedActivity, PageOK, NoPage, CommandInv, ReadersOK
  <2> QED BY <2>1, <2>2
<1> QED BY <1>1, <1>3, <1>4 DEF ReadersOK

(* What the parser looks at: symbols of the stream from one place on.      *)
LEMMA BufferFacts ==
  ASSUME StreamOK, NEW i \in Nat, NEW k \in Nat, i <= k, k <= Len(stream)
  PROVE  /\ SubSeq(stream, i + 1, k) \in Seq(Symbols)
         /\ Len(SubSeq(stream, i + 1, k)) = k - i
         /\ \A j \in 1..(k - i) : SubSeq(stream, i + 1, k)[j] = stream[i + j]
<1>1. stream \in Seq(Symbols) /\ Len(stream) \in Nat
  BY LenProperties DEF StreamOK
<1>2. i + 1 \in 1..(Len(stream) + 1) /\ k \in i..Len(stream)
  BY <1>1
<1>3. \A j \in 1..(k - i) : i + j \in 1..Len(stream) /\ stream[i + j] \in Symbols
  BY <1>1, ElementOfSeq
<1>4. SubSeq(stream, i + 1, k) = [j \in 1..(k - i) |-> stream[i + j]]
  BY <1>1, <1>2
<1> QED BY <1>3, <1>4

(* handleTerminalData's loop: only the end of what has arrived that may be *)
(* the start of the marker is kept back.                                   *)
LEMMA PrefixFacts ==
  ASSUME NEW buffer \in Seq(Symbols)
  PROVE  /\ MarkerPrefixSuffixLength(buffer) \in 0..Len(buffer)
         /\ (Len(buffer) > 0 /\ buffer[Len(buffer)] = "m") => MarkerPrefixSuffixLength(buffer) > 0
<1> DEFINE n == Len(buffer)
           bound == Min({n, Len(Marker) - 1})
           S == {k \in 0..bound : SubSeq(buffer, n - k + 1, n) = SubSeq(Marker, 1, k)}
<1>0. n \in Nat /\ Len(Marker) - 1 = 1
  BY LenProperties DEF Marker
<1>1. bound = IF n = 0 THEN 0 ELSE 1
  <2> DEFINE T == {n, Len(Marker) - 1}
  <2>1. CASE n = 0
    <3>1. T \subseteq Int /\ n \in T /\ \A y \in T : n <= y
      BY <1>0, <2>1
    <3> HIDE DEF T, n
    <3>2. Min(T) = n
      BY <3>1, MinIs
    <3> QED BY <2>1, <3>2 DEF T
  <2>2. CASE n # 0
    <3>0. T = {n, 1} /\ n >= 1
      <4>1. n >= 1
        <5> HIDE DEF n
        <5> QED BY <1>0, <2>2
      <4> QED BY <1>0, <4>1
    <3>1. T \subseteq Int /\ 1 \in T /\ \A y \in T : 1 <= y
      <4> HIDE DEF T, n
      <4> QED BY <1>0, <3>0
    <3> HIDE DEF T, n
    <3>2. Min(T) = 1
      BY <3>1, MinIs
    <3> QED BY <2>2, <3>2 DEF T
  <2> QED BY <2>1, <2>2
<1>2. MarkerPrefixSuffixLength(buffer) = Max(S)
  BY DEF MarkerPrefixSuffixLength
<1>3. 0 \in S
  <2>1. n - 0 + 1 = n + 1
    BY <1>0
  <2>2. SubSeq(buffer, n + 1, n) = <<>>
    BY <1>0
  <2>3. SubSeq(Marker, 1, 0) = <<>>
    BY DEF Marker
  <2> HIDE DEF n, bound
  <2>4. SubSeq(buffer, n - 0 + 1, n) = SubSeq(Marker, 1, 0)
    BY <2>1, <2>2, <2>3
  <2> QED BY <1>0, <1>1, <2>4
<1>4. S \subseteq Int /\ \A y \in S : y <= bound
  <2> HIDE DEF bound
  <2> QED BY <1>1
<1>5. Max(S) \in S /\ \A y \in S : y <= Max(S)
  <2>1. bound \in Int
    BY <1>1
  <2> HIDE DEF S, bound
  <2> QED BY <1>3, <1>4, <2>1, MaxFacts
<1>6. Max(S) \in 0..n
  <2>1. 0..bound \subseteq 0..n
    <3> HIDE DEF bound
    <3> QED BY <1>0, <1>1
  <2> QED BY <1>5, <2>1
<1>7. ASSUME n > 0, buffer[n] = "m" PROVE Max(S) > 0
  <2>1. SubSeq(Marker, 1, 1) = <<"m">>
    <3>1. Marker \in Seq(Symbols) /\ Len(Marker) = 2 /\ Marker[1] = "m"
      BY DEF Marker, Symbols
    <3>2. SubSeq(Marker, 1, 1) = [i \in 1..1 |-> Marker[1]]
      BY <3>1
    <3>3. [i \in 1..1 |-> "m"] = <<"m">>
      OBVIOUS
    <3> QED BY <3>1, <3>2, <3>3
  <2>2. SubSeq(buffer, n, n) = <<"m">>
    <3>1. SubSeq(buffer, n, n) = [i \in 1..1 |-> buffer[n]]
      BY <1>0, <1>7
    <3> QED BY <1>7, <3>1
  <2>3. n - 1 + 1 = n
    BY <1>0
  <2> HIDE DEF n, bound
  <2>4. SubSeq(buffer, n - 1 + 1, n) = SubSeq(Marker, 1, 1)
    BY <2>1, <2>2, <2>3
  <2>5. 1 \in S
    BY <1>0, <1>1, <1>7, <2>4
  <2> HIDE DEF S
  <2>6. Max(S) \in Int /\ 1 <= Max(S)
    BY <1>4, <1>5, <2>5
  <2> QED BY <2>6
<1> QED BY <1>2, <1>6, <1>7

(* Where the marker is found.                                              *)
LEMMA EndFacts ==
  ASSUME NEW buffer \in Seq(Symbols)
  PROVE  /\ EndIndices(buffer) \subseteq Nat
         /\ \A k \in Nat : k \in EndIndices(buffer)
                             <=> k + 2 <= Len(buffer) /\ buffer[k + 1] = "m" /\ buffer[k + 2] = "x"
<1> DEFINE n == Len(buffer)
<1>0. n \in Nat /\ Len(Marker) = 2 /\ Marker = <<"m", "x">>
  BY LenProperties DEF Marker
<1>1. EndIndices(buffer) = {k \in 0..(n - 2) : SubSeq(buffer, k + 1, k + 2) = <<"m", "x">>}
  BY <1>0 DEF EndIndices
<1>2. ASSUME NEW k \in 0..(n - 2)
      PROVE  SubSeq(buffer, k + 1, k + 2) = <<"m", "x">> <=> buffer[k + 1] = "m" /\ buffer[k + 2] = "x"
  <2>1. SubSeq(buffer, k + 1, k + 2) = [i \in 1..2 |-> buffer[k + i]]
    BY <1>0
  <2>2. ASSUME buffer[k + 1] = "m", buffer[k + 2] = "x"
        PROVE  [i \in 1..2 |-> buffer[k + i]] = <<"m", "x">>
    <3>1. [i \in 1..2 |-> buffer[k + i]] \in Seq(Symbols) /\ <<"m", "x">> \in Seq(Symbols)
      <4>1. \A i \in 1..2 : buffer[k + i] \in Symbols
        BY <2>2 DEF Symbols
      <4> QED BY <4>1 DEF Symbols
    <3> QED BY <2>2, <3>1
  <2>3. ASSUME [i \in 1..2 |-> buffer[k + i]] = <<"m", "x">>
        PROVE  buffer[k + 1] = "m" /\ buffer[k + 2] = "x"
    <3>1. [i \in 1..2 |-> buffer[k + i]][1] = "m" /\ [i \in 1..2 |-> buffer[k + i]][2] = "x"
      BY <2>3
    <3> QED BY <3>1
  <2> QED BY <2>1, <2>2, <2>3
<1>3. \A k \in Nat : k \in 0..(n - 2) <=> k + 2 <= n
  BY <1>0
<1> QED BY <1>1, <1>2, <1>3

(* handleTerminalData: whatever the chunks, the marker is found when it is *)
(* complete, and nothing of it has been handed on by then.                 *)
LEMMA DataKeeps ==
  ASSUME CommandInv, NEW n \in Nat \ {0}, Data(n)
  PROVE  CommandInv'
<1> DEFINE L == Len(stream)
           from == sent - Len(parseBuffer)
           buffer == parseBuffer \o SubSeq(stream, sent + 1, sent + n)
           ends == EndIndices(buffer)
           end == Min(ends)
           keep == MarkerPrefixSuffixLength(buffer)
           cut == Len(buffer) - keep
           shown == IF end > 0 /\ buffer[end] = "n" THEN end - 1 ELSE end
<1>0. /\ commandStatus = "running" /\ sent + n <= L /\ sent' = sent + n
      /\ stream' = stream /\ kept' = kept /\ cursor' = cursor
      /\ \/ /\ ends = {} /\ commandStatus' = "running"
            /\ parseBuffer' = SubSeq(buffer, cut + 1, Len(buffer))
            /\ Appended(from, cut)
         \/ /\ ends # {} /\ Last(buffer) # "h"
            /\ parseBuffer' = buffer /\ page' = NoPage
            /\ UNCHANGED <<ring, nextOffset, outputLost, commandStatus, baseline>>
         \/ /\ ends # {} /\ Last(buffer) = "h"
            /\ commandStatus' = "over" /\ parseBuffer' = <<>>
            /\ Appended(from, shown)
  BY DEF Data, outputVars
<1>1. /\ stream \in Seq(Symbols) /\ L \in Nat /\ L >= 4 /\ sent \in Nat /\ sent <= L
      /\ Len(parseBuffer) \in 0..sent /\ sent < L /\ parseBuffer = SubSeq(stream, from + 1, sent)
      /\ from \in Nat /\ from <= sent /\ from <= L - 3 /\ nextOffset = BytesBefore(from)
  <2>1. stream \in Seq(Symbols) /\ L \in Nat /\ L >= 4
    BY LenProperties DEF CommandInv, StreamOK
  <2>2. sent \in 0..L /\ Len(parseBuffer) \in 0..sent /\ sent < L
        /\ parseBuffer = SubSeq(stream, from + 1, sent) /\ from <= L - 3
        /\ nextOffset = BytesBefore(from)
    BY <1>0 DEF CommandInv, ParserOK, Shown
  <2> HIDE DEF L
  <2> QED BY <2>1, <2>2
<1>s. StreamOK /\ StreamOK'
  BY <1>0 DEF CommandInv, StreamOK
<1> HIDE DEF from
<1>2. buffer = SubSeq(stream, from + 1, sent + n)
  <2> DEFINE a == SubSeq(stream, from + 1, sent)
             b == SubSeq(stream, sent + 1, sent + n)
             d == SubSeq(stream, from + 1, sent + n)
  <2>1. a \in Seq(Symbols) /\ Len(a) = sent - from
        /\ \A j \in 1..(sent - from) : a[j] = stream[from + j]
    BY <1>1, <1>s, BufferFacts
  <2>2. b \in Seq(Symbols) /\ Len(b) = n /\ \A j \in 1..n : b[j] = stream[sent + j]
    <3>1. sent <= sent + n /\ (sent + n) - sent = n /\ sent + n \in Nat
      BY <1>1
    <3> QED BY <1>0, <1>1, <1>s, <3>1, BufferFacts
  <2>3. d \in Seq(Symbols) /\ Len(d) = (sent + n) - from
        /\ \A j \in 1..((sent + n) - from) : d[j] = stream[from + j]
    <3>1. from <= sent + n /\ sent + n \in Nat
      BY <1>1
    <3> QED BY <1>0, <1>1, <1>s, <3>1, BufferFacts
  <2> HIDE DEF a, b, d
  <2>4. a \o b \in Seq(Symbols) /\ Len(a \o b) = (sent + n) - from
    <3>1. a \o b \in Seq(Symbols) /\ Len(a \o b) = (sent - from) + n
      BY <2>1, <2>2, ConcatProperties
    <3>2. (sent - from) + n = (sent + n) - from
      BY <1>1
    <3> QED BY <3>1, <3>2
  <2>5. \A j \in 1..((sent + n) - from) : (a \o b)[j] = d[j]
    <3> TAKE j \in 1..((sent + n) - from)
    <3>1. (a \o b)[j] = IF j <= sent - from THEN a[j] ELSE b[j - (sent - from)]
      <4>1. j \in 1..Len(a) + Len(b)
        <5>1. (sent + n) - from = (sent - from) + n
          BY <1>1
        <5> QED BY <2>1, <2>2, <5>1
      <4> QED BY <2>1, <2>2, <4>1, ConcatProperties
    <3>2. CASE j <= sent - from
      <4>1. j \in 1..(sent - from)
        BY <1>1, <3>2
      <4> QED BY <2>1, <2>3, <3>1, <3>2, <4>1
    <3>3. CASE ~(j <= sent - from)
      <4>1. j - (sent - from) \in 1..n /\ sent + (j - (sent - from)) = from + j
        BY <1>1, <3>3
      <4> QED BY <2>2, <2>3, <3>1, <3>3, <4>1
    <3> QED BY <3>2, <3>3
  <2>6. a \o b = d
    BY <2>3, <2>4, <2>5, SeqEqual
  <2> QED BY <1>0, <1>1, <2>6 DEF a, b, d
<1>b. PICK m \in Nat : m = sent + n /\ sent' = m
  BY <1>0, <1>1
<1>3. m \in Nat /\ m <= L /\ from < m /\ m \in 0..L
  <2> HIDE DEF buffer, L
  <2> QED BY <1>0, <1>1, <1>b
<1>4. /\ buffer \in Seq(Symbols) /\ Len(buffer) = m - from
      /\ \A j \in 1..(m - from) : buffer[j] = stream[from + j]
  <2>1. from <= m
    BY <1>1, <1>3
  <2> HIDE DEF buffer
  <2> QED BY <1>1, <1>2, <1>3, <1>b, <1>s, <2>1, BufferFacts
<1> HIDE DEF buffer
<1>a. /\ L \in Nat /\ L >= 4 /\ sent \in Nat /\ sent < L /\ from \in Nat /\ from <= sent /\ from <= L - 3
      /\ m \in Nat /\ m <= L /\ from < m /\ Len(buffer) = m - from
  BY <1>1, <1>3, <1>4
<1>5. Last(buffer) = stream[m]
  <2>1. Len(buffer) \in 1..(m - from) /\ from + Len(buffer) = m
    <3> HIDE DEF L
    <3> QED BY <1>a
  <2> QED BY <1>4, <2>1 DEF Last
<1>6. \A k \in Nat : k \in ends <=> k = (L - 3) - from /\ L - 1 <= m
  <2> TAKE k \in Nat
  <2>1. k \in ends <=> k + 2 <= Len(buffer) /\ buffer[k + 1] = "m" /\ buffer[k + 2] = "x"
    BY <1>4, EndFacts
  <2>2. ASSUME k \in ends PROVE k = (L - 3) - from /\ L - 1 <= m
    <3>1. k + 2 <= Len(buffer) /\ buffer[k + 2] = "x"
      BY <2>1, <2>2
    <3>2. k + 2 \in 1..(m - from) /\ from + (k + 2) \in 1..L /\ from + (k + 2) <= m
      <4> HIDE DEF L
      <4> QED BY <1>a, <3>1
    <3>3. stream[from + (k + 2)] = "x"
      BY <1>4, <3>1, <3>2
    <3>4. from + (k + 2) \notin 1..(L - 2) /\ from + (k + 2) # L
      BY <1>s, <3>3 DEF StreamOK
    <3>5. from + (k + 2) = L - 1
      BY <1>1, <3>2, <3>4
    <3> QED BY <1>1, <3>2, <3>5
  <2>3. ASSUME k = (L - 3) - from, L - 1 <= m PROVE k \in ends
    <3>1. k + 2 <= Len(buffer) /\ k + 1 \in 1..(m - from) /\ k + 2 \in 1..(m - from)
          /\ from + (k + 1) = L - 2 /\ from + (k + 2) = L - 1
      BY <1>1, <1>3, <1>4, <2>3
    <3>2. buffer[k + 1] = "m" /\ buffer[k + 2] = "x"
      BY <1>4, <1>s, <3>1 DEF StreamOK
    <3> QED BY <2>1, <3>1, <3>2
  <2> QED BY <2>2, <2>3
<1>7. CASE ends = {} /\ commandStatus' = "running"
           /\ parseBuffer' = SubSeq(buffer, cut + 1, Len(buffer)) /\ Appended(from, cut)
  <2>1. m <= L - 2
    <3>1. (L - 3) - from \in Nat
      BY <1>1
    <3>2. ~(L - 1 <= m)
      BY <1>6, <1>7, <3>1
    <3> QED BY <1>1, <1>3, <3>2
  <2>2. keep \in 0..Len(buffer) /\ (Len(buffer) > 0 /\ buffer[Len(buffer)] = "m" => keep > 0)
    BY <1>4, PrefixFacts
  <2> HIDE DEF keep
  <2>3. /\ cut \in Nat /\ cut <= Len(buffer) /\ from + cut = m - keep /\ Len(buffer) - cut = keep
        /\ from + cut <= m /\ from + cut <= L /\ from + cut \in Nat
    <3> HIDE DEF L
    <3> QED BY <1>a, <2>2
  <2>4. m = L - 2 => keep > 0
    <3>1. Len(buffer) > 0 /\ Last(buffer) = buffer[Len(buffer)]
      BY <1>1, <1>3, <1>4 DEF Last
    <3>2. m = L - 2 => stream[m] = "m"
      BY <1>s DEF StreamOK
    <3> QED BY <1>5, <2>2, <3>1, <3>2
  <2>5. RingOK' /\ ReadersOK' /\ nextOffset' = BytesBefore(from + cut)
    BY <1>0, <1>1, <1>7, <2>3, AppendedKeeps
  <2>6. parseBuffer' = SubSeq(stream, (from + cut) + 1, m) /\ Len(parseBuffer') = m - (from + cut)
    <3> HIDE DEF cut
    <3> DEFINE p == SubSeq(stream, (from + cut) + 1, m)
               q == SubSeq(buffer, cut + 1, Len(buffer))
    <3>1. p \in Seq(Symbols) /\ Len(p) = m - (from + cut)
          /\ \A j \in 1..(m - (from + cut)) : p[j] = stream[(from + cut) + j]
      BY <1>3, <1>s, <2>3, BufferFacts
    <3>2. q = [j \in 1..(Len(buffer) - cut) |-> buffer[cut + j]]
      BY <1>4, <2>3
    <3>3. Len(buffer) - cut = m - (from + cut)
      BY <1>1, <1>3, <1>4, <2>3
    <3>4. p = [j \in 1..(m - (from + cut)) |-> stream[(from + cut) + j]]
      <4> HIDE DEF p
      <4>1. p = [j \in 1..Len(p) |-> p[j]]
        BY <3>1
      <4> QED BY <3>1, <4>1
    <3>5. \A j \in 1..(m - (from + cut)) : buffer[cut + j] = stream[(from + cut) + j]
      <4> TAKE j \in 1..(m - (from + cut))
      <4>1. cut + j \in 1..(m - from) /\ from + (cut + j) = (from + cut) + j
        <5> HIDE DEF L
        <5> QED BY <1>a, <2>3
      <4> QED BY <1>4, <4>1
    <3> HIDE DEF p, q
    <3>6. p = q
      BY <3>2, <3>3, <3>4, <3>5
    <3> QED BY <1>7, <3>1, <3>6 DEF p, q
  <2>7. ParserOK'
    <3>0. PICK p : p = parseBuffer'
      OBVIOUS
    <3>1. Len(p) = keep /\ m - Len(p) = from + cut
      <4>1. Len(p) = m - (from + cut)
        BY <2>6, <3>0
      <4> HIDE DEF L, cut
      <4> QED BY <1>a, <2>2, <2>3, <4>1
    <3>2. from + cut <= L - 3
      <4> HIDE DEF L, cut
      <4> QED BY <1>a, <2>1, <2>2, <2>3, <2>4
    <3>3. Len(p) \in 0..m /\ m < L
      <4>1. keep <= m
        <5> HIDE DEF L, cut
        <5> QED BY <1>a, <2>2
      <4> HIDE DEF L, cut
      <4> QED BY <1>a, <2>1, <2>2, <3>1, <4>1
    <3>4. Shown' = from + cut
      BY <1>b, <3>0, <3>1 DEF Shown
    <3>5. BytesBefore(from + cut) = BytesBefore(Shown)'
      <4>1. BytesBefore(Shown') = BytesBefore(Shown)'
        BY <1>0 DEF BytesBefore, FoldLeft, MapThenFoldSet
      <4> QED BY <3>4, <4>1
    <3>6. parseBuffer' = SubSeq(stream', Shown' + 1, sent') /\ Len(parseBuffer') \in 0..sent'
          /\ sent' \in 0..Len(stream') /\ sent' < Len(stream') /\ Shown' <= Len(stream') - 3
      BY <1>0, <1>3, <1>b, <2>6, <3>0, <3>2, <3>3, <3>4
    <3>7. nextOffset' = BytesBefore(Shown)'
      BY <2>5, <3>5
    <3> QED BY <1>7, <3>6, <3>7 DEF ParserOK
  <2> QED BY <1>s, <2>5, <2>7 DEF CommandInv
<1>8. CASE ends # {} /\ Last(buffer) # "h" /\ parseBuffer' = buffer /\ page' = NoPage
           /\ UNCHANGED <<ring, nextOffset, outputLost, commandStatus, baseline>>
  <2>1. m < L
    <3>1. m # L
      BY <1>5, <1>8, <1>s DEF StreamOK
    <3> QED BY <1>1, <1>3, <3>1
  <2>2. Len(buffer) = m - from /\ m - Len(buffer) = from /\ Len(buffer) \in 0..m
    <3> HIDE DEF L
    <3> QED BY <1>a
  <2>3. Shown' = from
    BY <1>8, <1>b, <2>2 DEF Shown
  <2>4. nextOffset' = BytesBefore(Shown)'
    <3>1. BytesBefore(Shown') = BytesBefore(Shown)'
      BY <1>0 DEF BytesBefore, FoldLeft, MapThenFoldSet
    <3> QED BY <1>1, <1>8, <2>3, <3>1
  <2>5. ParserOK'
    <3>1. parseBuffer' = SubSeq(stream', Shown' + 1, sent')
      BY <1>0, <1>2, <1>8, <1>b, <2>3
    <3>2. Shown' <= Len(stream') - 3 /\ sent' < Len(stream') /\ sent' \in 0..Len(stream')
          /\ Len(parseBuffer') \in 0..sent'
      BY <1>0, <1>1, <1>3, <1>8, <1>b, <2>1, <2>2, <2>3
    <3>3. commandStatus' = "running"
      BY <1>0, <1>8
    <3> QED BY <2>4, <3>1, <3>2, <3>3 DEF ParserOK
  <2>6. RingOK'
    <3>1. (ring = Segment(nextOffset - Len(ring), nextOffset))'
      BY <1>0, <1>8, StreamStays DEF CommandInv, RingOK, Segment, ByteAt
    <3> QED BY <1>0, <1>8, <3>1, StreamStays DEF CommandInv, RingOK, LossIsMarked
  <2>7. ReadersOK'
    BY <1>0, <1>8, StreamStays DEF CommandInv, ReadersOK, NoMissedActivity, PageOK, NoPage
  <2> QED BY <1>s, <2>5, <2>6, <2>7 DEF CommandInv
<1>9. CASE ends # {} /\ Last(buffer) = "h" /\ commandStatus' = "over" /\ parseBuffer' = <<>>
           /\ Appended(from, shown)
  <2>1. PICK k \in Nat : k \in ends /\ ends = {k} /\ k = (L - 3) - from /\ L - 1 <= m
    <3>1. ends \subseteq Nat
      BY <1>4, EndFacts
    <3>2. PICK k \in ends : TRUE
      BY <1>9
    <3>3. \A j \in ends : j = (L - 3) - from /\ L - 1 <= m
      BY <1>6, <3>1
    <3> QED BY <3>1, <3>2, <3>3
  <2>2. end = k
    <3>1. ends \subseteq Int /\ k \in ends /\ \A y \in ends : k <= y
      BY <2>1
    <3> HIDE DEF ends
    <3> QED BY <3>1, MinIs
  <2> HIDE DEF end, ends
  <2>3. from + end = L - 3
    BY <1>1, <2>1, <2>2
  <2>4. shown \in Nat /\ from + shown \in {L - 4, L - 3}
    <3>1. CASE end > 0 /\ buffer[end] = "n"
      BY <1>1, <2>1, <2>2, <2>3, <3>1
    <3>2. CASE ~(end > 0 /\ buffer[end] = "n")
      BY <1>1, <2>1, <2>2, <2>3, <3>2
    <3> QED BY <3>1, <3>2
  <2> HIDE DEF shown
  <2>5. from + shown <= L
    BY <1>1, <2>4
  <2>6. RingOK' /\ ReadersOK' /\ nextOffset' = BytesBefore(from + shown)
    BY <1>0, <1>1, <1>9, <2>4, <2>5, AppendedKeeps
  <2>7. nextOffset' - BytesBefore(L - 4) \in {0, 1}
    <3>1. L - 3 \in 1..L /\ (L - 3) - 1 = L - 4 /\ L - 4 \in 0..L
      BY <1>1
    <3>2. BytesBefore(L - 3) = BytesBefore(L - 4) + Width(stream[L - 3]) /\ BytesBefore(L - 4) \in Nat
      BY <1>1, <3>1, BytesBeforeFacts
    <3>3. Width(stream[L - 3]) = 1
      BY <1>s DEF StreamOK, Width
    <3> QED BY <2>4, <2>6, <3>2, <3>3
  <2>8. BytesBefore(L - 4)' = BytesBefore(L - 4)
    <3>1. BytesBefore(L' - 4) = BytesBefore(L - 4)'
      BY <1>0 DEF BytesBefore, FoldLeft, MapThenFoldSet
    <3> QED BY <1>0, <3>1
  <2>9. ParserOK'
    <3>1. sent' \in 0..Len(stream') /\ Len(stream') = L
      BY <1>0, <1>3, <1>b
    <3>2. nextOffset' - BytesBefore(Len(stream) - 4)' \in {0, 1}
      BY <2>7, <2>8
    <3> QED BY <1>9, <3>1, <3>2 DEF ParserOK
  <2> QED BY <1>s, <2>6, <2>9 DEF CommandInv
<1> QED BY <1>0, <1>7, <1>8, <1>9

(* What leaves stream, parser and ring as they are.                        *)
LEMMA KeptBytes ==
  ASSUME CommandInv, UNCHANGED <<shellVars, outputVars, parseBuffer, commandStatus>>
  PROVE  StreamOK' /\ ParserOK' /\ RingOK' /\ Ends' = Ends
<1>1. stream' = stream /\ sent' = sent /\ parseBuffer' = parseBuffer
      /\ commandStatus' = commandStatus /\ nextOffset' = nextOffset /\ ring' = ring
      /\ outputLost' = outputLost
  BY DEF shellVars, outputVars
<1>2. StreamOK'
  BY <1>1 DEF CommandInv, StreamOK
<1>3. ParserOK'
  <2>1. Shown' = Shown
    BY <1>1 DEF Shown
  <2>2. BytesBefore(Shown)' = BytesBefore(Shown)
        /\ BytesBefore(Len(stream) - 4)' = BytesBefore(Len(stream) - 4)
    <3>1. BytesBefore(Shown') = BytesBefore(Shown)'
      BY <1>1 DEF BytesBefore, FoldLeft, MapThenFoldSet
    <3>2. BytesBefore(Len(stream') - 4) = BytesBefore(Len(stream) - 4)'
      BY <1>1 DEF BytesBefore, FoldLeft, MapThenFoldSet
    <3> QED BY <1>1, <2>1, <3>1, <3>2
  <2> QED BY <1>1, <2>1, <2>2 DEF CommandInv, ParserOK
<1>4. RingOK' /\ Ends' = Ends
  <2>1. Ends' = Ends
    BY <1>1, StreamStays
  <2>2. (ring = Segment(nextOffset - Len(ring), nextOffset))'
    BY <1>1, StreamStays DEF CommandInv, RingOK, Segment, ByteAt
  <2> QED BY <1>1, <2>1, <2>2 DEF CommandInv, RingOK, LossIsMarked
<1> QED BY <1>2, <1>3, <1>4

LEMMA ExitKeeps == ASSUME CommandInv, Exit PROVE CommandInv'
<1> DEFINE n == Len(parseBuffer)
<1>1. /\ commandStatus = "running" /\ commandStatus' = "over" /\ parseBuffer' = <<>>
      /\ Appended(sent - n, n) /\ stream' = stream /\ sent' = sent /\ kept' = kept /\ cursor' = cursor
  BY DEF Exit, shellVars
<1>2. Len(stream) \in Nat /\ sent \in 0..Len(stream) /\ n \in 0..sent /\ sent < Len(stream)
      /\ nextOffset = BytesBefore(sent - n)
  BY <1>1, LenProperties DEF CommandInv, StreamOK, ParserOK, Shown
<1> HIDE DEF n
<1>3. sent - n \in Nat /\ n \in Nat /\ (sent - n) + n = sent /\ sent <= Len(stream)
  BY <1>2
<1>4. RingOK' /\ ReadersOK'
  BY <1>1, <1>2, <1>3, AppendedKeeps
<1>5. StreamOK'
  BY <1>1 DEF CommandInv, StreamOK
<1>6. sent' # Len(stream') /\ sent' \in 0..Len(stream')
  BY <1>1, <1>2
<1>7. ParserOK'
  BY <1>1, <1>6 DEF ParserOK
<1> QED BY <1>4, <1>5, <1>7 DEF CommandInv

LEMMA RetireKeeps == ASSUME CommandInv, Retire PROVE CommandInv'
<1>1. StreamOK' /\ ParserOK' /\ RingOK' /\ Ends' = Ends
  BY KeptBytes DEF Retire
<1>2. ReadersOK'
  BY <1>1 DEF Retire, outputVars, CommandInv, ReadersOK, NoMissedActivity, PageOK, NoPage
<1> QED BY <1>1, <1>2 DEF CommandInv

(* What a reader may be answered by the ring as it is.                     *)
LEMMA ReadFacts ==
  ASSUME CommandInv, NEW offset \in Ends, offset <= nextOffset, NEW max \in Nat \ {0},
         NEW a, a = Snapshot(ring, nextOffset, offset, max)
  PROVE  /\ PageOK(a)
         /\ a.kind = "page" => offset + Len(a.bytes) \in Ends /\ offset + Len(a.bytes) <= nextOffset
         /\ a.kind = "OUTPUT_EXPIRED" => a.earliest \in Ends /\ a.earliest <= nextOffset
<1> DEFINE e == nextOffset - Len(ring)
<1>1. stream \in Seq(Symbols) /\ e \in Ends /\ nextOffset \in Ends /\ ring = Segment(e, nextOffset)
      /\ Len(ring) \in Nat /\ nextOffset \in Nat
  BY EndsFacts, RingAssumption DEF CommandInv, StreamOK, RingOK
<1>2. e <= nextOffset
  BY <1>1
<1> HIDE DEF e
<1>3. a = Snapshot(Segment(e, nextOffset), nextOffset, offset, max)
  BY <1>1
<1> QED BY <1>1, <1>2, <1>3, SnapshotIs

LEMMA GetOutputKeeps ==
  ASSUME CommandInv, NEW max \in Nat \ {0}, GetOutput(max) PROVE CommandInv'
<1>1. StreamOK' /\ ParserOK' /\ RingOK' /\ Ends' = Ends
  BY KeptBytes DEF GetOutput
<1>2. /\ page' = CASE kept = "commands" -> Snapshot(ring, nextOffset, cursor, max)
                   [] kept = "expired" -> [kind |-> "RETENTION_EXPIRED"]
                   [] OTHER -> [kind |-> "NOT_FOUND"]
      /\ cursor' = CASE page'.kind = "page" -> cursor + Len(page'.bytes)
                     [] page'.kind = "OUTPUT_EXPIRED" -> page'.earliest
                     [] OTHER -> cursor
      /\ UNCHANGED <<kept, baseline, nextOffset, commandStatus>>
  BY DEF GetOutput, outputVars
<1>3. PICK a : a = page'
  OBVIOUS
<1>4. cursor \in Ends /\ cursor <= nextOffset
  BY DEF CommandInv, ReadersOK
<1>5. /\ PageOK(a)
      /\ a.kind = "page" => cursor + Len(a.bytes) \in Ends /\ cursor + Len(a.bytes) <= nextOffset
      /\ a.kind = "OUTPUT_EXPIRED" => a.earliest \in Ends /\ a.earliest <= nextOffset
  <2>1. CASE kept = "commands"
    <3>1. a = Snapshot(ring, nextOffset, cursor, max)
      BY <1>2, <1>3, <2>1
    <3> QED BY <1>4, <3>1, ReadFacts
  <2>2. CASE kept # "commands"
    <3>1. a = [kind |-> "RETENTION_EXPIRED"] \/ a = [kind |-> "NOT_FOUND"]
      BY <1>2, <1>3, <2>2
    <3>2. a.kind \notin {"page", "OUTPUT_EXPIRED", "INVALID_ARGUMENT"}
      BY <3>1
    <3> QED BY <3>2 DEF PageOK
  <2> QED BY <2>1, <2>2
<1>6. cursor' \in Ends /\ cursor' <= nextOffset
  BY <1>2, <1>3, <1>4, <1>5
<1>7. PageOK(page)'
  <2>1. PageOK(page')
    BY <1>3, <1>5
  <2> QED BY <2>1 DEF PageOK
<1>8. NoMissedActivity'
  BY <1>2 DEF CommandInv, ReadersOK, NoMissedActivity
<1>9. kept' \in {"commands", "expired", "none"} /\ cursor' \in Ends' /\ cursor' <= nextOffset'
  BY <1>1, <1>2, <1>6 DEF CommandInv, ReadersOK
<1> QED BY <1>1, <1>7, <1>8, <1>9 DEF CommandInv, ReadersOK

LEMMA WaitForActivityKeeps == ASSUME CommandInv, WaitForActivity PROVE CommandInv'
<1>1. StreamOK' /\ ParserOK' /\ RingOK' /\ Ends' = Ends
  BY KeptBytes DEF WaitForActivity
<1>2. /\ baseline = -1
      /\ IF commandStatus = "running"
         THEN baseline' = nextOffset /\ page' = NoPage
         ELSE page' = Snapshot(ring, nextOffset, nextOffset, Unread) /\ UNCHANGED baseline
      /\ UNCHANGED <<kept, cursor, nextOffset, commandStatus>>
  BY DEF WaitForActivity, outputVars
<1>3. PageOK(page)' /\ NoMissedActivity'
  <2>1. CASE commandStatus = "running"
    BY <1>2, <2>1 DEF PageOK, NoPage, NoMissedActivity
  <2>2. CASE commandStatus # "running"
    <3>1. PICK a : a = page'
      OBVIOUS
    <3>2. a = Snapshot(ring, nextOffset, nextOffset, Unread)
      BY <1>2, <2>2, <3>1
    <3>3. nextOffset \in Ends /\ nextOffset <= nextOffset /\ Unread \in Nat \ {0}
      BY EndsFacts DEF CommandInv, RingOK, StreamOK, Unread
    <3>4. PageOK(page')
      BY <3>1, <3>2, <3>3, ReadFacts
    <3> QED BY <1>2, <2>2, <3>4 DEF PageOK, NoMissedActivity
  <2> QED BY <2>1, <2>2
<1>4. kept' \in {"commands", "expired", "none"} /\ cursor' \in Ends' /\ cursor' <= nextOffset'
  BY <1>1, <1>2 DEF CommandInv, ReadersOK
<1> QED BY <1>1, <1>3, <1>4 DEF CommandInv, ReadersOK

LEMMA WaitEndsKeeps == ASSUME CommandInv, WaitEnds PROVE CommandInv'
<1>1. StreamOK' /\ ParserOK' /\ RingOK' /\ Ends' = Ends
  BY KeptBytes DEF WaitEnds
<1>2. /\ Activity(Unread) /\ stream' = stream
      /\ UNCHANGED <<kept, cursor, nextOffset, commandStatus>>
  BY DEF WaitEnds, outputVars, shellVars
<1>3. stream \in Seq(Symbols) /\ nextOffset \in Ends /\ nextOffset \in Nat /\ Unread \in Nat \ {0}
  BY EndsFacts DEF CommandInv, StreamOK, RingOK, Unread
<1>4. baseline = -1 \/ (baseline \in Ends /\ baseline <= nextOffset')
  BY <1>2, <1>3 DEF CommandInv, ReadersOK, NoMissedActivity
<1>5. PageOK(page)' /\ baseline' = -1
  <2>1. nextOffset' \in Nat
    BY <1>2, <1>3
  <2> QED BY <1>1, <1>2, <1>3, <1>4, <2>1, ActivityKeeps
<1>6. kept' \in {"commands", "expired", "none"} /\ cursor' \in Ends' /\ cursor' <= nextOffset'
  BY <1>1, <1>2 DEF CommandInv, ReadersOK
<1> QED BY <1>1, <1>5, <1>6 DEF CommandInv, ReadersOK, NoMissedActivity

LEMMA CommandKeeps == ASSUME CommandInv, [CommandNext]_commandVars PROVE CommandInv'
<1>1. ASSUME NEW n \in 1..Len(stream), Data(n) PROVE CommandInv'
  <2>1. n \in Nat \ {0}
    BY LenProperties DEF CommandInv, StreamOK
  <2> QED BY <1>1, <2>1, DataKeeps
<1>2. CASE Exit
  BY <1>2, ExitKeeps
<1>3. CASE Retire
  BY <1>3, RetireKeeps
<1>4. ASSUME NEW max \in 1..MaxPage, GetOutput(max) PROVE CommandInv'
  <2>1. max \in Nat \ {0}
    BY PageAssumption
  <2> QED BY <1>4, <2>1, GetOutputKeeps
<1>5. CASE WaitForActivity
  BY <1>5, WaitForActivityKeeps
<1>6. CASE WaitEnds
  BY <1>6, WaitEndsKeeps
<1>7. CASE UNCHANGED commandVars
  <2>1. StreamOK' /\ ParserOK' /\ RingOK' /\ Ends' = Ends
    BY <1>7, KeptBytes DEF commandVars
  <2>2. ReadersOK'
    BY <1>7, <2>1 DEF commandVars, outputVars, CommandInv, ReadersOK, NoMissedActivity, PageOK
  <2> QED BY <2>1, <2>2 DEF CommandInv
<1> QED BY <1>1, <1>2, <1>3, <1>4, <1>5, <1>6, <1>7 DEF CommandNext

----------------------------------------------------------------------------
(***************************************************************************)
(* The panel.  First what the elements of a list at some places are.       *)
(***************************************************************************)
LEMMA RanksAre ==
  ASSUME NEW N \in Nat, NEW P, P \subseteq 1..N
  PROVE  /\ IsFiniteSet(P) /\ Cardinality(P) \in 0..N
         /\ \A i \in P : Rank(i, P) \in 1..Cardinality(P)
         /\ \A i, j \in P : i < j => Rank(i, P) < Rank(j, P)
         /\ \A i, j \in P : Rank(i, P) = Rank(j, P) => i = j
<1>1. IsFiniteSet(P) /\ Cardinality(P) \in Nat /\ Cardinality(P) <= N
  <2>1. IsFiniteSet(1..N) /\ Cardinality(1..N) = N
    BY FS_Interval
  <2> QED BY <2>1, FS_Subset, FS_CardinalityType
<1> DEFINE B(i) == {j \in P : j <= i}
<1>2. \A i \in P : IsFiniteSet(B(i)) /\ Cardinality(B(i)) \in Nat
                   /\ Cardinality(B(i)) <= Cardinality(P)
  BY <1>1, FS_Subset, FS_CardinalityType
<1>3. ASSUME NEW i \in P PROVE Cardinality(B(i)) >= 1
  <2>1. B(i) # {}
    OBVIOUS
  <2>2. Cardinality(B(i)) # 0
    BY <1>2, <2>1, FS_EmptySet
  <2> QED BY <1>2, <2>2
<1>4. ASSUME NEW i \in P, NEW j \in P, i < j PROVE Cardinality(B(i)) < Cardinality(B(j))
  <2>1. B(i) \subseteq B(j) /\ j \in B(j) /\ j \notin B(i)
    <3>1. \A k \in P : k \in Nat
      OBVIOUS
    <3>2. \A k \in P : k <= i => k <= j
      BY <1>4, <3>1
    <3>3. ~(j <= i) /\ j <= j
      BY <1>4, <3>1
    <3> QED BY <3>2, <3>3
  <2>2. Cardinality(B(i)) <= Cardinality(B(j)) /\ Cardinality(B(i)) # Cardinality(B(j))
    <3> HIDE DEF B
    <3> QED BY <1>2, <2>1, FS_Subset
  <2> QED BY <1>2, <2>2
<1>5. \A i : Rank(i, P) = Cardinality(B(i))
  BY DEF Rank
<1> HIDE DEF B
<1>6. \A i \in P : Rank(i, P) \in 1..Cardinality(P)
  BY <1>1, <1>2, <1>3, <1>5
<1>7. \A i, j \in P : i < j => Rank(i, P) < Rank(j, P)
  BY <1>4, <1>5
<1>8. ASSUME NEW i \in P, NEW j \in P, Rank(i, P) = Rank(j, P) PROVE i = j
  <2>1. Rank(i, P) \in Nat /\ i \in Nat /\ j \in Nat /\ (i < j \/ j < i \/ i = j)
    BY <1>6
  <2> QED BY <1>7, <1>8, <2>1
<1> QED BY <1>1, <1>6, <1>7, <1>8

LEMMA RanksMet ==
  ASSUME NEW N \in Nat, NEW P, P \subseteq 1..N, NEW n \in 1..Cardinality(P)
  PROVE  \E i \in P : Rank(i, P) = n
<1> DEFINE Q(k) == k + 1 <= Cardinality(P) => \E i \in P : Rank(i, P) = k + 1
           S == {k \in Nat : Q(k)}
<1>0. IsFiniteSet(P) /\ Cardinality(P) \in Nat /\ \A i \in P : i \in Nat
  <2>1. IsFiniteSet(P) /\ Cardinality(P) \in 0..N
    BY RanksAre
  <2> QED BY <2>1
<1>1. \A T : T \subseteq P /\ T # {} => \E m \in T : \A y \in T : m <= y
  <2> SUFFICES ASSUME NEW T, T \subseteq P, T # {} PROVE \E m \in T : \A y \in T : m <= y
    OBVIOUS
  <2>1. T \subseteq Nat
    BY <1>0
  <2> QED BY <2>1, NatLeast
<1>2. Q(0)
  <2> SUFFICES ASSUME 1 <= Cardinality(P) PROVE \E i \in P : Rank(i, P) = 1
    OBVIOUS
  <2>1. P # {}
    BY <1>0, FS_EmptySet
  <2>2. PICK m \in P : \A y \in P : m <= y
    BY <1>1, <2>1
  <2>3. {j \in P : j <= m} = {m}
    <3>1. \A j \in P : j <= m <=> j = m
      BY <1>0, <2>2
    <3> QED BY <3>1
  <2> QED BY <2>3, FS_Singleton DEF Rank
<1>3. ASSUME NEW k \in Nat, Q(k) PROVE Q(k + 1)
  <2> SUFFICES ASSUME k + 2 <= Cardinality(P) PROVE \E i \in P : Rank(i, P) = k + 2
    OBVIOUS
  <2>1. PICK i \in P : Rank(i, P) = k + 1
    BY <1>0, <1>3
  <2> DEFINE B == {j \in P : j <= i}
             T == P \ B
  <2>2. IsFiniteSet(B) /\ Cardinality(B) = k + 1
    BY <1>0, <2>1, FS_Subset DEF Rank
  <2>3. T # {}
    <3>1. B # P
      BY <1>0, <2>2
    <3> QED BY <3>1
  <2>4. PICK m \in T : \A y \in T : m <= y
    <3>1. T \subseteq P
      OBVIOUS
    <3> HIDE DEF T
    <3> QED BY <1>1, <2>3, <3>1
  <2>5. {j \in P : j <= m} = B \cup {m} /\ m \notin B
    <3>1. m \in P /\ ~(m <= i)
      OBVIOUS
    <3>2. \A j \in P : j <= i => j <= m
      BY <1>0, <3>1
    <3>3. \A j \in P : ~(j <= i) /\ j <= m => j = m
      <4>1. \A j \in P : ~(j <= i) => m <= j
        BY <2>4
      <4> QED BY <1>0, <3>1, <4>1
    <3>4. m <= m
      BY <1>0, <3>1
    <3>5. \A j \in P : j <= m <=> (j <= i \/ j = m)
      BY <3>2, <3>3, <3>4
    <3> QED BY <3>1, <3>5
  <2> HIDE DEF B, T
  <2>6. Cardinality(B \cup {m}) = k + 2
    BY <2>2, <2>5, FS_AddElement
  <2>7. m \in P
    BY <2>4 DEF T
  <2> QED BY <2>5, <2>6, <2>7 DEF Rank
<1>4. n - 1 \in S
  <2> HIDE DEF Q
  <2>1. 0 \in S /\ \A k \in Nat : k \in S => k + 1 \in S
    BY <1>2, <1>3
  <2> HIDE DEF S
  <2> QED BY <1>0, <2>1, NatInd
<1>5. Q(n - 1)
  <2> HIDE DEF Q
  <2> QED BY <1>4
<1>6. (n - 1) + 1 = n /\ n <= Cardinality(P)
  BY <1>0
<1> QED BY <1>5, <1>6, Zenon

(* g goes through the places in their order.                               *)
Ordered(g, P) ==
  /\ g \in [1..Cardinality(P) -> P]
  /\ \A n \in 1..Cardinality(P) : Rank(g[n], P) = n
  /\ \A i \in P : g[Rank(i, P)] = i

LEMMA AtIs ==
  ASSUME NEW N \in Nat, NEW list, NEW P, P \subseteq 1..N
  PROVE  \E g : Ordered(g, P) /\ At(list, P) = [k \in 1..Cardinality(P) |-> list[g[k]]]
<1> DEFINE C(n) == CHOOSE i \in P : Rank(i, P) = n
           g == [n \in 1..Cardinality(P) |-> C(n)]
<1>1. \A n \in 1..Cardinality(P) : C(n) \in P /\ Rank(C(n), P) = n
  BY RanksMet
<1>2. \A i \in P : Rank(i, P) \in 1..Cardinality(P)
  BY RanksAre
<1>3. ASSUME NEW i \in P PROVE C(Rank(i, P)) = i
  <2>1. C(Rank(i, P)) \in P /\ Rank(C(Rank(i, P)), P) = Rank(i, P)
    BY <1>1, <1>2
  <2> QED BY <2>1, RanksAre
<1>4. At(list, P) = [n \in 1..Cardinality(P) |-> list[C(n)]]
  BY DEF At
<1> HIDE DEF C
<1>5. Ordered(g, P)
  BY <1>1, <1>2, <1>3 DEF Ordered
<1>6. [n \in 1..Cardinality(P) |-> list[C(n)]] = [k \in 1..Cardinality(P) |-> list[g[k]]]
  OBVIOUS
<1> HIDE DEF g
<1> QED BY <1>4, <1>5, <1>6

LEMMA AtKeeps ==
  ASSUME NEW X, NEW list \in Seq(X), NEW P, P \subseteq DOMAIN list
  PROVE  /\ At(list, P) \in Seq(X)
         /\ Len(At(list, P)) = Cardinality(P) /\ Cardinality(P) \in 0..Len(list)
         /\ Range(At(list, P)) = {list[i] : i \in P}
<1>0. Len(list) \in Nat /\ DOMAIN list = 1..Len(list) /\ \A i \in 1..Len(list) : list[i] \in X
  OBVIOUS
<1>1. PICK g : Ordered(g, P) /\ At(list, P) = [k \in 1..Cardinality(P) |-> list[g[k]]]
  <2>1. P \subseteq 1..Len(list)
    BY <1>0
  <2> QED BY <1>0, <2>1, AtIs
<1>2. Cardinality(P) \in 0..Len(list) /\ \A i \in P : Rank(i, P) \in 1..Cardinality(P)
  BY <1>0, RanksAre
<1>3. \A n \in 1..Cardinality(P) : g[n] \in P /\ list[g[n]] \in X
  BY <1>0, <1>1 DEF Ordered
<1>4. At(list, P) \in Seq(X) /\ Len(At(list, P)) = Cardinality(P)
  BY <1>1, <1>2, <1>3
<1>5. Range(At(list, P)) = {list[i] : i \in P}
  <2>1. Range(At(list, P)) = {list[g[n]] : n \in 1..Cardinality(P)}
    BY <1>1 DEF Range
  <2>2. \A i \in P : \E n \in 1..Cardinality(P) : list[g[n]] = list[i]
    BY <1>1, <1>2 DEF Ordered
  <2> QED BY <2>1, <2>2, <1>3
<1> QED BY <1>2, <1>4, <1>5

(* Of the elements of a list those in K.                                   *)
Of(list, K) == At(list, {i \in DOMAIN list : list[i] \in K})

LEMMA OfIs ==
  ASSUME NEW X, NEW list \in Seq(X), NEW K
  PROVE  /\ Of(list, K) \in Seq(X) /\ Len(Of(list, K)) \in Nat
         /\ Range(Of(list, K)) = Range(list) \cap K
         /\ Len(Of(list, K)) <= Len(list)
         /\ ~(Range(list) \subseteq K) => Len(Of(list, K)) < Len(list)
<1> DEFINE P == {i \in DOMAIN list : list[i] \in K}
<1>0. Len(list) \in Nat /\ DOMAIN list = 1..Len(list)
  OBVIOUS
<1>1. P \subseteq DOMAIN list
  OBVIOUS
<1>2. /\ At(list, P) \in Seq(X)
      /\ Len(At(list, P)) = Cardinality(P) /\ Cardinality(P) \in 0..Len(list)
      /\ Range(At(list, P)) = {list[i] : i \in P}
  <2> HIDE DEF P
  <2> QED BY <1>1, AtKeeps
<1>3. {list[i] : i \in P} = Range(list) \cap K
  BY DEF Range
<1>4. ASSUME ~(Range(list) \subseteq K) PROVE Cardinality(P) # Len(list)
  <2>1. P # DOMAIN list
    BY <1>4 DEF Range
  <2>2. IsFiniteSet(1..Len(list)) /\ Cardinality(1..Len(list)) = Len(list)
    BY <1>0, FS_Interval
  <2> HIDE DEF P
  <2> QED BY <1>0, <1>1, <2>1, <2>2, FS_Subset
<1> HIDE DEF P
<1>5. Of(list, K) = At(list, P)
  BY DEF Of, P
<1> QED BY <1>0, <1>2, <1>3, <1>4, <1>5

LEMMA LowRanks ==
  ASSUME NEW N \in Nat, NEW P, P \subseteq 1..N, NEW k \in 0..Cardinality(P)
  PROVE  Cardinality({i \in P : Rank(i, P) <= k}) = k
<1>0. \A i \in P : Rank(i, P) \in 1..Cardinality(P) /\ Rank(i, P) \in Nat /\ i \in Nat
  <2>1. Cardinality(P) \in 0..N /\ \A i \in P : Rank(i, P) \in 1..Cardinality(P)
    BY RanksAre
  <2> QED BY <2>1
<1>1. CASE k = 0
  <2>1. \A i \in P : ~(Rank(i, P) <= k)
    <3>1. \A i \in P : Rank(i, P) >= 1
      BY <1>0
    <3> QED BY <1>0, <1>1, <3>1
  <2>2. {i \in P : Rank(i, P) <= k} = {}
    BY <2>1
  <2> QED BY <1>1, <2>2, FS_EmptySet
<1>2. CASE k # 0
  <2>0. k \in 1..Cardinality(P)
    BY <1>2
  <2>1. PICK m \in P : Rank(m, P) = k
    BY <2>0, RanksMet
  <2>2. ASSUME NEW i \in P PROVE Rank(i, P) <= k <=> i <= m
    <3>1. i <= m \/ m < i
      BY <1>0
    <3>2. CASE i = m
      BY <1>0, <2>1, <3>2
    <3>3. CASE i < m
      <4>1. Rank(i, P) < Rank(m, P)
        BY <3>3, RanksAre
      <4> QED BY <1>0, <2>1, <3>3, <4>1
    <3>4. CASE m < i
      <4>1. Rank(m, P) < Rank(i, P)
        BY <3>4, RanksAre
      <4> QED BY <1>0, <2>1, <3>4, <4>1
    <3> QED BY <1>0, <3>1, <3>2, <3>3, <3>4
  <2>3. {i \in P : Rank(i, P) <= k} = {i \in P : i <= m}
    BY <2>2
  <2> QED BY <2>1, <2>3 DEF Rank
<1> QED BY <1>1, <1>2

(* What trimMetadata leaves: whatever is busy, and more than its limit     *)
(* only if all of it is busy.                                              *)
LEMMA TrimIs ==
  ASSUME NEW X, NEW list \in Seq(X), NEW busy
  PROVE  /\ Trim(list, busy) \in Seq(X)
         /\ Range(Trim(list, busy)) \subseteq Range(list)
         /\ Range(list) \cap busy \subseteq Range(Trim(list, busy))
         /\ \/ Len(Trim(list, busy)) <= MAX_METADATA
            \/ Range(Trim(list, busy)) \subseteq busy
<1> DEFINE D == DOMAIN list
           over == {i \in D : list[i] \notin busy}
           excess == Len(list) - MAX_METADATA
           victims == {i \in over : Rank(i, over) <= excess}
<1>0. Len(list) \in Nat /\ D = 1..Len(list) /\ MAX_METADATA \in Nat
  BY LimitsAssumption
<1>1. over \subseteq 1..Len(list) /\ victims \subseteq D /\ D \ victims \subseteq D
  BY <1>0
<1>2. Trim(list, busy) = At(list, D \ victims)
  BY DEF Trim
<1>3. /\ Trim(list, busy) \in Seq(X)
      /\ Len(Trim(list, busy)) = Cardinality(D \ victims)
      /\ Range(Trim(list, busy)) = {list[i] : i \in D \ victims}
  <2> HIDE DEF victims
  <2> QED BY <1>1, <1>2, AtKeeps
<1>4. Range(Trim(list, busy)) \subseteq Range(list)
  BY <1>3 DEF Range
<1>5. Range(list) \cap busy \subseteq Range(Trim(list, busy))
  <2>1. \A i \in D : list[i] \in busy => i \in D \ victims
    OBVIOUS
  <2> HIDE DEF victims
  <2> QED BY <1>3, <2>1 DEF Range
<1>6. IsFiniteSet(over) /\ Cardinality(over) \in Nat
      /\ \A i \in over : Rank(i, over) \in 1..Cardinality(over)
  <2> HIDE DEF over
  <2>1. /\ IsFiniteSet(over) /\ Cardinality(over) \in 0..Len(list)
        /\ \A i \in over : Rank(i, over) \in 1..Cardinality(over)
    BY <1>0, <1>1, RanksAre
  <2> QED BY <1>0, <2>1
<1>7. CASE Cardinality(over) <= excess
  <2>1. victims = over
    <3>1. \A i \in over : Rank(i, over) <= excess
      <4> HIDE DEF over
      <4> QED BY <1>0, <1>6, <1>7
    <3> QED BY <3>1
  <2>2. \A i \in D \ victims : list[i] \in busy
    BY <2>1
  <2> HIDE DEF victims
  <2> QED BY <1>3, <1>4, <1>5, <2>2
<1>8. CASE ~(Cardinality(over) <= excess) /\ 0 <= excess
  <2>1. excess \in 0..Cardinality(over)
    <3> HIDE DEF over
    <3> QED BY <1>0, <1>6, <1>8
  <2>2. Cardinality(victims) = excess
    <3> HIDE DEF over, excess
    <3>1. Cardinality({i \in over : Rank(i, over) <= excess}) = excess
      BY <1>0, <1>1, <2>1, LowRanks
    <3> QED BY <3>1
  <2>3. IsFiniteSet(D) /\ Cardinality(D) = Len(list)
    BY <1>0, FS_Interval
  <2>4. D \cap victims = victims
    BY <1>1
  <2>5. Cardinality(D \ victims) = Len(list) - excess
    <3> HIDE DEF D, victims, excess
    <3>1. Cardinality(D \ victims) = Cardinality(D) - Cardinality(D \cap victims)
      BY <2>3, FS_Difference
    <3> QED BY <2>2, <2>3, <2>4, <3>1
  <2> HIDE DEF victims, D, over
  <2> QED BY <1>0, <1>3, <1>4, <1>5, <2>5
<1>9. CASE ~(0 <= excess)
  <2>1. Len(list) <= MAX_METADATA
    BY <1>0, <1>9
  <2>2. IsFiniteSet(D) /\ Cardinality(D) = Len(list)
    BY <1>0, FS_Interval
  <2>3. IsFiniteSet(D \ victims) /\ Cardinality(D \ victims) <= Cardinality(D)
        /\ Cardinality(D \ victims) \in Nat
    <3> HIDE DEF D, victims
    <3> QED BY <2>2, FS_Subset, FS_CardinalityType
  <2> HIDE DEF victims, D, over
  <2> QED BY <1>0, <1>3, <1>4, <1>5, <2>1, <2>2, <2>3
<1> HIDE DEF victims, D, over, excess
<1> QED BY <1>7, <1>8, <1>9

----------------------------------------------------------------------------
(* The folds over patches, as values given one after the other.            *)
Patches ==
  [run : Int, id : Ids, version : Versions, size : Nat, expired : BOOLEAN, reviewed : BOOLEAN]

LEMMA BodyIs ==
  ASSUME NEW p \in Patches
  PROVE  /\ Body(p) \in Nat /\ Body(p) <= p.size /\ p.size \in Nat
         /\ Body(p) # 0 => Body(p) = p.size
         /\ [p EXCEPT !.expired = TRUE] \in Patches
         /\ Body([p EXCEPT !.expired = TRUE]) = 0
         /\ PatchKey([p EXCEPT !.expired = TRUE]) = PatchKey(p)
<1>1. p.size \in Nat /\ p.size <= p.size
  BY DEF Patches
<1>2. Body(p) = 0 \/ Body(p) = p.size
  BY Zenon DEF Body
<1>3. 0 <= p.size
  BY <1>1
<1>4. [p EXCEPT !.expired = TRUE] \in Patches
  BY DEF Patches
<1>5. [p EXCEPT !.expired = TRUE].expired = TRUE
  BY DEF Patches
<1>6. PatchKey([p EXCEPT !.expired = TRUE]) = PatchKey(p)
  BY DEF PatchKey, Patches
<1> QED BY <1>1, <1>2, <1>3, <1>4, <1>5, <1>6 DEF Body

(* What the diffs of a list weigh together; Adds, Deletes and Expires say  *)
(* it, deletePatch and trimBodies place by place.                          *)
Total(list) == FoldLeft(LAMBDA n, patch : n + Body(patch), 0, list)

Adds(v, list) ==
  /\ v \in [0..Len(list) -> Nat] /\ v[0] = 0
  /\ \A i \in 1..Len(list) : v[i] = v[i - 1] + Body(list[i])

Deletes(v, list, bytes, entries) ==
  /\ v \in [0..Len(list) -> Nat] /\ v[0] = bytes
  /\ \A i \in 1..Len(list) :
        v[i] = IF PatchKey(list[i]) \in Range(entries) THEN v[i - 1]
               ELSE Max({0, v[i - 1] - Body(list[i])})

Expires(v, list, bytes) ==
  /\ v \in [0..Len(list) -> [bytes : Int, list : Seq(Patches)]]
  /\ v[0] = [bytes |-> bytes, list |-> <<>>]
  /\ \A i \in 1..Len(list) :
        v[i] = IF v[i - 1].bytes <= MAX_BODY_BYTES \/ Body(list[i]) = 0
               THEN [v[i - 1] EXCEPT !.list = Append(@, list[i])]
               ELSE [bytes |-> v[i - 1].bytes - list[i].size,
                     list |-> Append(v[i - 1].list, [list[i] EXCEPT !.expired = TRUE])]

LEMMA MaxOfTwo ==
  ASSUME NEW x \in Int PROVE Max({0, x}) = IF x > 0 THEN x ELSE 0
<1> DEFINE S == {0, x}
<1>1. S \subseteq Int
  OBVIOUS
<1>2. CASE x > 0
  <2>1. x \in S /\ \A y \in S : y <= x
    BY <1>2
  <2> HIDE DEF S
  <2>2. Max(S) = x
    BY <1>1, <2>1, MaxIs
  <2> QED BY <1>2, <2>2 DEF S
<1>3. CASE ~(x > 0)
  <2>1. 0 \in S /\ \A y \in S : y <= 0
    BY <1>3
  <2> HIDE DEF S
  <2>2. Max(S) = 0
    BY <1>1, <2>1, MaxIs
  <2> QED BY <1>3, <2>2 DEF S
<1> QED BY <1>2, <1>3

LEMMA TotalIs ==
  ASSUME NEW list \in Seq(Patches)
  PROVE  \E v : Adds(v, list) /\ Total(list) = v[Len(list)]
<1> DEFINE n == Len(list)
           X == Nat
           base == 0
           Op(x, p) == x + Body(p)
           F == [j \in 1..n |-> [x \in X |-> Op(x, list[j])]]
           c == CHOOSE it : it = [s \in SUBSET (DOMAIN list) |->
                              IF s = {} THEN base ELSE it[s \ {Max(s)}] + Body(list[Max(s)])]
<1>0. n \in Nat /\ DOMAIN list = 1..n /\ \A j \in 1..n : list[j] \in Patches
  OBVIOUS
<1>1. base \in X /\ \A x \in X, p \in Patches : Op(x, p) \in X
  <2>1. ASSUME NEW x \in X, NEW p \in Patches PROVE x + Body(p) \in Nat
    <3>1. Body(p) \in Nat
      BY BodyIs
    <3> QED BY <3>1
  <2> QED BY <2>1
<1>2. Total(list) = c[DOMAIN list]
  BY DEF Total, FoldLeft, MapThenFoldSet
<1>3. c = CHOOSE it : it = [s \in SUBSET (DOMAIN list) |->
                              IF s = {} THEN base ELSE Op(it[s \ {Max(s)}], list[Max(s)])]
  OBVIOUS
<1> HIDE DEF Op, base, X, c
<1>4. F \in [1..n -> [X -> X]]
  BY <1>0, <1>1
<1>5. PICK it \in [SUBSET (1..n) -> X] : IsFold(it, n, base, F)
  <2> HIDE DEF F, n
  <2> QED BY <1>0, <1>1, <1>4, FoldExists
<1>6. PICK v \in [0..n -> X] : Successive(v, n, base, F)
  <2> HIDE DEF F, n
  <2> QED BY <1>0, <1>1, <1>4, ValuesExist
<1>7. v[0] = base /\ \A i \in 1..n : v[i] = Op(v[i - 1], list[i])
  <2>1. ASSUME NEW i \in 1..n PROVE v[i] = Op(v[i - 1], list[i])
    <3>1. v[i - 1] \in X
      BY <1>0, <2>1
    <3> QED BY <1>6, <3>1 DEF Successive
  <2> QED BY <1>6, <2>1 DEF Successive
<1>8. it = [s \in SUBSET (DOMAIN list) |->
              IF s = {} THEN base ELSE Op(it[s \ {Max(s)}], list[Max(s)])]
  <2>1. ASSUME NEW s \in SUBSET (1..n), s # {}
        PROVE  F[Max(s)][it[s \ {Max(s)}]] = Op(it[s \ {Max(s)}], list[Max(s)])
    <3>1. Max(s) \in 1..n
      <4>1. s \subseteq Int /\ \A y \in s : y <= n
        BY <1>0
      <4>2. Max(s) \in s
        <5> HIDE DEF n
        <5> QED BY <1>0, <2>1, <4>1, MaxFacts
      <4> QED BY <4>2
    <3>2. it[s \ {Max(s)}] \in X
      OBVIOUS
    <3> QED BY <3>1, <3>2
  <2> HIDE DEF F, n
  <2> QED BY <1>0, <1>5, <2>1 DEF IsFold
<1>9. c = [s \in SUBSET (DOMAIN list) |->
              IF s = {} THEN base ELSE Op(c[s \ {Max(s)}], list[Max(s)])]
  BY <1>3, <1>8
<1> HIDE DEF F, n
<1>10. c[1..0] = v[0]
  BY <1>0, <1>7, <1>9
<1>11. ASSUME NEW k \in 1..n, c[1..(k - 1)] = v[k - 1] PROVE c[1..k] = v[k]
  <2>1. k \in Nat \ {0} /\ 1..k \in SUBSET (DOMAIN list)
    BY <1>0
  <2>2. c[1..k] = Op(c[1..(k - 1)], list[k])
    BY <1>9, <2>1, TopOff
  <2> QED BY <1>7, <1>11, <2>2
<1>12. c[1..n] = v[n]
  BY <1>0, <1>10, <1>11, Follows, ZenonT(60)
<1>13. Adds(v, list)
  BY <1>7 DEF Adds, Op, base, X, n
<1> QED BY <1>0, <1>2, <1>12, <1>13 DEF n

LEMMA DeletedIs ==
  ASSUME NEW list \in Seq(Patches), NEW bytes \in Nat, NEW entries
  PROVE  \E v : Deletes(v, list, bytes, entries) /\ Deleted(bytes, list, entries) = v[Len(list)]
<1> DEFINE n == Len(list)
           X == Nat
           base == bytes
           Op(x, p) == IF PatchKey(p) \in Range(entries) THEN x ELSE Max({0, x - Body(p)})
           F == [j \in 1..n |-> [x \in X |-> Op(x, list[j])]]
           c == CHOOSE it : it = [s \in SUBSET (DOMAIN list) |->
                              IF s = {} THEN base ELSE IF PatchKey(list[Max(s)]) \in Range(entries) THEN it[s \ {Max(s)}] ELSE Max({0, it[s \ {Max(s)}] - Body(list[Max(s)])})]
<1>0. n \in Nat /\ DOMAIN list = 1..n /\ \A j \in 1..n : list[j] \in Patches
  OBVIOUS
<1>1. base \in X /\ \A x \in X, p \in Patches : Op(x, p) \in X
  <2>1. ASSUME NEW x \in X, NEW p \in Patches PROVE Max({0, x - Body(p)}) \in Nat
    <3>1. Body(p) \in Nat /\ x - Body(p) \in Int
      <4>1. Body(p) \in Nat
        BY BodyIs
      <4> QED BY <4>1
    <3> QED BY <3>1, MaxOfTwo
  <2> QED BY <2>1
<1>2. Deleted(bytes, list, entries) = c[DOMAIN list]
  BY DEF Deleted, FoldLeft, MapThenFoldSet
<1>3. c = CHOOSE it : it = [s \in SUBSET (DOMAIN list) |->
                              IF s = {} THEN base ELSE Op(it[s \ {Max(s)}], list[Max(s)])]
  OBVIOUS
<1> HIDE DEF Op, base, X, c
<1>4. F \in [1..n -> [X -> X]]
  BY <1>0, <1>1
<1>5. PICK it \in [SUBSET (1..n) -> X] : IsFold(it, n, base, F)
  <2> HIDE DEF F, n
  <2> QED BY <1>0, <1>1, <1>4, FoldExists
<1>6. PICK v \in [0..n -> X] : Successive(v, n, base, F)
  <2> HIDE DEF F, n
  <2> QED BY <1>0, <1>1, <1>4, ValuesExist
<1>7. v[0] = base /\ \A i \in 1..n : v[i] = Op(v[i - 1], list[i])
  <2>1. ASSUME NEW i \in 1..n PROVE v[i] = Op(v[i - 1], list[i])
    <3>1. v[i - 1] \in X
      BY <1>0, <2>1
    <3> QED BY <1>6, <3>1 DEF Successive
  <2> QED BY <1>6, <2>1 DEF Successive
<1>8. it = [s \in SUBSET (DOMAIN list) |->
              IF s = {} THEN base ELSE Op(it[s \ {Max(s)}], list[Max(s)])]
  <2>1. ASSUME NEW s \in SUBSET (1..n), s # {}
        PROVE  F[Max(s)][it[s \ {Max(s)}]] = Op(it[s \ {Max(s)}], list[Max(s)])
    <3>1. Max(s) \in 1..n
      <4>1. s \subseteq Int /\ \A y \in s : y <= n
        BY <1>0
      <4>2. Max(s) \in s
        <5> HIDE DEF n
        <5> QED BY <1>0, <2>1, <4>1, MaxFacts
      <4> QED BY <4>2
    <3>2. it[s \ {Max(s)}] \in X
      OBVIOUS
    <3> QED BY <3>1, <3>2
  <2> HIDE DEF F, n
  <2> QED BY <1>0, <1>5, <2>1 DEF IsFold
<1>9. c = [s \in SUBSET (DOMAIN list) |->
              IF s = {} THEN base ELSE Op(c[s \ {Max(s)}], list[Max(s)])]
  BY <1>3, <1>8
<1> HIDE DEF F, n
<1>10. c[1..0] = v[0]
  BY <1>0, <1>7, <1>9
<1>11. ASSUME NEW k \in 1..n, c[1..(k - 1)] = v[k - 1] PROVE c[1..k] = v[k]
  <2>1. k \in Nat \ {0} /\ 1..k \in SUBSET (DOMAIN list)
    BY <1>0
  <2>2. c[1..k] = Op(c[1..(k - 1)], list[k])
    BY <1>9, <2>1, TopOff
  <2> QED BY <1>7, <1>11, <2>2
<1>12. c[1..n] = v[n]
  BY <1>0, <1>10, <1>11, Follows, ZenonT(60)
<1>13. Deletes(v, list, bytes, entries)
  BY <1>7 DEF Deletes, Op, base, X, n
<1> QED BY <1>0, <1>2, <1>12, <1>13 DEF n

LEMMA TrimBodiesIs ==
  ASSUME NEW list \in Seq(Patches), NEW bytes \in Nat
  PROVE  \E v : Expires(v, list, bytes) /\ TrimBodies(list, bytes) = v[Len(list)]
<1> DEFINE n == Len(list)
           X == [bytes : Int, list : Seq(Patches)]
           base == [bytes |-> bytes, list |-> <<>>]
           Op(x, p) == IF x.bytes <= MAX_BODY_BYTES \/ Body(p) = 0 THEN [x EXCEPT !.list = Append(@, p)] ELSE [bytes |-> x.bytes - p.size, list |-> Append(x.list, [p EXCEPT !.expired = TRUE])]
           F == [j \in 1..n |-> [x \in X |-> Op(x, list[j])]]
           c == CHOOSE it : it = [s \in SUBSET (DOMAIN list) |->
                              IF s = {} THEN base ELSE IF it[s \ {Max(s)}].bytes <= MAX_BODY_BYTES \/ Body(list[Max(s)]) = 0 THEN [it[s \ {Max(s)}] EXCEPT !.list = Append(@, list[Max(s)])] ELSE [bytes |-> it[s \ {Max(s)}].bytes - list[Max(s)].size, list |-> Append(it[s \ {Max(s)}].list, [list[Max(s)] EXCEPT !.expired = TRUE])]]
<1>0. n \in Nat /\ DOMAIN list = 1..n /\ \A j \in 1..n : list[j] \in Patches
  OBVIOUS
<1>1. base \in X /\ \A x \in X, p \in Patches : Op(x, p) \in X
  <2>1. base \in X
    OBVIOUS
  <2>2. ASSUME NEW x \in X, NEW p \in Patches PROVE Op(x, p) \in X
    <3>1. Append(x.list, p) \in Seq(Patches) /\ p.size \in Nat /\ [p EXCEPT !.expired = TRUE] \in Patches
      BY BodyIs, AppendProperties
    <3>2. Append(x.list, [p EXCEPT !.expired = TRUE]) \in Seq(Patches)
      BY <3>1, AppendProperties
    <3>3. [x EXCEPT !.list = Append(@, p)] \in X
      BY <3>1
    <3>4. [bytes |-> x.bytes - p.size, list |-> Append(x.list, [p EXCEPT !.expired = TRUE])] \in X
      BY <3>1, <3>2
    <3> QED BY <3>3, <3>4
  <2> QED BY <2>1, <2>2
<1>2. TrimBodies(list, bytes) = c[DOMAIN list]
  BY DEF TrimBodies, FoldLeft, MapThenFoldSet
<1>3. c = CHOOSE it : it = [s \in SUBSET (DOMAIN list) |->
                              IF s = {} THEN base ELSE Op(it[s \ {Max(s)}], list[Max(s)])]
  OBVIOUS
<1> HIDE DEF Op, base, X, c
<1>4. F \in [1..n -> [X -> X]]
  BY <1>0, <1>1
<1>5. PICK it \in [SUBSET (1..n) -> X] : IsFold(it, n, base, F)
  <2> HIDE DEF F, n
  <2> QED BY <1>0, <1>1, <1>4, FoldExists
<1>6. PICK v \in [0..n -> X] : Successive(v, n, base, F)
  <2> HIDE DEF F, n
  <2> QED BY <1>0, <1>1, <1>4, ValuesExist
<1>7. v[0] = base /\ \A i \in 1..n : v[i] = Op(v[i - 1], list[i])
  <2>1. ASSUME NEW i \in 1..n PROVE v[i] = Op(v[i - 1], list[i])
    <3>1. v[i - 1] \in X
      BY <1>0, <2>1
    <3> QED BY <1>6, <3>1 DEF Successive
  <2> QED BY <1>6, <2>1 DEF Successive
<1>8. it = [s \in SUBSET (DOMAIN list) |->
              IF s = {} THEN base ELSE Op(it[s \ {Max(s)}], list[Max(s)])]
  <2>1. ASSUME NEW s \in SUBSET (1..n), s # {}
        PROVE  F[Max(s)][it[s \ {Max(s)}]] = Op(it[s \ {Max(s)}], list[Max(s)])
    <3>1. Max(s) \in 1..n
      <4>1. s \subseteq Int /\ \A y \in s : y <= n
        BY <1>0
      <4>2. Max(s) \in s
        <5> HIDE DEF n
        <5> QED BY <1>0, <2>1, <4>1, MaxFacts
      <4> QED BY <4>2
    <3>2. it[s \ {Max(s)}] \in X
      OBVIOUS
    <3> QED BY <3>1, <3>2
  <2> HIDE DEF F, n
  <2> QED BY <1>0, <1>5, <2>1 DEF IsFold
<1>9. c = [s \in SUBSET (DOMAIN list) |->
              IF s = {} THEN base ELSE Op(c[s \ {Max(s)}], list[Max(s)])]
  BY <1>3, <1>8
<1> HIDE DEF F, n
<1>10. c[1..0] = v[0]
  BY <1>0, <1>7, <1>9
<1>11. ASSUME NEW k \in 1..n, c[1..(k - 1)] = v[k - 1] PROVE c[1..k] = v[k]
  <2>1. k \in Nat \ {0} /\ 1..k \in SUBSET (DOMAIN list)
    BY <1>0
  <2>2. c[1..k] = Op(c[1..(k - 1)], list[k])
    BY <1>9, <2>1, TopOff
  <2> QED BY <1>7, <1>11, <2>2
<1>12. c[1..n] = v[n]
  BY <1>0, <1>10, <1>11, Follows, ZenonT(60)
<1>13. Expires(v, list, bytes)
  BY <1>7 DEF Expires, Op, base, X, n
<1> QED BY <1>0, <1>2, <1>12, <1>13 DEF n

LEMMA UpTo ==
  ASSUME NEW n \in Nat, NEW S, 0 \in S, \A i \in 1..n : i - 1 \in S => i \in S
  PROVE  \A i \in 0..n : i \in S
<1> DEFINE T == {i \in Nat : i <= n => i \in S}
<1>1. 0 \in T
  OBVIOUS
<1>2. ASSUME NEW i \in Nat, i \in T PROVE i + 1 \in T
  <2>1. i + 1 <= n => i + 1 \in 1..n /\ (i + 1) - 1 = i
    OBVIOUS
  <2> QED BY <1>2, <2>1
<1> HIDE DEF T
<1>3. Nat \subseteq T
  BY <1>1, <1>2, NatInd
<1> QED BY <1>3 DEF T

LEMMA AddsGrow ==
  ASSUME NEW list \in Seq(Patches), NEW v, Adds(v, list)
  PROVE  /\ Len(list) \in Nat
         /\ \A i \in 1..Len(list) : list[i] \in Patches /\ Body(list[i]) \in Nat
         /\ \A i \in 0..Len(list) : v[i] \in Nat /\ v[i] <= v[Len(list)]
<1>1. Len(list) \in Nat /\ \A i \in 1..Len(list) : list[i] \in Patches
  OBVIOUS
<1>2. \A i \in 1..Len(list) : Body(list[i]) \in Nat
  BY <1>1, BodyIs
<1> DEFINE n == Len(list)
           S == {i \in 0..n : v[n - i] <= v[n]}
<1>3. \A i \in 0..n : v[i] \in Nat
  BY DEF Adds
<1>4. 0 \in S
  BY <1>1, <1>3
<1>5. ASSUME NEW i \in 1..n, i - 1 \in S PROVE i \in S
  <2>1. n - (i - 1) \in 1..n /\ (n - (i - 1)) - 1 = n - i /\ n - i \in 0..n
    BY <1>1
  <2>2. v[n - (i - 1)] = v[n - i] + Body(list[n - (i - 1)])
    BY <2>1 DEF Adds
  <2>3. v[n - i] <= v[n - (i - 1)]
    BY <1>2, <1>3, <2>1, <2>2
  <2>4. v[n - (i - 1)] <= v[n]
    BY <1>5
  <2>5. v[n - i] <= v[n]
    BY <1>1, <1>3, <2>1, <2>3, <2>4
  <2> QED BY <2>5
<1>6. \A i \in 0..n : i \in S
  <2> HIDE DEF S, n
  <2>1. n \in Nat
    BY <1>1 DEF n
  <2> QED BY <1>4, <1>5, <2>1, UpTo
<1>7. ASSUME NEW i \in 0..n PROVE v[i] <= v[n]
  <2>1. n - i \in 0..n /\ n - (n - i) = i
    BY <1>1
  <2>2. v[n - (n - i)] <= v[n]
    BY <1>6, <2>1
  <2> QED BY <2>1, <2>2
<1> QED BY <1>1, <1>2, <1>3, <1>7

(* Patches change in one place, or one comes at the end.                   *)
LEMMA TotalOfChanged ==
  ASSUME NEW list \in Seq(Patches), NEW k \in 1..Len(list), NEW p \in Patches
  PROVE  /\ [list EXCEPT ![k] = p] \in Seq(Patches)
         /\ Total(list) \in Nat /\ Body(list[k]) \in Nat /\ Body(p) \in Nat
         /\ Total([list EXCEPT ![k] = p]) = Total(list) - Body(list[k]) + Body(p)
         /\ Total([list EXCEPT ![k] = p]) \in Nat
<1> DEFINE other == [list EXCEPT ![k] = p]
           n == Len(list)
<1>1. other \in Seq(Patches) /\ Len(other) = n
  OBVIOUS
<1>2. \A i \in 1..n : other[i] = IF i = k THEN p ELSE list[i]
  OBVIOUS
<1>3. PICK v : Adds(v, list) /\ Total(list) = v[n]
  BY TotalIs
<1> HIDE DEF other
<1>4. PICK w : Adds(w, other) /\ Total(other) = w[n]
  BY <1>1, TotalIs
<1>5. /\ n \in Nat /\ \A i \in 1..n : Body(list[i]) \in Nat
      /\ \A i \in 0..n : v[i] \in Nat
  BY <1>3, AddsGrow
<1>6. Body(p) \in Nat
  BY BodyIs
<1>7. \A i \in 0..n : w[i] \in Nat
  BY <1>1, <1>4 DEF Adds
<1> DEFINE S == {i \in 0..n : w[i] = IF i < k THEN v[i] ELSE v[i] - Body(list[k]) + Body(p)}
<1>8. 0 \in S
  BY <1>3, <1>4, <1>5 DEF Adds
<1>9. ASSUME NEW i \in 1..n, i - 1 \in S PROVE i \in S
  <2>1. v[i] = v[i - 1] + Body(list[i])
    BY <1>3 DEF Adds
  <2>2. w[i] = w[i - 1] + Body(other[i])
    BY <1>1, <1>4 DEF Adds
  <2>3. i - 1 \in 0..n /\ v[i - 1] \in Nat /\ w[i - 1] \in Nat /\ Body(list[i]) \in Nat
        /\ Body(list[k]) \in Nat
    BY <1>5, <1>7
  <2>4. CASE i < k
    BY <1>2, <1>5, <1>9, <2>1, <2>2, <2>3, <2>4
  <2>5. CASE i = k
    BY <1>2, <1>5, <1>6, <1>9, <2>1, <2>2, <2>3, <2>5
  <2>6. CASE i > k
    BY <1>2, <1>5, <1>6, <1>9, <2>1, <2>2, <2>3, <2>6
  <2> QED BY <1>5, <2>4, <2>5, <2>6
<1>10. n \in S
  <2> HIDE DEF S
  <2>1. \A i \in 0..n : i \in S
    <3> HIDE DEF n
    <3> QED BY <1>5, <1>8, <1>9, UpTo
  <2> QED BY <1>5, <2>1
<1>11. w[n] = v[n] - Body(list[k]) + Body(p)
  BY <1>5, <1>10
<1> QED BY <1>1, <1>3, <1>4, <1>5, <1>6, <1>7, <1>11 DEF other

LEMMA TotalOfAppended ==
  ASSUME NEW list \in Seq(Patches), NEW p \in Patches
  PROVE  /\ Append(list, p) \in Seq(Patches)
         /\ Total(list) \in Nat /\ Body(p) \in Nat
         /\ Total(Append(list, p)) = Total(list) + Body(p)
<1> DEFINE other == Append(list, p)
           n == Len(list)
<1>1. other \in Seq(Patches) /\ Len(other) = n + 1 /\ n \in Nat
  BY AppendProperties
<1>2. other[n + 1] = p /\ \A i \in 1..n : other[i] = list[i]
  BY AppendProperties
<1>3. PICK v : Adds(v, list) /\ Total(list) = v[n]
  BY TotalIs
<1> HIDE DEF other
<1>4. PICK w : Adds(w, other) /\ Total(other) = w[n + 1]
  BY <1>1, TotalIs
<1>5. /\ \A i \in 1..n : Body(list[i]) \in Nat
      /\ \A i \in 0..n : v[i] \in Nat
  BY <1>3, AddsGrow
<1>6. Body(p) \in Nat
  BY BodyIs
<1>7. w[0] = 0 /\ \A i \in 1..(n + 1) : w[i] = w[i - 1] + Body(other[i])
  BY <1>1, <1>4 DEF Adds
<1> DEFINE S == {i \in 0..n : w[i] = v[i]}
<1>8. 0 \in S
  BY <1>1, <1>3, <1>7 DEF Adds
<1>9. ASSUME NEW i \in 1..n, i - 1 \in S PROVE i \in S
  <2>1. v[i] = v[i - 1] + Body(list[i])
    BY <1>3 DEF Adds
  <2>2. w[i] = w[i - 1] + Body(other[i])
    BY <1>1, <1>7
  <2> QED BY <1>1, <1>2, <1>9, <2>1, <2>2
<1>10. n \in S
  <2> HIDE DEF S
  <2>1. \A i \in 0..n : i \in S
    <3> HIDE DEF n
    <3> QED BY <1>1, <1>8, <1>9, UpTo
  <2> QED BY <1>1, <2>1
<1>11. w[n + 1] = v[n] + Body(p)
  <2>1. n + 1 \in 1..(n + 1) /\ (n + 1) - 1 = n
    BY <1>1
  <2>2. w[n + 1] = w[n] + Body(other[n + 1])
    BY <1>7, <2>1
  <2> QED BY <1>2, <1>10, <2>2
<1>12. v[n] \in Nat
  BY <1>1, <1>5
<1> QED BY <1>1, <1>3, <1>4, <1>6, <1>11, <1>12 DEF other

LEMMA TotalIsNat == ASSUME NEW list \in Seq(Patches) PROVE Total(list) \in Nat
<1>1. PICK v : Adds(v, list) /\ Total(list) = v[Len(list)]
  BY TotalIs
<1> QED BY <1>1, AddsGrow

LEMMA RankGrows ==
  ASSUME NEW N \in Nat, NEW P, P \subseteq 1..N
  PROVE  /\ Rank(0, P) = 0 /\ Rank(N, P) = Cardinality(P)
         /\ \A i \in 1..N : i \in P => Rank(i, P) = Rank(i - 1, P) + 1
         /\ \A i \in 1..N : i \notin P => Rank(i, P) = Rank(i - 1, P)
         /\ \A i \in 0..N : Rank(i, P) \in 0..Cardinality(P)
<1>1. IsFiniteSet(P) /\ Cardinality(P) \in Nat
  <2>1. IsFiniteSet(P) /\ Cardinality(P) \in 0..N
    BY RanksAre
  <2> QED BY <2>1
<1>2. Rank(0, P) = 0
  <2>0. \A j \in P : ~(j <= 0)
    OBVIOUS
  <2>1. {j \in P : j <= 0} = {}
    BY <2>0
  <2> QED BY <2>1, FS_EmptySet DEF Rank
<1>3. Rank(N, P) = Cardinality(P)
  <2>0. \A j \in P : j <= N
    OBVIOUS
  <2>1. {j \in P : j <= N} = P
    BY <2>0
  <2> QED BY <2>1 DEF Rank
<1>4. ASSUME NEW i \in 1..N, i \in P PROVE Rank(i, P) = Rank(i - 1, P) + 1
  <2> DEFINE B == {j \in P : j <= i - 1}
  <2>1. {j \in P : j <= i} = B \cup {i} /\ i \notin B
    <3>1. \A j \in P : j <= i <=> (j <= i - 1 \/ j = i)
      OBVIOUS
    <3>2. ~(i <= i - 1)
      OBVIOUS
    <3> QED BY <1>4, <3>1, <3>2
  <2>2. IsFiniteSet(B)
    BY <1>1, FS_Subset
  <2>3. Cardinality({j \in P : j <= i}) = Cardinality(B) + 1
    <3> HIDE DEF B
    <3> QED BY <2>1, <2>2, FS_AddElement
  <2> QED BY <2>3 DEF Rank
<1>5. ASSUME NEW i \in 1..N, i \notin P PROVE Rank(i, P) = Rank(i - 1, P)
  <2>1. \A j \in P : j <= i <=> j <= i - 1
    BY <1>5
  <2>2. {j \in P : j <= i} = {j \in P : j <= i - 1}
    BY <2>1
  <2> QED BY <2>2 DEF Rank
<1>6. ASSUME NEW i \in 0..N PROVE Rank(i, P) \in 0..Cardinality(P)
  <2> DEFINE B == {j \in P : j <= i}
  <2>1. IsFiniteSet(B) /\ Cardinality(B) \in Nat /\ Cardinality(B) <= Cardinality(P)
    BY <1>1, FS_Subset, FS_CardinalityType
  <2> QED BY <1>1, <2>1 DEF Rank
<1> QED BY <1>2, <1>3, <1>4, <1>5, <1>6

(* deletePatch, of those whose entries are gone: what is left is counted.  *)
LEMMA DeletedIsTotalAt ==
  ASSUME NEW list \in Seq(Patches), NEW entries, NEW P, P \subseteq DOMAIN list,
         \A i \in DOMAIN list : i \in P <=> PatchKey(list[i]) \in Range(entries)
  PROVE  /\ At(list, P) \in Seq(Patches)
         /\ Deleted(Total(list), list, entries) = Total(At(list, P))
         /\ Total(At(list, P)) \in Nat
         /\ Total(At(list, P)) <= Total(list)
<1> DEFINE n == Len(list)
           r == At(list, P)
           m == Cardinality(P)
<1>0. n \in Nat /\ DOMAIN list = 1..n /\ P \subseteq 1..n
  OBVIOUS
<1>p. \A i \in 1..n : i \in P <=> PatchKey(list[i]) \in Range(entries)
  BY <1>0
<1> HIDE DEF n
<1>2. PICK g : Ordered(g, P) /\ r = [k \in 1..m |-> list[g[k]]]
  <2>1. n \in Nat /\ P \subseteq 1..n
    BY <1>0
  <2>2. \E g : Ordered(g, P) /\ At(list, P) = [k \in 1..Cardinality(P) |-> list[g[k]]]
    BY <2>1, AtIs
  <2> QED BY <2>2
<1>3. r \in Seq(Patches) /\ Len(r) = m /\ m \in Nat
  <2>1. r \in Seq(Patches) /\ Len(r) = m /\ m \in 0..n
    BY <1>0, AtKeeps DEF n
  <2> QED BY <2>1
<1>r. \A k \in 1..m : r[k] = list[g[k]]
  BY <1>2
<1> HIDE DEF r, m
<1>4. PICK t : Adds(t, list) /\ Total(list) = t[n]
  BY TotalIs DEF n
<1>5. PICK u : Adds(u, r) /\ Total(r) = u[m]
  BY <1>3, TotalIs
<1>6. /\ \A i \in 1..n : Body(list[i]) \in Nat
      /\ \A i \in 0..n : t[i] \in Nat /\ t[i] <= t[n]
  BY <1>4, AddsGrow DEF n
<1>7. /\ t[0] = 0
      /\ \A i \in 1..n : t[i] = t[i - 1] + Body(list[i])
  BY <1>4 DEF Adds, n
<1>8. /\ u[0] = 0 /\ \A k \in 0..m : u[k] \in Nat
      /\ \A k \in 1..m : u[k] = u[k - 1] + Body(r[k])
  BY <1>3, <1>5 DEF Adds
<1>9. t[n] \in Nat
  BY <1>0, <1>6
<1>10. PICK d : Deletes(d, list, t[n], entries) /\ Deleted(t[n], list, entries) = d[n]
  BY <1>9, DeletedIs DEF n
<1>11. /\ d[0] = t[n] /\ \A i \in 0..n : d[i] \in Nat
       /\ \A i \in 1..n : d[i] = IF i \in P THEN d[i - 1] ELSE Max({0, d[i - 1] - Body(list[i])})
  BY <1>10, <1>p DEF Deletes, n
<1>12. /\ Rank(0, P) = 0 /\ Rank(n, P) = m
       /\ \A i \in 1..n : i \in P => Rank(i, P) = Rank(i - 1, P) + 1
       /\ \A i \in 1..n : i \notin P => Rank(i, P) = Rank(i - 1, P)
       /\ \A i \in 0..n : Rank(i, P) \in 0..m
  BY <1>0, RankGrows DEF m
<1>13. \A i \in P : Rank(i, P) \in 1..m /\ g[Rank(i, P)] = i
  BY <1>0, <1>2, RanksAre DEF Ordered, m
<1> DEFINE S == {i \in 0..n : d[i] = t[n] - t[i] + u[Rank(i, P)]}
<1>14. 0 \in S
  BY <1>0, <1>7, <1>8, <1>9, <1>11, <1>12
<1>15. ASSUME NEW i \in 1..n, i - 1 \in S PROVE i \in S
  <2>1. i - 1 \in 0..n /\ i \in 0..n
    BY <1>0
  <2>2. /\ t[i] \in Nat /\ t[i] <= t[n] /\ t[i - 1] \in Nat /\ t[n] \in Nat /\ Body(list[i]) \in Nat
        /\ t[i] = t[i - 1] + Body(list[i])
    BY <1>6, <1>7, <1>9, <2>1
  <2>3. Rank(i - 1, P) \in 0..m /\ u[Rank(i - 1, P)] \in Nat
    BY <1>8, <1>12, <2>1
  <2>4. d[i - 1] = t[n] - t[i - 1] + u[Rank(i - 1, P)]
    BY <1>15
  <2>5. CASE i \in P
    <3>1. Rank(i, P) = Rank(i - 1, P) + 1 /\ Rank(i, P) \in 1..m /\ g[Rank(i, P)] = i
      BY <1>12, <1>13, <2>5
    <3>2. Rank(i, P) - 1 = Rank(i - 1, P)
      BY <2>3, <3>1
    <3>3. u[Rank(i, P)] = u[Rank(i - 1, P)] + Body(r[Rank(i, P)])
      BY <1>8, <3>1, <3>2
    <3>4. r[Rank(i, P)] = list[i]
      BY <1>r, <3>1
    <3>5. d[i] = d[i - 1]
      BY <1>11, <2>5
    <3> DEFINE a == u[Rank(i, P)]
               b == u[Rank(i - 1, P)]
               w == Body(list[i])
    <3>6. a = b + w /\ b \in Nat /\ w \in Nat /\ d[i] = t[n] - t[i - 1] + b /\ t[i] = t[i - 1] + w
      BY <2>2, <2>3, <2>4, <3>3, <3>4, <3>5
    <3> HIDE DEF a, b, w
    <3>7. d[i] = t[n] - t[i] + a
      BY <2>2, <3>6
    <3> QED BY <2>1, <3>7 DEF a
  <2>6. CASE i \notin P
    <3>1. Rank(i, P) = Rank(i - 1, P)
      BY <1>12, <2>6
    <3> DEFINE x == d[i - 1] - Body(list[i])
    <3>2. x = t[n] - t[i] + u[Rank(i - 1, P)] /\ x \in Int /\ x >= 0
      BY <2>2, <2>3, <2>4
    <3>3. d[i] = Max({0, x})
      BY <1>11, <2>6
    <3> HIDE DEF x
    <3>4. d[i] = x
      BY <3>2, <3>3, MaxOfTwo
    <3> QED BY <2>1, <3>1, <3>2, <3>4
  <2> QED BY <2>5, <2>6
<1>16. n \in S
  <2> HIDE DEF S
  <2>1. \A i \in 0..n : i \in S
    BY <1>0, <1>14, <1>15, UpTo
  <2> QED BY <1>0, <2>1
<1>17. d[n] = u[m] /\ u[m] \in Nat
  BY <1>3, <1>8, <1>9, <1>12, <1>16
<1>18. u[m] <= t[n]
  <2> DEFINE T == {i \in 0..n : d[i] <= t[n]}
  <2>1. 0 \in T
    BY <1>0, <1>9, <1>11
  <2>2. ASSUME NEW i \in 1..n, i - 1 \in T PROVE i \in T
    <3>1. i \in 0..n /\ i - 1 \in 0..n /\ d[i - 1] \in Nat /\ Body(list[i]) \in Nat /\ d[i - 1] <= t[n]
      BY <1>0, <1>6, <1>11, <2>2
    <3>2. CASE i \in P
      BY <1>11, <3>1, <3>2
    <3>3. CASE i \notin P
      <4>1. d[i] = Max({0, d[i - 1] - Body(list[i])}) /\ d[i - 1] - Body(list[i]) \in Int
        BY <1>11, <3>1, <3>3
      <4> QED BY <1>9, <3>1, <4>1, MaxOfTwo
    <3> QED BY <3>2, <3>3
  <2>3. n \in T
    <3> HIDE DEF T
    <3>1. \A i \in 0..n : i \in T
      BY <1>0, <2>1, <2>2, UpTo
    <3> QED BY <1>0, <3>1
  <2> QED BY <1>17, <2>3
<1> QED BY <1>3, <1>4, <1>5, <1>10, <1>17, <1>18 DEF r

LEMMA DeletedIsTotal ==
  ASSUME NEW list \in Seq(Patches), NEW entries
  PROVE  /\ Keep(list, entries) \in Seq(Patches)
         /\ Deleted(Total(list), list, entries) = Total(Keep(list, entries))
         /\ Total(Keep(list, entries)) \in Nat
         /\ Total(Keep(list, entries)) <= Total(list)
<1> DEFINE P == {i \in DOMAIN list : PatchKey(list[i]) \in Range(entries)}
<1>1. Keep(list, entries) = At(list, P)
  BY DEF Keep, Where
<1>2. P \subseteq DOMAIN list /\ \A i \in DOMAIN list : i \in P <=> PatchKey(list[i]) \in Range(entries)
  OBVIOUS
<1> HIDE DEF P
<1> QED BY <1>1, <1>2, DeletedIsTotalAt

(* trimBodies, of patches that are counted: they still are, within the     *)
(* limit, and no patch has changed but for its diff.                       *)
Trimmed(x, list, i, rest) ==
  /\ x.list \in Seq(Patches) /\ Len(x.list) = i
  /\ \A j \in 1..i : x.list[j] = list[j] \/ x.list[j] = [list[j] EXCEPT !.expired = TRUE]
  /\ x.bytes = Total(x.list) + rest
  /\ x.bytes <= MAX_BODY_BYTES \/ Total(x.list) = 0

LEMMA OneTrimmed ==
  ASSUME NEW x, NEW list \in Seq(Patches), NEW i \in 1..Len(list), NEW rest \in Nat,
         Trimmed(x, list, i - 1, rest), Body(list[i]) <= rest, NEW y,
         x \in [bytes : Int, list : Seq(Patches)],
         y = IF x.bytes <= MAX_BODY_BYTES \/ Body(list[i]) = 0
             THEN [x EXCEPT !.list = Append(@, list[i])]
             ELSE [bytes |-> x.bytes - list[i].size,
                   list |-> Append(x.list, [list[i] EXCEPT !.expired = TRUE])]
  PROVE  Trimmed(y, list, i, rest - Body(list[i]))
<1>0. Len(list) \in Nat /\ i \in Nat /\ list[i] \in Patches /\ MAX_BODY_BYTES \in Nat
  BY LimitsAssumption
<1> DEFINE p == list[i]
           q == [list[i] EXCEPT !.expired = TRUE]
<1>1. /\ Body(p) \in Nat /\ p.size \in Nat /\ (Body(p) # 0 => Body(p) = p.size)
      /\ q \in Patches /\ Body(q) = 0
  BY <1>0, BodyIs
<1>2. /\ x.list \in Seq(Patches) /\ Len(x.list) = i - 1
      /\ \A j \in 1..(i - 1) : x.list[j] = list[j] \/ x.list[j] = [list[j] EXCEPT !.expired = TRUE]
      /\ x.bytes = Total(x.list) + rest
      /\ x.bytes <= MAX_BODY_BYTES \/ Total(x.list) = 0
  BY DEF Trimmed
<1>3. ASSUME NEW c \in {p, q}
      PROVE  /\ Append(x.list, c) \in Seq(Patches) /\ Len(Append(x.list, c)) = i
             /\ \A j \in 1..i : Append(x.list, c)[j] = list[j]
                                \/ Append(x.list, c)[j] = [list[j] EXCEPT !.expired = TRUE]
             /\ Total(Append(x.list, c)) = Total(x.list) + Body(c) /\ Total(x.list) \in Nat
  <2>0. c \in Patches
    BY <1>0, <1>1
  <2> DEFINE z == Append(x.list, c)
  <2>1. z \in Seq(Patches) /\ Len(z) = i /\ z[i] = c /\ \A j \in 1..(i - 1) : z[j] = x.list[j]
    BY <1>0, <1>2, <2>0, AppendProperties
  <2>2. Total(z) = Total(x.list) + Body(c) /\ Total(x.list) \in Nat
    BY <1>2, <2>0, TotalOfAppended
  <2> HIDE DEF z
  <2>3. \A j \in 1..i : z[j] = list[j] \/ z[j] = [list[j] EXCEPT !.expired = TRUE]
    <3> SUFFICES ASSUME NEW j \in 1..i PROVE z[j] = list[j] \/ z[j] = [list[j] EXCEPT !.expired = TRUE]
      OBVIOUS
    <3>1. CASE j = i
      BY <2>1, <3>1
    <3>2. CASE j # i
      <4>1. j \in 1..(i - 1)
        BY <1>0, <3>2
      <4> QED BY <1>2, <2>1, <4>1
    <3> QED BY <3>1, <3>2
  <2> QED BY <2>1, <2>2, <2>3 DEF z
<1>4. CASE x.bytes <= MAX_BODY_BYTES \/ Body(p) = 0
  <2>1. y = [x EXCEPT !.list = Append(@, p)]
    BY <1>4
  <2>2. y.list = Append(x.list, p) /\ y.bytes = x.bytes
    BY <2>1
  <2> HIDE DEF p
  <2>3. Total(y.list) = Total(x.list) + Body(p) /\ Total(x.list) \in Nat
    BY <1>3, <2>2
  <2>4. y.bytes = Total(y.list) + (rest - Body(p))
    BY <1>1, <1>2, <2>2, <2>3
  <2>5. y.bytes <= MAX_BODY_BYTES \/ Total(y.list) = 0
    BY <1>2, <1>4, <2>2, <2>3
  <2> QED BY <1>3, <2>2, <2>4, <2>5 DEF Trimmed, p
<1>5. CASE ~(x.bytes <= MAX_BODY_BYTES \/ Body(p) = 0)
  <2>1. y = [bytes |-> x.bytes - p.size, list |-> Append(x.list, q)]
    BY <1>5
  <2>2. y.list = Append(x.list, q) /\ y.bytes = x.bytes - p.size
    BY <2>1
  <2> HIDE DEF p, q
  <2>3. Total(y.list) = Total(x.list) /\ Total(x.list) \in Nat
    <3>1. q \in {p, q}
      OBVIOUS
    <3>2. Total(Append(x.list, q)) = Total(x.list) + Body(q) /\ Total(x.list) \in Nat
      BY <1>3, <3>1
    <3>3. Total(y.list) = Total(Append(x.list, q))
      BY <2>2
    <3>4. Body(q) = 0
      BY <1>1
    <3> QED BY <3>2, <3>3, <3>4
  <2>4. y.bytes = Total(y.list) + (rest - Body(p))
    BY <1>1, <1>2, <1>5, <2>2, <2>3
  <2>5. Total(y.list) = 0
    BY <1>2, <1>5, <2>3
  <2> QED BY <1>3, <2>2, <2>4, <2>5 DEF Trimmed, p
<1> QED BY <1>4, <1>5

LEMMA TrimBodiesKeeps ==
  ASSUME NEW list \in Seq(Patches), NEW bytes, bytes = Total(list)
  PROVE  LET state == TrimBodies(list, bytes)
         IN  /\ state.list \in Seq(Patches) /\ Len(state.list) = Len(list)
             /\ \A j \in 1..Len(list) :
                   state.list[j] = list[j] \/ state.list[j] = [list[j] EXCEPT !.expired = TRUE]
             /\ state.bytes = Total(state.list) /\ state.bytes \in Nat
             /\ state.bytes <= MAX_BODY_BYTES
<1> DEFINE n == Len(list)
<1>1. PICK t : Adds(t, list) /\ Total(list) = t[n]
  BY TotalIs
<1>2. /\ n \in Nat /\ \A i \in 1..n : Body(list[i]) \in Nat
      /\ \A i \in 0..n : t[i] \in Nat /\ t[i] <= t[n]
  BY <1>1, AddsGrow
<1>3. t[0] = 0 /\ \A i \in 1..n : t[i] = t[i - 1] + Body(list[i])
  BY <1>1 DEF Adds
<1>4. bytes \in Nat /\ bytes = t[n]
  BY <1>1, <1>2
<1>5. PICK v : Expires(v, list, bytes) /\ TrimBodies(list, bytes) = v[n]
  BY <1>4, TrimBodiesIs
<1> DEFINE S == {i \in 0..n : Trimmed(v[i], list, i, t[n] - t[i])}
<1>6. 0 \in S
  <2>1. v[0].list = <<>> /\ v[0].bytes = bytes
    BY <1>5 DEF Expires
  <2>2. <<>> \in Seq(Patches) /\ Len(<<>>) = 0
    OBVIOUS
  <2>3. Total(<<>>) = 0
    <3>1. PICK w : Adds(w, <<>>) /\ Total(<<>>) = w[0]
      BY <2>2, TotalIs
    <3> QED BY <3>1 DEF Adds
  <2>4. \A j \in 1..0 : FALSE
    OBVIOUS
  <2>5. Trimmed(v[0], list, 0, t[n] - t[0])
    BY <1>2, <1>3, <1>4, <2>1, <2>2, <2>3, <2>4 DEF Trimmed
  <2> QED BY <1>2, <2>5
<1>7. ASSUME NEW i \in 1..n, i - 1 \in S PROVE i \in S
  <2>1. i \in 0..n /\ i - 1 \in 0..n
    BY <1>2
  <2>2. v[i - 1] \in [bytes : Int, list : Seq(Patches)]
    BY <1>5, <2>1 DEF Expires
  <2>3. v[i] = IF v[i - 1].bytes <= MAX_BODY_BYTES \/ Body(list[i]) = 0
               THEN [v[i - 1] EXCEPT !.list = Append(@, list[i])]
               ELSE [bytes |-> v[i - 1].bytes - list[i].size,
                     list |-> Append(v[i - 1].list, [list[i] EXCEPT !.expired = TRUE])]
    BY <1>5 DEF Expires
  <2> DEFINE rest == t[n] - t[i - 1]
  <2>4. rest \in Nat /\ Body(list[i]) <= rest /\ rest - Body(list[i]) = t[n] - t[i]
    <3>1. t[i] \in Nat /\ t[i - 1] \in Nat /\ t[n] \in Nat /\ t[i] <= t[n] /\ t[i - 1] <= t[n]
      BY <1>2, <2>1
    <3>2. Body(list[i]) \in Nat /\ t[i] = t[i - 1] + Body(list[i])
      BY <1>2, <1>3
    <3> QED BY <3>1, <3>2
  <2>5. Trimmed(v[i - 1], list, i - 1, rest)
    BY <1>7
  <2> HIDE DEF rest
  <2>6. Trimmed(v[i], list, i, rest - Body(list[i]))
    BY <2>2, <2>3, <2>4, <2>5, OneTrimmed
  <2> QED BY <2>1, <2>4, <2>6
<1>8. n \in S
  <2> HIDE DEF S
  <2>1. \A i \in 0..n : i \in S
    <3> HIDE DEF n
    <3> QED BY <1>2, <1>6, <1>7, UpTo
  <2> QED BY <1>2, <2>1
<1>9. Trimmed(v[n], list, n, 0)
  BY <1>2, <1>4, <1>8
<1> HIDE DEF n, S
<1>10. v[n].list \in Seq(Patches) /\ Total(v[n].list) \in Nat
  <2>1. v[n].list \in Seq(Patches)
    BY <1>9 DEF Trimmed
  <2>2. PICK w : Adds(w, v[n].list) /\ Total(v[n].list) = w[Len(v[n].list)]
    BY <2>1, TotalIs
  <2> QED BY <2>1, <2>2, AddsGrow
<1>11. MAX_BODY_BYTES \in Nat
  BY LimitsAssumption
<1>12. v[n].bytes = Total(v[n].list) /\ v[n].bytes <= MAX_BODY_BYTES
  BY <1>9, <1>10, <1>11 DEF Trimmed
<1> QED BY <1>5, <1>9, <1>10, <1>12 DEF Trimmed, n

----------------------------------------------------------------------------
(* The invariant of the panel: a patch is one of its run and call, the     *)
(* counter is that of the diffs kept, and every mark shown has a review    *)
(* that the user gave.                                                     *)
Distinct(list) ==
  \A a, b \in DOMAIN list : list[a].run = list[b].run /\ list[a].id = list[b].id => a = b

Review(patch) == [run |-> patch.run, id |-> patch.id, version |-> patch.version]

(* What the panel says of a patch, given what the user has marked.         *)
ShownTruly(patch, given) == patch.reviewed => Review(patch) \in given

RunsOK ==
  /\ started \in 0..MaxStarts /\ retainedRuns \in Seq(1..started) /\ Len(retainedRuns) <= MAX_RUNS

EntriesOK ==
  /\ metadata \in Seq(Range(metadata)) /\ running \subseteq Range(metadata)
  /\ \A entry \in Range(metadata) : entry[2] \in Range(retainedRuns)
  /\ \/ Len(metadata) <= MAX_METADATA
     \/ \A entry \in Range(metadata) : entry \in running \/ entry[1] = "command"

PatchesOK ==
  /\ patches \in Seq(Patches) /\ Distinct(patches)
  /\ \A patch \in Range(patches) : PatchKey(patch) \in Range(metadata) /\ ShownTruly(patch, marked)
  /\ bodyBytes = Total(patches) /\ bodyBytes <= MAX_BODY_BYTES

ReviewsOK ==
  /\ reviewedPatches \in Seq(Range(reviewedPatches))
  /\ Len(reviewedPatches) <= MAX_REVIEWED_PATCHES
  /\ \A review \in Range(reviewedPatches) :
        /\ review.run \in Range(retainedRuns) \cup {0}
        /\ review.run # 0 => review \in marked

UiInv == RunsOK /\ EntriesOK /\ PatchesOK /\ ReviewsOK

LEMMA UiInvThen == UiInv => UiTypeOK /\ PanelIsTrue
<1> SUFFICES ASSUME UiInv PROVE UiTypeOK /\ PanelIsTrue
  OBVIOUS
<1>1. UiTypeOK
  BY DEF UiInv, RunsOK, EntriesOK, PatchesOK, ReviewsOK, UiTypeOK
<1>2. BodiesAreCounted
  BY DEF UiInv, PatchesOK, BodiesAreCounted, Total
<1>3. EntriesAreBounded /\ RunsAreRetained
  BY DEF UiInv, EntriesOK, ReviewsOK, EntriesAreBounded, RunsAreRetained
<1>4. ReviewsAreTrue
  <2>1. \A patch \in Range(patches) : ShownTruly(patch, marked)
    BY DEF UiInv, PatchesOK
  <2> QED BY <2>1, Zenon DEF ReviewsAreTrue, ShownTruly, Review
<1> QED BY <1>1, <1>2, <1>3, <1>4 DEF PanelIsTrue

(* The new entries in any order are those entries.                         *)
LEMMA NewestAre ==
  ASSUME NEW S, IsFiniteSet(S), NEW f \in SetToSeqs(S)
  PROVE  f \in Seq(S) /\ Range(f) = S
<1> DEFINE n == Cardinality(S)
<1>1. n \in Nat
  BY FS_CardinalityType
<1>2. f \in [1..n -> S] /\ \A i, j \in 1..n : i # j => f[i] # f[j]
  BY DEF SetToSeqs
<1>3. f \in Injection(1..n, S)
  BY <1>2 DEF Injection, IsInjective
<1>4. Cardinality(1..n) = n
  BY <1>1, FS_Interval
<1>5. f \in Surjection(1..n, S)
  <2> HIDE DEF n
  <2>1. Cardinality(1..n) = Cardinality(S) <=> f \in Surjection(1..n, S)
    BY <1>3, FS_Injection
  <2> QED BY <1>4, <2>1 DEF n
<1>6. \A x \in S : \E i \in 1..n : f[i] = x
  BY <1>5 DEF Surjection
<1> HIDE DEF n
<1> QED BY <1>1, <1>2, <1>6 DEF Range

LEMMA KeepIs ==
  ASSUME NEW list \in Seq(Patches), NEW entries
  PROVE  LET r == Keep(list, entries)
         IN  /\ r \in Seq(Patches) /\ Range(r) \subseteq Range(list)
             /\ \A p \in Range(r) : PatchKey(p) \in Range(entries)
             /\ Distinct(list) => Distinct(r)
<1> DEFINE P == {i \in DOMAIN list : PatchKey(list[i]) \in Range(entries)}
<1>0. Keep(list, entries) = At(list, P)
  BY DEF Keep, Where
<1>1. ASSUME NEW Q, Q = P
      PROVE  LET r == At(list, Q)
             IN  /\ r \in Seq(Patches) /\ Range(r) \subseteq Range(list)
                 /\ \A p \in Range(r) : PatchKey(p) \in Range(entries)
                 /\ Distinct(list) => Distinct(r)
  <2>1. Q \subseteq DOMAIN list /\ \A i \in Q : PatchKey(list[i]) \in Range(entries)
    BY <1>1
  <2> HIDE DEF P
  <2>2. At(list, Q) \in Seq(Patches) /\ Range(At(list, Q)) = {list[i] : i \in Q}
    BY <2>1, AtKeeps
  <2>3. Len(list) \in Nat /\ Q \subseteq 1..Len(list)
    BY <2>1
  <2>4. PICK g : Ordered(g, Q) /\ At(list, Q) = [k \in 1..Cardinality(Q) |-> list[g[k]]]
    BY <2>3, AtIs
  <2>5. ASSUME Distinct(list) PROVE Distinct(At(list, Q))
    <3> DEFINE r == At(list, Q)
    <3>1. SUFFICES ASSUME NEW a \in DOMAIN r, NEW b \in DOMAIN r, r[a].run = r[b].run, r[a].id = r[b].id
                   PROVE a = b
      BY DEF Distinct
    <3>2. a \in 1..Cardinality(Q) /\ b \in 1..Cardinality(Q) /\ r[a] = list[g[a]] /\ r[b] = list[g[b]]
      BY <2>4
    <3> HIDE DEF r
    <3>3. g[a] \in Q /\ g[b] \in Q /\ Rank(g[a], Q) = a /\ Rank(g[b], Q) = b
      BY <2>4, <3>2 DEF Ordered
    <3>4. g[a] = g[b]
      BY <1>1, <2>1, <2>5, <3>1, <3>2, <3>3 DEF Distinct
    <3> QED BY <3>3, <3>4
  <2> QED BY <2>1, <2>2, <2>5 DEF Range
<1> HIDE DEF P
<1> QED BY <1>0, <1>1

LEMMA CurrentIs == ASSUME RunsOK, retainedRuns # <<>> PROVE Current \in Range(retainedRuns)
<1>1. retainedRuns \in Seq(1..started) /\ Len(retainedRuns) \in DOMAIN retainedRuns
  BY DEF RunsOK
<1> QED BY <1>1 DEF Current, Last, Range

(* Whatever an event brings, entries and patches are kept as they should.  *)
LEMMA EnterKeeps ==
  ASSUME NEW entries, NEW busy, NEW list \in Seq(Patches), NEW bytes,
         UiInv, retainedRuns # <<>>, Enter(entries, busy, list, bytes), UNCHANGED Keepers,
         IsFiniteSet(entries), \A e \in entries : e[2] = Current,
         busy \subseteq running \cup entries,
         bytes = Total(list), bytes <= MAX_BODY_BYTES, Distinct(list),
         \A patch \in Range(list) : ShownTruly(patch, marked)
  PROVE  UiInv'
<1> DEFINE S == entries \cup {<<"log", Current>>}
           old == Where(metadata, LAMBDA entry : entry \notin entries)
<1>0. IsFiniteSet(S)
  BY FS_AddElement
<1>1. PICK newest \in SetToSeqs(S) :
         /\ metadata' = Trim(old \o newest, busy)
         /\ running' = busy
         /\ patches' = Keep(list, metadata') /\ bodyBytes' = Deleted(bytes, list, metadata')
  BY DEF Enter
<1>2. newest \in Seq(S) /\ Range(newest) = S
  <2> HIDE DEF S
  <2> QED BY <1>0, NewestAre
<1> DEFINE X == Range(metadata) \cup S
           K == Range(metadata) \ entries
<1>3. metadata \in Seq(Range(metadata)) /\ running \subseteq Range(metadata)
      /\ \A entry \in Range(metadata) : entry[2] \in Range(retainedRuns)
  BY DEF UiInv, EntriesOK
<1>4. old = Of(metadata, K)
  <2>1. DOMAIN metadata = 1..Len(metadata) /\ \A i \in DOMAIN metadata : metadata[i] \in Range(metadata)
    BY <1>3 DEF Range
  <2>2. {i \in DOMAIN metadata : metadata[i] \notin entries} = {i \in DOMAIN metadata : metadata[i] \in K}
    BY <2>1
  <2> QED BY <2>2 DEF Where, Of
<1> HIDE DEF old
<1>5. old \in Seq(Range(metadata)) /\ Range(old) = K
  <2> HIDE DEF K
  <2>1. Of(metadata, K) \in Seq(Range(metadata)) /\ Range(Of(metadata, K)) = Range(metadata) \cap K
    BY <1>3, OfIs
  <2> QED BY <1>4, <2>1 DEF K
<1> DEFINE all == old \o newest
<1>6. all \in Seq(X) /\ Range(all) = K \cup S
  <2>1. old \in Seq(X) /\ newest \in Seq(X)
    <3>1. \A A, B : A \subseteq B => Seq(A) \subseteq Seq(B)
      OBVIOUS
    <3> HIDE DEF S
    <3> QED BY <1>2, <1>5, <3>1
  <2> HIDE DEF X, K, S
  <2> QED BY <1>2, <1>5, <2>1, ConcatProperties, RangeConcatenation
<1> HIDE DEF all
<1>7. /\ metadata' \in Seq(X) /\ Range(metadata') \subseteq K \cup S
      /\ (K \cup S) \cap busy \subseteq Range(metadata')
      /\ Len(metadata') <= MAX_METADATA \/ Range(metadata') \subseteq busy
  <2> HIDE DEF X, K, S
  <2>1. metadata' = Trim(all, busy)
    BY <1>1 DEF all
  <2> QED BY <1>6, <2>1, TrimIs
<1>8. retainedRuns' = retainedRuns /\ started' = started /\ reviewedPatches' = reviewedPatches
      /\ marked' = marked
  BY DEF Keepers
<1>9. RunsOK'
  BY <1>8 DEF UiInv, RunsOK
<1>10. EntriesOK'
  <2>1. metadata' \in Seq(Range(metadata'))
    <3> HIDE DEF X
    <3>1. PICK m : m = metadata'
      OBVIOUS
    <3> QED BY <1>7, <3>1, SeqOfRange
  <2>2. running' \subseteq Range(metadata')
    BY <1>1, <1>3, <1>7
  <2>3. \A entry \in Range(metadata') : entry[2] \in Range(retainedRuns')
    <3>1. Current \in Range(retainedRuns)
      BY CurrentIs DEF UiInv
    <3>2. \A entry \in S : entry[2] = Current
      OBVIOUS
    <3> QED BY <1>3, <1>7, <1>8, <3>1, <3>2
  <2> HIDE DEF S, K, X
  <2> QED BY <1>1, <1>7, <2>1, <2>2, <2>3 DEF EntriesOK
<1>11. PatchesOK'
  <2>1. PICK m : m = metadata'
    OBVIOUS
  <2>2. /\ Keep(list, m) \in Seq(Patches) /\ Range(Keep(list, m)) \subseteq Range(list)
        /\ \A p \in Range(Keep(list, m)) : PatchKey(p) \in Range(m)
        /\ Distinct(Keep(list, m))
    BY KeepIs
  <2>3. Deleted(Total(list), list, m) = Total(Keep(list, m)) /\ Total(Keep(list, m)) \in Nat
        /\ Total(Keep(list, m)) <= Total(list)
    BY DeletedIsTotal
  <2>4. PICK ps : ps = patches'
    OBVIOUS
  <2>5. ps = Keep(list, m) /\ bodyBytes' = Deleted(bytes, list, m)
    BY <1>1, <2>1, <2>4
  <2>6. bodyBytes' = Total(ps) /\ bodyBytes' <= MAX_BODY_BYTES
    <3>1. Total(list) \in Nat /\ MAX_BODY_BYTES \in Nat
      BY LimitsAssumption, TotalIsNat
    <3> QED BY <2>3, <2>5, <3>1
  <2>7. ps \in Seq(Patches) /\ Distinct(ps)
        /\ \A patch \in Range(ps) : PatchKey(patch) \in Range(m) /\ ShownTruly(patch, marked)
    BY <2>2, <2>5
  <2> QED BY <1>8, <2>1, <2>4, <2>6, <2>7 DEF PatchesOK
<1>12. ReviewsOK'
  BY <1>8 DEF UiInv, ReviewsOK
<1> QED BY <1>9, <1>10, <1>11, <1>12 DEF UiInv

LEMMA Appended1 ==
  ASSUME NEW X, NEW s \in Seq(X), NEW x \in X
  PROVE  /\ Append(s, x) \in Seq(X) /\ Range(Append(s, x)) = Range(s) \cup {x}
         /\ Len(Append(s, x)) = Len(s) + 1 /\ Len(s) \in Nat
<1> DEFINE z == Append(s, x)
<1>1. z \in Seq(X) /\ Len(z) = Len(s) + 1 /\ Len(s) \in Nat /\ DOMAIN s = 1..Len(s)
      /\ DOMAIN z = 1..(Len(s) + 1) /\ z[Len(s) + 1] = x /\ \A i \in 1..Len(s) : z[i] = s[i]
  BY AppendProperties
<1> HIDE DEF z
<1>2. \A i \in DOMAIN z : z[i] \in Range(s) \cup {x}
  <2> SUFFICES ASSUME NEW i \in DOMAIN z PROVE z[i] \in Range(s) \cup {x}
    OBVIOUS
  <2>1. i = Len(s) + 1 \/ i \in 1..Len(s)
    BY <1>1
  <2> QED BY <1>1, <2>1 DEF Range
<1>3. \A i \in DOMAIN s : i \in DOMAIN z /\ z[i] = s[i]
  BY <1>1
<1>4. Len(s) + 1 \in DOMAIN z
  BY <1>1
<1>5. Range(s) \cup {x} \subseteq Range(z)
  BY <1>1, <1>3, <1>4 DEF Range
<1>6. Range(z) \subseteq Range(s) \cup {x}
  BY <1>2 DEF Range
<1> QED BY <1>1, <1>5, <1>6 DEF z

(* The places of a selection.                                              *)
Selects(P, list, K) ==
  P \subseteq DOMAIN list /\ \A i \in DOMAIN list : i \in P <=> list[i] \in K

LEMMA WhereIs ==
  ASSUME NEW X, NEW list \in Seq(X), NEW K, NEW P, Selects(P, list, K)
  PROVE  /\ At(list, P) \in Seq(X) /\ At(list, P) \in Seq(Range(At(list, P)))
         /\ Range(At(list, P)) = Range(list) \cap K
         /\ Len(At(list, P)) \in Nat /\ Len(At(list, P)) <= Len(list)
         /\ ~(Range(list) \subseteq K) => Len(At(list, P)) < Len(list)
<1>1. At(list, P) = Of(list, K)
  <2>1. P = {i \in DOMAIN list : list[i] \in K}
    BY DEF Selects
  <2> QED BY <2>1 DEF Of
<1>2. /\ Of(list, K) \in Seq(X) /\ Len(Of(list, K)) \in Nat
      /\ Range(Of(list, K)) = Range(list) \cap K
      /\ Len(Of(list, K)) <= Len(list)
      /\ ~(Range(list) \subseteq K) => Len(Of(list, K)) < Len(list)
  BY OfIs
<1> QED BY <1>1, <1>2, SeqOfRange

(* The runs that go when one too many is kept, and the places that stay.   *)
Drops(dropped, runs) == dropped = {runs[i] : i \in 1..(Len(runs) - MAX_RUNS)}
Stays(P, runs, dropped) == P = {i \in DOMAIN runs : runs[i] \notin dropped}

(* The oldest run is dropped, if there are too many, never the new one.    *)
LEMMA RunStarts ==
  ASSUME RunsOK, started < MaxStarts, started' = started + 1, NEW dropped, NEW runs, NEW P,
         runs = Append(retainedRuns, started + 1),
         Drops(dropped, runs), Stays(P, runs, dropped), retainedRuns' = At(runs, P)
  PROVE  /\ RunsOK' /\ started + 1 \notin dropped
         /\ Range(retainedRuns') = (Range(retainedRuns) \cup {started + 1}) \ dropped
         /\ dropped \subseteq Nat \ {0}
<1>0. started \in Nat /\ MaxStarts \in Nat /\ started <= MaxStarts /\ MAX_RUNS \in Nat /\ MAX_RUNS >= 1
      /\ retainedRuns \in Seq(1..started) /\ Len(retainedRuns) <= MAX_RUNS /\ Len(retainedRuns) \in Nat
  <2>1. MaxStarts \in Nat
    BY LimitsAssumption
  <2> QED BY <2>1, RunsAssumption, LenProperties DEF RunsOK
<1> DEFINE X == 1..(started + 1)
<1>1. retainedRuns \in Seq(X) /\ started + 1 \in X
  <2>1. 1..started \subseteq X
    BY <1>0
  <2> HIDE DEF X
  <2>2. retainedRuns \in Seq(X)
    BY <1>0, <2>1, SeqMonotonic
  <2> QED BY <1>0, <2>2 DEF X
<1> HIDE DEF X
<1>2. /\ runs \in Seq(X) /\ Range(runs) = Range(retainedRuns) \cup {started + 1}
      /\ Len(runs) = Len(retainedRuns) + 1
  BY <1>1, Appended1
<1>3. /\ DOMAIN runs = 1..Len(runs)
      /\ \A i \in 1..Len(retainedRuns) : runs[i] = retainedRuns[i] /\ retainedRuns[i] \in 1..started
  <2>1. \A i \in 1..Len(retainedRuns) : retainedRuns[i] \in 1..started
    BY <1>0, ElementOfSeq
  <2> QED BY <1>1, <1>2, <2>1, AppendProperties, LenProperties
<1>4. \A i \in 1..(Len(runs) - MAX_RUNS) : i \in 1..Len(retainedRuns)
  BY <1>0, <1>2
<1>5. dropped \subseteq 1..started /\ dropped \subseteq Range(runs)
  <2>1. \A i \in 1..(Len(runs) - MAX_RUNS) : runs[i] \in 1..started
    BY <1>3, <1>4
  <2>2. \A i \in 1..(Len(runs) - MAX_RUNS) : i \in DOMAIN runs
    BY <1>0, <1>2, <1>3, <1>4
  <2> QED BY <2>1, <2>2 DEF Range, Drops
<1>6. started + 1 \notin dropped /\ dropped \subseteq Nat \ {0}
  BY <1>0, <1>5
<1> DEFINE K == X \ dropped
<1>8. /\ At(runs, P) \in Seq(X)
      /\ Range(At(runs, P)) = Range(runs) \cap K
      /\ Len(At(runs, P)) \in Nat /\ Len(At(runs, P)) <= Len(runs)
      /\ ~(Range(runs) \subseteq K) => Len(At(runs, P)) < Len(runs)
  <2>1. runs \in Seq(X) /\ \A i \in DOMAIN runs : runs[i] \in X
    BY <1>2
  <2>2. Selects(P, runs, K)
    BY <2>1 DEF Selects, Stays
  <2> HIDE DEF K
  <2> QED BY ONLY <2>1, <2>2, WhereIs
<1>9. Range(runs) \subseteq X
  BY <1>2, RangeOfSeq
<1>10. Len(At(runs, P)) <= MAX_RUNS
  <2>1. CASE Len(runs) <= MAX_RUNS
    BY <1>0, <1>2, <1>8, <2>1
  <2>2. CASE ~(Len(runs) <= MAX_RUNS)
    <3>1. 1 \in 1..(Len(runs) - MAX_RUNS)
      BY <1>0, <1>2, <2>2
    <3>2. runs[1] \in dropped
      BY <3>1 DEF Drops
    <3>3. ~(Range(runs) \subseteq K)
      BY <1>5, <3>2
    <3> QED BY <1>0, <1>2, <1>8, <3>3
  <2> QED BY <2>1, <2>2
<1>11. Range(At(runs, P)) = (Range(retainedRuns) \cup {started + 1}) \ dropped
  BY <1>2, <1>8, <1>9
<1>12. RunsOK'
  <2>1. started + 1 \in 0..MaxStarts
    BY <1>0
  <2> QED BY <1>8, <1>10, <2>1 DEF RunsOK, X
<1> QED BY <1>6, <1>11, <1>12

(* What is left of a run that starts: the entries, patches and reviews of  *)
(* the runs that stay.                                                     *)
LEMMA StartRunKeeps == ASSUME UiInv, StartRun PROVE UiInv'
<1> DEFINE n == started + 1
           runs == Append(retainedRuns, n)
           dropped == {runs[i] : i \in 1..(Len(runs) - MAX_RUNS)}
           P == {i \in DOMAIN metadata : metadata[i][2] \notin dropped}
           Q == {i \in DOMAIN reviewedPatches : reviewedPatches[i].run \notin dropped}
           left == At(metadata, P)
           log == <<"log", n>>
<1>1. /\ started < MaxStarts /\ started' = n /\ marked' = marked
      /\ retainedRuns' = At(runs, {i \in DOMAIN runs : runs[i] \notin dropped})
      /\ running' = {entry \in running : entry[2] \notin dropped}
      /\ metadata' = Trim(Append(left, log), running')
      /\ patches' = Keep(patches, metadata')
      /\ bodyBytes' = Deleted(bodyBytes, patches, metadata')
      /\ reviewedPatches' = At(reviewedPatches, Q)
  BY DEF StartRun, Where
<1>i. RunsOK /\ EntriesOK /\ PatchesOK /\ ReviewsOK
  BY DEF UiInv
<1>2. /\ RunsOK' /\ n \notin dropped
      /\ Range(retainedRuns') = (Range(retainedRuns) \cup {n}) \ dropped
      /\ dropped \subseteq Nat \ {0}
  <2> DEFINE Z == {i \in DOMAIN runs : runs[i] \notin dropped}
  <2>1. Drops(dropped, runs) /\ Stays(Z, runs, dropped)
    BY DEF Drops, Stays
  <2>2. retainedRuns' = At(runs, Z) /\ runs = Append(retainedRuns, started + 1)
    BY <1>1
  <2>3. started' = started + 1 /\ started < MaxStarts
    BY <1>1
  <2> HIDE DEF dropped, runs, Z
  <2>4. /\ RunsOK' /\ started + 1 \notin dropped
        /\ Range(retainedRuns') = (Range(retainedRuns) \cup {started + 1}) \ dropped
        /\ dropped \subseteq Nat \ {0}
    BY ONLY <1>i, <2>1, <2>2, <2>3, RunStarts
  <2> QED BY <2>4
<1> HIDE DEF dropped, runs
<1> DEFINE X == Range(metadata) \cup {log}
           K == {entry \in Range(metadata) : entry[2] \notin dropped}
           Y == Range(reviewedPatches)
           L == {review \in Y : review.run \notin dropped}
<1>3. metadata \in Seq(X) /\ running \subseteq Range(metadata) /\ log \in X
  <2>1. metadata \in Seq(Range(metadata)) /\ running \subseteq Range(metadata)
    BY <1>i DEF EntriesOK
  <2>2. Range(metadata) \subseteq X /\ log \in X
    OBVIOUS
  <2> HIDE DEF X, log
  <2> QED BY <2>1, <2>2, SeqMonotonic
<1>4. left \in Seq(X) /\ Range(left) = K
  <2>1. Selects(P, metadata, K)
    BY DEF Selects, Range
  <2>2. Range(metadata) \cap K = K
    OBVIOUS
  <2> HIDE DEF P, K, X
  <2>3. At(metadata, P) \in Seq(X) /\ Range(At(metadata, P)) = Range(metadata) \cap K
    BY <1>3, <2>1, WhereIs
  <2> QED BY <2>2, <2>3
<1> HIDE DEF left, P
<1> DEFINE all == Append(left, log)
<1>5. all \in Seq(X) /\ Range(all) = K \cup {log}
  <2> HIDE DEF X, K, log
  <2> QED BY <1>3, <1>4, Appended1
<1> HIDE DEF all
<1>6. /\ metadata' \in Seq(X) /\ Range(metadata') \subseteq K \cup {log}
      /\ (K \cup {log}) \cap running' \subseteq Range(metadata')
      /\ Len(metadata') <= MAX_METADATA \/ Range(metadata') \subseteq running'
  <2>1. PICK busy : busy = running'
    OBVIOUS
  <2>2. metadata' = Trim(all, busy)
    BY <1>1, <2>1 DEF all
  <2> HIDE DEF X, K, log
  <2>3. /\ Trim(all, busy) \in Seq(X)
        /\ Range(Trim(all, busy)) \subseteq Range(all)
        /\ Range(all) \cap busy \subseteq Range(Trim(all, busy))
        /\ \/ Len(Trim(all, busy)) <= MAX_METADATA
           \/ Range(Trim(all, busy)) \subseteq busy
    BY <1>5, TrimIs
  <2> QED BY <1>5, <2>1, <2>2, <2>3
<1>7. EntriesOK'
  <2>1. metadata' \in Seq(Range(metadata'))
    <3> HIDE DEF X
    <3>1. PICK m : m = metadata'
      OBVIOUS
    <3> QED BY <1>6, <3>1, SeqOfRange
  <2>2. running' \subseteq Range(metadata')
    <3>1. running' \subseteq K
      BY <1>1, <1>3
    <3> QED BY <1>6, <3>1
  <2>3. \A entry \in Range(metadata') : entry[2] \in Range(retainedRuns')
    <3>1. \A entry \in K : entry[2] \in Range(retainedRuns) /\ entry[2] \notin dropped
      BY <1>i DEF EntriesOK
    <3>2. log[2] = n
      OBVIOUS
    <3> HIDE DEF K, log, X, n
    <3> QED BY <1>2, <1>6, <3>1, <3>2
  <2> HIDE DEF K, X, log
  <2> QED BY <1>6, <2>1, <2>2, <2>3 DEF EntriesOK
<1>8. PatchesOK'
  <2>1. PICK m : m = metadata'
    OBVIOUS
  <2>p. patches \in Seq(Patches) /\ Distinct(patches) /\ bodyBytes = Total(patches)
        /\ bodyBytes <= MAX_BODY_BYTES /\ \A patch \in Range(patches) : ShownTruly(patch, marked)
    BY <1>i DEF PatchesOK
  <2>2. /\ Keep(patches, m) \in Seq(Patches) /\ Range(Keep(patches, m)) \subseteq Range(patches)
        /\ \A p \in Range(Keep(patches, m)) : PatchKey(p) \in Range(m)
        /\ Distinct(Keep(patches, m))
    BY <2>p, KeepIs
  <2>3. Deleted(Total(patches), patches, m) = Total(Keep(patches, m))
        /\ Total(Keep(patches, m)) \in Nat /\ Total(Keep(patches, m)) <= Total(patches)
    BY <2>p, DeletedIsTotal
  <2>4. PICK ps : ps = patches'
    OBVIOUS
  <2>5. ps = Keep(patches, m) /\ bodyBytes' = Deleted(bodyBytes, patches, m)
    BY <1>1, <2>1, <2>4
  <2>6. bodyBytes' = Total(ps) /\ bodyBytes' <= MAX_BODY_BYTES
    <3>1. Total(patches) \in Nat /\ MAX_BODY_BYTES \in Nat
      BY <2>p, LimitsAssumption, TotalIsNat
    <3> QED BY <2>p, <2>3, <2>5, <3>1
  <2>7. ps \in Seq(Patches) /\ Distinct(ps)
        /\ \A patch \in Range(ps) : PatchKey(patch) \in Range(m) /\ ShownTruly(patch, marked)
    BY <2>p, <2>2, <2>5
  <2> QED BY <1>1, <2>1, <2>4, <2>6, <2>7 DEF PatchesOK
<1>9. ReviewsOK'
  <2>1. reviewedPatches \in Seq(Y) /\ Len(reviewedPatches) <= MAX_REVIEWED_PATCHES
    BY <1>i DEF ReviewsOK
  <2>2. Selects(Q, reviewedPatches, L)
    BY DEF Selects, Range
  <2>3. PICK r : r = reviewedPatches'
    OBVIOUS
  <2>4. r = At(reviewedPatches, Q)
    BY <1>1, <2>3
  <2> HIDE DEF Q
  <2>5. r \in Seq(Range(r)) /\ Range(r) \subseteq L /\ Len(r) <= Len(reviewedPatches)
        /\ Len(r) \in Nat
    <3> HIDE DEF L, Y
    <3>1. At(reviewedPatches, Q) \in Seq(Range(At(reviewedPatches, Q)))
          /\ Range(At(reviewedPatches, Q)) = Range(reviewedPatches) \cap L
          /\ Len(At(reviewedPatches, Q)) \in Nat
          /\ Len(At(reviewedPatches, Q)) <= Len(reviewedPatches)
      BY <2>1, <2>2, WhereIs
    <3> QED BY <2>4, <3>1
  <2>6. Len(r) <= MAX_REVIEWED_PATCHES
    <3>1. Len(reviewedPatches) \in Nat /\ MAX_REVIEWED_PATCHES \in Nat
      BY <2>1, LimitsAssumption
    <3> QED BY <2>1, <2>5, <3>1
  <2>7. \A review \in L : review.run \in Range(retainedRuns') \cup {0} /\ (review.run # 0 => review \in marked)
    <3>1. \A review \in L : review.run \in Range(retainedRuns) \cup {0} /\ review.run \notin dropped
             /\ (review.run # 0 => review \in marked)
      BY <1>i DEF ReviewsOK
    <3> QED BY <1>2, <3>1
  <2> QED BY <1>1, <2>3, <2>5, <2>6, <2>7 DEF ReviewsOK
<1> QED BY <1>2, <1>7, <1>8, <1>9 DEF UiInv

LEMMA CommandEndsKeeps ==
  ASSUME UiInv, NEW c \in Ids, CommandEnds(c) PROVE UiInv'
<1> DEFINE command == <<"command", Current, c>>
           P == {i \in DOMAIN metadata : metadata[i] # command}
           X == Range(metadata)
           K == X \ {command}
           left == At(metadata, P)
<1>1. /\ command \in running /\ running' = running \ {command}
      /\ metadata' = Append(left, command)
      /\ UNCHANGED <<patches, bodyBytes, retainedRuns, started, reviewedPatches, marked>>
  BY DEF CommandEnds, Where, Keepers
<1>i. RunsOK /\ EntriesOK /\ PatchesOK /\ ReviewsOK
  BY DEF UiInv
<1>2. metadata \in Seq(X) /\ running \subseteq X /\ Len(metadata) \in Nat
      /\ \A entry \in X : entry[2] \in Range(retainedRuns)
  BY <1>i, LenProperties DEF EntriesOK
<1>3. Selects(P, metadata, K)
  BY DEF Selects, Range
<1>4. command \in X /\ ~(X \subseteq K) /\ K \subseteq X
  BY <1>1, <1>2
<1>c. command[1] = "command"
  OBVIOUS
<1> HIDE DEF X, K, P, command, left
<1>5. left \in Seq(X) /\ Range(left) = Range(metadata) \cap K
      /\ Len(left) \in Nat /\ Len(left) < Len(metadata)
  <2>1. left = At(metadata, P) /\ ~(Range(metadata) \subseteq K)
    BY <1>4 DEF left, X
  <2> QED BY ONLY <1>2, <1>3, <2>1, WhereIs
<1>6. Range(left) = X \ {command}
  BY <1>5 DEF X, K
<1>7. metadata' \in Seq(X) /\ Range(metadata') = X /\ Len(metadata') <= Len(metadata)
      /\ Len(metadata') \in Nat
  <2>1. Append(left, command) \in Seq(X) /\ Range(Append(left, command)) = Range(left) \cup {command}
        /\ Len(Append(left, command)) = Len(left) + 1
    BY <1>4, <1>5, Appended1
  <2>2. Len(left) + 1 <= Len(metadata) /\ Len(left) + 1 \in Nat
    BY <1>2, <1>5
  <2> QED BY <1>1, <1>4, <1>6, <2>1, <2>2
<1>8. RunsOK' /\ ReviewsOK'
  BY <1>1, <1>i DEF RunsOK, ReviewsOK
<1>9. PatchesOK'
  <2>1. \A patch \in Range(patches) : PatchKey(patch) \in X
    BY <1>i DEF PatchesOK, X
  <2> QED BY <1>1, <1>i, <1>7, <2>1 DEF PatchesOK
<1>10. EntriesOK'
  <2>1. CASE Len(metadata) <= MAX_METADATA
    <3>1. Len(metadata') <= MAX_METADATA
      <4>1. PICK m : m = Len(metadata')
        OBVIOUS
      <4>2. MAX_METADATA \in Nat /\ m \in Nat /\ m <= Len(metadata)
        BY <1>7, <4>1, LimitsAssumption
      <4>3. m <= MAX_METADATA
        BY <1>2, <2>1, <4>2
      <4> QED BY <4>1, <4>3
    <3> QED BY <1>1, <1>2, <1>7, <3>1 DEF EntriesOK
  <2>2. CASE ~(Len(metadata) <= MAX_METADATA)
    <3>1. \A entry \in X : entry \in running \/ entry[1] = "command"
      BY <1>i, <2>2 DEF EntriesOK, X
    <3>2. \A entry \in X : entry \in running' \/ entry[1] = "command"
      BY <1>1, <1>c, <3>1
    <3> QED BY <1>1, <1>2, <1>7, <3>2 DEF EntriesOK
  <2> QED BY <2>1, <2>2
<1> QED BY <1>8, <1>9, <1>10 DEF UiInv

LEMMA MarkedIs ==
  ASSUME NEW p \in Patches, NEW b \in BOOLEAN, NEW q, q = [p EXCEPT !.reviewed = b]
  PROVE  /\ q \in Patches /\ Body(q) = Body(p) /\ PatchKey(q) = PatchKey(p) /\ Review(q) = Review(p)
         /\ q.run = p.run /\ q.id = p.id /\ q.reviewed = b
<1>1. q \in Patches
  BY DEF Patches
<1>2. q.run = p.run /\ q.id = p.id /\ q.version = p.version /\ q.size = p.size
  BY DEF Patches
<1>3. q.expired = p.expired /\ q.reviewed = b
  BY DEF Patches
<1>4. Body(q) = Body(p)
  BY <1>2, <1>3, Zenon DEF Body
<1> QED BY <1>1, <1>2, <1>3, <1>4 DEF PatchKey, Review

LEMMA ExpiredIs ==
  ASSUME NEW p \in Patches, NEW q, q = [p EXCEPT !.expired = TRUE]
  PROVE  /\ q \in Patches /\ Review(q) = Review(p) /\ q.run = p.run /\ q.id = p.id
         /\ \A given : ShownTruly(p, given) => ShownTruly(q, given)
<1>1. q \in Patches
  BY DEF Patches
<1>2. q.run = p.run /\ q.id = p.id /\ q.version = p.version
  BY DEF Patches
<1>3. q.reviewed = p.reviewed
  BY DEF Patches
<1>4. Review(q) = Review(p)
  BY <1>2 DEF Review
<1> HIDE DEF Review
<1>5. \A given : ShownTruly(p, given) => ShownTruly(q, given)
  BY <1>3, <1>4, Zenon DEF ShownTruly
<1> QED BY <1>1, <1>2, <1>4, <1>5

LEMMA SetReviewedIs ==
  ASSUME NEW review, reviewedPatches \in Seq(Range(reviewedPatches))
  PROVE  /\ SetReviewed(review) \in Seq(Range(SetReviewed(review)))
         /\ Range(SetReviewed(review)) \subseteq Range(reviewedPatches) \cup {review}
         /\ Len(SetReviewed(review)) <= MAX_REVIEWED_PATCHES
<1> DEFINE X == Range(reviewedPatches) \cup {review}
           same == {k \in DOMAIN reviewedPatches : reviewedPatches[k].run = review.run
                                                   /\ reviewedPatches[k].id = review.id}
           all == IF same = {} THEN Append(reviewedPatches, review)
                  ELSE [k \in DOMAIN reviewedPatches |->
                           IF k \in same THEN review ELSE reviewedPatches[k]]
           n == Len(all)
           m == Max({1, Len(all) - MAX_REVIEWED_PATCHES + 1})
<1>1. SetReviewed(review) = SubSeq(all, m, n)
  BY DEF SetReviewed
<1> HIDE DEF same
<1>2. reviewedPatches \in Seq(X) /\ review \in X
  <2>1. Range(reviewedPatches) \subseteq X /\ review \in X
    OBVIOUS
  <2> HIDE DEF X
  <2> QED BY <2>1, SeqMonotonic
<1> HIDE DEF X
<1>3. all \in Seq(X)
  <2>1. CASE same = {}
    BY <1>2, <2>1, AppendProperties
  <2>2. CASE same # {}
    <3>1. all = [k \in 1..Len(reviewedPatches) |-> IF k \in same THEN review ELSE reviewedPatches[k]]
      BY <1>2, <2>2
    <3>2. Len(reviewedPatches) \in Nat /\ \A k \in 1..Len(reviewedPatches) : reviewedPatches[k] \in X
      BY <1>2
    <3> QED BY <1>2, <3>1, <3>2
  <2> QED BY <2>1, <2>2
<1> HIDE DEF all
<1>4. n \in Nat /\ \A i \in 1..n : all[i] \in X
  BY <1>3
<1>5. MAX_REVIEWED_PATCHES \in Nat
  BY LimitsAssumption
<1>6. m \in Int /\ m >= 1 /\ m >= n - MAX_REVIEWED_PATCHES + 1
  <2> DEFINE S == {1, n - MAX_REVIEWED_PATCHES + 1}
  <2>1. S \subseteq Int /\ S # {} /\ \A y \in S : y <= n + 1
    BY <1>4, <1>5
  <2>2. n + 1 \in Int
    BY <1>4
  <2>3. 1 \in S /\ n - MAX_REVIEWED_PATCHES + 1 \in S
    OBVIOUS
  <2>4. m = Max(S)
    OBVIOUS
  <2> HIDE DEF S, m, n
  <2>5. Max(S) \in S /\ \A y \in S : y <= Max(S)
    BY <2>1, <2>2, MaxFacts
  <2> QED BY <1>4, <1>5, <2>1, <2>3, <2>4, <2>5
<1> HIDE DEF m, n
<1>7. SubSeq(all, m, n) \in Seq(X) /\ Len(SubSeq(all, m, n)) = IF m <= n THEN n - m + 1 ELSE 0
  <2>1. \A i \in m..n : all[i] \in X
    BY <1>4, <1>6
  <2>2. m \in Int /\ n \in Int
    BY <1>4, <1>6
  <2> QED BY <2>1, <2>2, SubSeqProperties
<1>8. Len(SubSeq(all, m, n)) <= MAX_REVIEWED_PATCHES
  BY <1>4, <1>5, <1>6, <1>7
<1>9. SetReviewed(review) \in Seq(X) /\ Len(SetReviewed(review)) <= MAX_REVIEWED_PATCHES
  BY <1>1, <1>7, <1>8
<1>10. SetReviewed(review) \in Seq(Range(SetReviewed(review))) /\ Range(SetReviewed(review)) \in SUBSET X
  BY <1>9, SeqOfRange, RangeOfSeq
<1> QED BY <1>9, <1>10 DEF X

(* One patch changes its mark, or comes again with what it now does.       *)
LEMMA PatchChanges ==
  ASSUME NEW list \in Seq(Patches), Distinct(list), NEW k \in 1..Len(list), NEW q \in Patches,
         q.run = list[k].run, q.id = list[k].id, NEW given,
         ShownTruly(q, given),
         \A j \in 1..Len(list) : j # k => ShownTruly(list[j], given)
  PROVE  LET r == [list EXCEPT ![k] = q]
         IN  /\ r \in Seq(Patches) /\ Distinct(r) /\ Len(r) = Len(list)
             /\ \A patch \in Range(r) : ShownTruly(patch, given)
             /\ \A patch \in Range(r) : patch = q \/ patch \in Range(list)
<1> DEFINE r == [list EXCEPT ![k] = q]
<1>0. /\ Len(list) \in Nat /\ DOMAIN list = 1..Len(list)
      /\ r \in Seq(Patches) /\ Len(r) = Len(list) /\ DOMAIN r = 1..Len(list)
      /\ \A j \in 1..Len(list) : r[j] = IF j = k THEN q ELSE list[j]
  OBVIOUS
<1> HIDE DEF r
<1>1. \A j \in 1..Len(list) : r[j].run = list[j].run /\ r[j].id = list[j].id
  BY <1>0
<1>2. Distinct(r)
  BY <1>0, <1>1 DEF Distinct
<1>3. \A j \in 1..Len(list) : ShownTruly(r[j], given) /\ (r[j] = q \/ r[j] \in Range(list))
  BY <1>0 DEF Range
<1>4. \A patch \in Range(r) : ShownTruly(patch, given) /\ (patch = q \/ patch \in Range(list))
  BY <1>0, <1>3 DEF Range
<1> QED BY <1>0, <1>2, <1>4 DEF r

LEMMA MarkPatchReviewedKeeps ==
  ASSUME UiInv, NEW k \in DOMAIN patches, NEW reviewed \in BOOLEAN, MarkPatchReviewed(k, reviewed)
  PROVE  UiInv'
<1> DEFINE p == patches[k]
           q == [p EXCEPT !.reviewed = reviewed]
           review == Review(p)
           r == [patches EXCEPT ![k] = q]
           Q == {i \in DOMAIN reviewedPatches :
                    reviewedPatches[i].run # review.run \/ reviewedPatches[i].id # review.id}
<1>i. RunsOK /\ EntriesOK /\ PatchesOK /\ ReviewsOK
  BY DEF UiInv
<1>1. /\ patches' = [patches EXCEPT ![k].reviewed = reviewed]
      /\ IF reviewed
         THEN reviewedPatches' = SetReviewed(review) /\ marked' = marked \cup {review}
         ELSE /\ reviewedPatches' = At(reviewedPatches, Q)
              /\ marked' = marked \ {review}
      /\ UNCHANGED <<retainedRuns, started, metadata, running, bodyBytes>>
  BY Zenon DEF MarkPatchReviewed, Where, Review
<1>2. patches' = r
  BY <1>1
<1>3. /\ patches \in Seq(Patches) /\ Distinct(patches) /\ k \in 1..Len(patches) /\ p \in Patches
      /\ bodyBytes = Total(patches)
      /\ \A patch \in Range(patches) : PatchKey(patch) \in Range(metadata) /\ ShownTruly(patch, marked)
      /\ DOMAIN patches = 1..Len(patches)
  BY <1>i DEF PatchesOK
<1>4. p \in Range(patches)
  BY DEF Range
<1> HIDE DEF p
<1>5. /\ q \in Patches /\ Body(q) = Body(p) /\ PatchKey(q) = PatchKey(p) /\ Review(q) = review
      /\ q.run = p.run /\ q.id = p.id /\ q.reviewed = reviewed
  BY <1>3, MarkedIs
<1> HIDE DEF q
<1>6. Total(r) = Total(patches)
  <2>1. /\ Total(r) = Total(patches) - Body(patches[k]) + Body(q)
        /\ Total(patches) \in Nat /\ Body(q) \in Nat
    BY <1>3, <1>5, TotalOfChanged
  <2>2. Body(patches[k]) = Body(q)
    BY <1>5 DEF p
  <2> HIDE DEF r
  <2> QED BY <2>1, <2>2
<1>7. \A j \in 1..Len(patches) : j # k => Review(patches[j]) # review
  <2> SUFFICES ASSUME NEW j \in 1..Len(patches), Review(patches[j]) = review PROVE j = k
    OBVIOUS
  <2>1. Review(patches[j]).run = patches[j].run /\ Review(patches[j]).id = patches[j].id
        /\ review.run = patches[k].run /\ review.id = patches[k].id
    BY DEF Review, p
  <2> HIDE DEF review
  <2> QED BY <1>3, <2>1 DEF Distinct
<1>8. PICK given : given = marked'
  OBVIOUS
<1>9. ShownTruly(q, given) /\ \A j \in 1..Len(patches) : j # k => ShownTruly(patches[j], given)
  <2>0. \A j \in 1..Len(patches) : ShownTruly(patches[j], marked)
    BY <1>3 DEF Range
  <2>1. CASE reviewed
    <3>1. given = marked \cup {review}
      BY <1>1, <1>8, <2>1
    <3>2. review \in given /\ marked \subseteq given
      BY <3>1
    <3>3. ShownTruly(q, given)
      BY <1>5, <3>2 DEF ShownTruly
    <3>4. \A j \in 1..Len(patches) : ShownTruly(patches[j], given)
      BY <2>0, <3>2, Zenon DEF ShownTruly
    <3> QED BY <3>3, <3>4
  <2>2. CASE ~reviewed
    <3>1. given = marked \ {review}
      BY <1>1, <1>8, <2>2
    <3>2. ShownTruly(q, given)
      BY <1>5, <2>2, Zenon DEF ShownTruly
    <3> HIDE DEF review
    <3>3. \A j \in 1..Len(patches) : j # k /\ Review(patches[j]) \in marked => Review(patches[j]) \in given
      BY <1>7, <3>1
    <3>4. \A j \in 1..Len(patches) : j # k => ShownTruly(patches[j], given)
      BY <2>0, <3>3, Zenon DEF ShownTruly
    <3> QED BY <3>2, <3>4
  <2> QED BY <2>1, <2>2
<1>10. /\ r \in Seq(Patches) /\ Distinct(r)
       /\ \A patch \in Range(r) : ShownTruly(patch, given)
       /\ \A patch \in Range(r) : patch = q \/ patch \in Range(patches)
  <2>1. q.run = patches[k].run /\ q.id = patches[k].id
    BY <1>5 DEF p
  <2> QED BY <1>3, <1>5, <1>9, <2>1, PatchChanges
<1> HIDE DEF r
<1>11. PatchesOK'
  <2>1. \A patch \in Range(r) : PatchKey(patch) \in Range(metadata)
    BY <1>3, <1>4, <1>5, <1>10
  <2> QED BY <1>1, <1>2, <1>3, <1>6, <1>8, <1>10, <1>i, <2>1 DEF PatchesOK
<1>12. RunsOK' /\ EntriesOK'
  BY <1>1, <1>i DEF RunsOK, EntriesOK
<1>13. review.run \in Range(retainedRuns)
  <2>1. PatchKey(p) \in Range(metadata)
    BY <1>3, <1>4
  <2>2. PatchKey(p)[2] = p.run /\ review.run = p.run
    BY DEF PatchKey, Review
  <2> HIDE DEF review
  <2> QED BY <1>i, <2>1, <2>2 DEF EntriesOK
<1>14. reviewedPatches \in Seq(Range(reviewedPatches)) /\ Len(reviewedPatches) <= MAX_REVIEWED_PATCHES
       /\ \A rv \in Range(reviewedPatches) :
             rv.run \in Range(retainedRuns) \cup {0} /\ (rv.run # 0 => rv \in marked)
  BY <1>i DEF ReviewsOK
<1>15. ReviewsOK'
  <2>0. PICK rs : rs = reviewedPatches'
    OBVIOUS
  <2>1. CASE reviewed
    <3> HIDE DEF review
    <3>1. rs = SetReviewed(review) /\ marked' = marked \cup {review}
      BY <1>1, <2>0, <2>1
    <3>2. /\ SetReviewed(review) \in Seq(Range(SetReviewed(review)))
          /\ Range(SetReviewed(review)) \subseteq Range(reviewedPatches) \cup {review}
          /\ Len(SetReviewed(review)) <= MAX_REVIEWED_PATCHES
      BY <1>14, SetReviewedIs
    <3>3. \A rv \in Range(rs) : rv.run \in Range(retainedRuns) \cup {0} /\ (rv.run # 0 => rv \in marked')
      BY <1>13, <1>14, <3>1, <3>2
    <3> QED BY <1>1, <2>0, <3>1, <3>2, <3>3 DEF ReviewsOK
  <2>2. CASE ~reviewed
    <3> DEFINE Y == Range(reviewedPatches)
               L == {rv \in Y : rv.run # review.run \/ rv.id # review.id}
    <3>1. rs = At(reviewedPatches, Q) /\ marked' = marked \ {review}
      BY <1>1, <2>0, <2>2
    <3>2. Selects(Q, reviewedPatches, L)
      <4> HIDE DEF review
      <4> QED BY DEF Selects, Range
    <3>3. reviewedPatches \in Seq(Y)
      BY <1>14
    <3>4. review \notin L
      OBVIOUS
    <3>5. L \subseteq Y
      OBVIOUS
    <3> HIDE DEF Q, L, review
    <3>6. /\ rs \in Seq(Range(rs)) /\ Range(rs) = Y \cap L
          /\ Len(rs) \in Nat /\ Len(rs) <= Len(reviewedPatches)
      <4> HIDE DEF Y
      <4>1. /\ At(reviewedPatches, Q) \in Seq(Range(At(reviewedPatches, Q)))
            /\ Range(At(reviewedPatches, Q)) = Range(reviewedPatches) \cap L
            /\ Len(At(reviewedPatches, Q)) \in Nat
            /\ Len(At(reviewedPatches, Q)) <= Len(reviewedPatches)
        BY ONLY <3>2, <3>3, WhereIs
      <4> QED BY <3>1, <4>1 DEF Y
    <3>7. Len(rs) <= MAX_REVIEWED_PATCHES
      <4>1. Len(reviewedPatches) \in Nat /\ MAX_REVIEWED_PATCHES \in Nat
        BY <1>14, LimitsAssumption, LenProperties
      <4> QED BY <1>14, <3>6, <4>1
    <3>8. \A rv \in Range(rs) : rv.run \in Range(retainedRuns) \cup {0} /\ (rv.run # 0 => rv \in marked')
      BY <1>14, <3>1, <3>4, <3>5, <3>6
    <3> QED BY <1>1, <2>0, <3>6, <3>7, <3>8 DEF ReviewsOK
  <2> QED BY <2>1, <2>2
<1> QED BY <1>11, <1>12, <1>15 DEF UiInv

(* Diffs that have expired leave the patches as they are otherwise.        *)
LEMMA ExpiryKeeps ==
  ASSUME NEW list \in Seq(Patches), Distinct(list), NEW given,
         \A patch \in Range(list) : ShownTruly(patch, given),
         NEW r \in Seq(Patches), Len(r) = Len(list),
         \A j \in 1..Len(list) : r[j] = list[j] \/ r[j] = [list[j] EXCEPT !.expired = TRUE]
  PROVE  Distinct(r) /\ \A patch \in Range(r) : ShownTruly(patch, given)
<1>1. Len(list) \in Nat /\ DOMAIN list = 1..Len(list) /\ DOMAIN r = 1..Len(list)
  OBVIOUS
<1>2. ASSUME NEW j \in 1..Len(list)
      PROVE  r[j].run = list[j].run /\ r[j].id = list[j].id /\ ShownTruly(r[j], given)
  <2>1. list[j] \in Patches /\ ShownTruly(list[j], given)
    BY <1>1 DEF Range
  <2>2. CASE r[j] = list[j]
    BY <2>1, <2>2
  <2>3. CASE r[j] = [list[j] EXCEPT !.expired = TRUE]
    BY <2>1, <2>3, ExpiredIs
  <2> QED BY <1>2, <2>2, <2>3
<1>3. Distinct(r)
  BY <1>1, <1>2, SMTT(30) DEF Distinct
<1> QED BY <1>1, <1>2, <1>3 DEF Range

LEMMA PatchResultKeeps ==
  ASSUME UiInv, retainedRuns # <<>>, NEW c \in Ids, NEW version \in Versions, NEW size \in Sizes,
         PatchResult(c, version, size)
  PROVE  UiInv'
<1> DEFINE known == {j \in DOMAIN patches : patches[j].run = Current /\ patches[j].id = c}
           k == CHOOSE j \in known : TRUE
           again == known # {} /\ patches[k].version = version
           seen == IF again THEN patches[k].reviewed ELSE IsReviewed(c, version)
           detail == [run |-> Current, id |-> c, version |-> version, size |-> size,
                      expired |-> FALSE, reviewed |-> seen]
           list == IF known = {} THEN Append(patches, detail) ELSE [patches EXCEPT ![k] = detail]
           before == IF known = {} THEN 0 ELSE Body(patches[k])
           bytes == bodyBytes - before + size
           trimmed == TrimBodies(list, bytes)
<1>i. RunsOK /\ EntriesOK /\ PatchesOK /\ ReviewsOK
  BY DEF UiInv
<1>1. Enter({PatchKey(detail)}, running, trimmed.list, trimmed.bytes) /\ UNCHANGED Keepers
  BY DEF PatchResult
<1>2. /\ patches \in Seq(Patches) /\ Distinct(patches) /\ bodyBytes = Total(patches)
      /\ \A patch \in Range(patches) : ShownTruly(patch, marked)
      /\ Len(patches) \in Nat /\ DOMAIN patches = 1..Len(patches)
  BY <1>i, LenProperties DEF PatchesOK
<1>3. Current \in Range(retainedRuns) /\ Current \in Nat /\ Current # 0
  <2>1. Current \in Range(retainedRuns) /\ Range(retainedRuns) \in SUBSET (1..started)
    BY <1>i, CurrentIs, RangeOfSeq DEF RunsOK
  <2>2. \A n \in 1..started : n \in Nat /\ n # 0
    BY <1>i DEF RunsOK
  <2> QED BY <2>1, <2>2
<1>4. known # {} => k \in known /\ k \in 1..Len(patches) /\ patches[k].run = Current /\ patches[k].id = c
                    /\ patches[k] \in Patches /\ patches[k] \in Range(patches)
  <2>1. known # {} => k \in known
    OBVIOUS
  <2>2. \A j \in known : j \in 1..Len(patches) /\ patches[j].run = Current /\ patches[j].id = c
                         /\ patches[j] \in Patches /\ patches[j] \in Range(patches)
    BY <1>2 DEF Range
  <2> HIDE DEF known, k
  <2> QED BY <2>1, <2>2
<1>5. known = {} => \A j \in 1..Len(patches) : ~(patches[j].run = Current /\ patches[j].id = c)
  BY <1>2
<1> HIDE DEF k, known
<1>6. seen \in BOOLEAN
  <2>1. known # {} => patches[k].reviewed \in BOOLEAN
    BY <1>4 DEF Patches
  <2>2. IsReviewed(c, version) \in BOOLEAN
    BY DEF IsReviewed
  <2> QED BY <2>1, <2>2, Zenon
<1>7. seen => [run |-> Current, id |-> c, version |-> version] \in marked
  <2>1. CASE again
    <3>1. seen = patches[k].reviewed
      BY <2>1, Zenon
    <3>2. ShownTruly(patches[k], marked)
      BY <1>2, <1>4, <2>1
    <3>3. Review(patches[k]) = [run |-> Current, id |-> c, version |-> version]
      BY <1>4, <2>1 DEF Review
    <3>4. patches[k].reviewed => Review(patches[k]) \in marked
      BY <3>2, Zenon DEF ShownTruly
    <3> QED BY <3>1, <3>3, <3>4, Zenon
  <2>2. CASE ~again
    <3> DEFINE x == [run |-> Current, id |-> c, version |-> version]
    <3>1. seen <=> x \in Range(reviewedPatches)
      BY <2>2, Zenon DEF IsReviewed
    <3>2. x.run = Current
      OBVIOUS
    <3> HIDE DEF x
    <3>3. x \in Range(reviewedPatches) => x \in marked
      BY <1>3, <1>i, <3>2 DEF ReviewsOK
    <3>4. seen => x \in marked
      BY <3>1, <3>3, Zenon
    <3> QED BY <3>4 DEF x
  <2> QED BY <2>1, <2>2
<1> HIDE DEF seen, again
<1>8. size \in Nat /\ MAX_BODY_BYTES \in Nat
  <2>1. size \in 0..MAX_BODY_BYTES
    BY SizesAssumption
  <2> QED BY <2>1, LimitsAssumption
<1>9. detail \in Patches
  BY <1>3, <1>6, <1>8 DEF Patches
<1>10. detail.run = Current /\ detail.id = c /\ detail.size = size /\ detail.expired = FALSE
       /\ detail.version = version /\ detail.reviewed = seen
  OBVIOUS
<1> HIDE DEF detail
<1>11. Body(detail) = size
  BY <1>10, Zenon DEF Body
<1>12. ShownTruly(detail, marked)
  <2>1. Review(detail) = [run |-> Current, id |-> c, version |-> version]
    BY <1>10 DEF Review
  <2> QED BY <1>7, <1>10, <2>1, Zenon DEF ShownTruly
<1>13. /\ list \in Seq(Patches) /\ Distinct(list) /\ bytes = Total(list)
       /\ \A patch \in Range(list) : ShownTruly(patch, marked)
  <2>1. CASE known = {}
    <3>1. list = Append(patches, detail) /\ before = 0
      BY <2>1
    <3>2. /\ Append(patches, detail) \in Seq(Patches)
          /\ Range(Append(patches, detail)) = Range(patches) \cup {detail}
          /\ Len(Append(patches, detail)) = Len(patches) + 1
      BY <1>2, <1>9, Appended1
    <3>3. /\ \A j \in 1..Len(patches) : Append(patches, detail)[j] = patches[j]
          /\ Append(patches, detail)[Len(patches) + 1] = detail
      BY <1>2, <1>9, AppendProperties
    <3>4. Total(Append(patches, detail)) = Total(patches) + Body(detail) /\ Total(patches) \in Nat
      BY <1>2, <1>9, TotalOfAppended
    <3> HIDE DEF list, before
    <3>5. list \in Seq(Patches) /\ DOMAIN list = 1..(Len(patches) + 1)
      BY <1>2, <3>1, <3>2, LenProperties
    <3>6. Distinct(list)
      <4>1. \A j \in 1..(Len(patches) + 1) : j = Len(patches) + 1 \/ j \in 1..Len(patches)
        BY <1>2
      <4>2. Len(patches) + 1 \notin 1..Len(patches)
        BY <1>2
      <4> QED BY <1>2, <1>5, <1>10, <2>1, <3>1, <3>3, <3>5, <4>1, <4>2 DEF Distinct
    <3>7. bytes = Total(list)
      BY <1>2, <1>8, <1>11, <3>1, <3>4
    <3>8. \A patch \in Range(list) : ShownTruly(patch, marked)
      BY <1>2, <1>12, <3>1, <3>2
    <3> QED BY <3>5, <3>6, <3>7, <3>8
  <2>2. CASE known # {}
    <3>1. list = [patches EXCEPT ![k] = detail] /\ before = Body(patches[k])
      BY <2>2
    <3>2. k \in 1..Len(patches) /\ detail.run = patches[k].run /\ detail.id = patches[k].id
      BY <1>4, <1>10, <2>2
    <3>3. \A j \in 1..Len(patches) : ShownTruly(patches[j], marked)
      BY <1>2 DEF Range
    <3>4. /\ [patches EXCEPT ![k] = detail] \in Seq(Patches)
          /\ Distinct([patches EXCEPT ![k] = detail])
          /\ \A patch \in Range([patches EXCEPT ![k] = detail]) : ShownTruly(patch, marked)
      BY <1>2, <1>9, <1>12, <3>2, <3>3, PatchChanges
    <3>5. /\ Total([patches EXCEPT ![k] = detail]) = Total(patches) - Body(patches[k]) + Body(detail)
          /\ Total(patches) \in Nat /\ Body(patches[k]) \in Nat
      BY <1>2, <1>9, <3>2, TotalOfChanged
    <3> HIDE DEF list, before
    <3>6. bytes = Total(list)
      BY <1>2, <1>8, <1>11, <3>1, <3>5
    <3> QED BY <3>1, <3>4, <3>6
  <2> QED BY <2>1, <2>2
<1> HIDE DEF list, bytes
<1>14. /\ trimmed.list \in Seq(Patches) /\ Len(trimmed.list) = Len(list)
       /\ \A j \in 1..Len(list) :
             trimmed.list[j] = list[j] \/ trimmed.list[j] = [list[j] EXCEPT !.expired = TRUE]
       /\ trimmed.bytes = Total(trimmed.list) /\ trimmed.bytes <= MAX_BODY_BYTES
  BY <1>13, TrimBodiesKeeps
<1> HIDE DEF trimmed
<1>15. Distinct(trimmed.list) /\ \A patch \in Range(trimmed.list) : ShownTruly(patch, marked)
  BY <1>13, <1>14, ExpiryKeeps
<1>16. IsFiniteSet({PatchKey(detail)}) /\ \A e \in {PatchKey(detail)} : e[2] = Current
  <2>1. PatchKey(detail)[2] = Current
    BY <1>10 DEF PatchKey
  <2> HIDE DEF PatchKey
  <2>2. IsFiniteSet({PatchKey(detail)})
    BY ONLY FS_Singleton
  <2> QED BY <2>1, <2>2
<1>17. running \subseteq running \cup {PatchKey(detail)}
  OBVIOUS
<1> QED BY <1>1, <1>14, <1>15, <1>16, <1>17, EnterKeeps

(* Events that bring no patch.                                             *)
LEMMA EventKeeps ==
  ASSUME UiInv, retainedRuns # <<>>, NEW entries, NEW busy,
         Enter(entries, busy, patches, bodyBytes), UNCHANGED Keepers,
         IsFiniteSet(entries), \A e \in entries : e[2] = Current,
         busy \subseteq running \cup entries
  PROVE  UiInv'
<1>1. /\ patches \in Seq(Patches) /\ Distinct(patches) /\ bodyBytes = Total(patches)
      /\ bodyBytes <= MAX_BODY_BYTES
      /\ \A patch \in Range(patches) : ShownTruly(patch, marked)
  BY DEF UiInv, PatchesOK
<1> QED BY <1>1, EnterKeeps

LEMMA UiKeeps == ASSUME UiInv, [UiNext]_uiVars PROVE UiInv'
<1>1. CASE StartRun
  BY <1>1, StartRunKeeps
<1>2. CASE retainedRuns # <<>> /\ Logged
  <2>1. Enter({}, running, patches, bodyBytes) /\ UNCHANGED Keepers
    BY <1>2 DEF Logged
  <2>2. IsFiniteSet({}) /\ running \subseteq running \cup {} /\ \A e \in {} : e[2] = Current
    BY FS_EmptySet
  <2> QED BY <1>2, <2>1, <2>2, EventKeeps
<1>3. ASSUME NEW c \in Ids, retainedRuns # <<>>, Call(c) PROVE UiInv'
  <2> DEFINE call == <<"call", Current, c>>
  <2>1. Enter({call}, running \cup {call}, patches, bodyBytes) /\ UNCHANGED Keepers
    BY <1>3 DEF Call
  <2>2. call[2] = Current
    OBVIOUS
  <2> HIDE DEF call
  <2>3. IsFiniteSet({call})
    BY ONLY FS_Singleton
  <2>4. running \cup {call} \subseteq running \cup {call} /\ \A e \in {call} : e[2] = Current
    BY <2>2
  <2> QED BY <1>3, <2>1, <2>3, <2>4, EventKeeps
<1>4. ASSUME NEW c \in Ids, retainedRuns # <<>>, Result(c) PROVE UiInv'
  <2> DEFINE call == <<"call", Current, c>>
             command == <<"command", Current, c>>
  <2>1. /\ \/ Enter({call}, running \ {call}, patches, bodyBytes)
           \/ \E busy \in UpsertCommand(command) :
                 Enter({call, command}, busy \ {call}, patches, bodyBytes)
        /\ UNCHANGED Keepers
    BY <1>4 DEF Result
  <2>2. call[2] = Current /\ command[2] = Current
    OBVIOUS
  <2> HIDE DEF call, command
  <2>3. IsFiniteSet({call}) /\ IsFiniteSet({call, command})
    <3>1. IsFiniteSet({call}) /\ IsFiniteSet({call} \cup {command})
      BY FS_Singleton, FS_AddElement
    <3>2. {call, command} = {call} \cup {command}
      OBVIOUS
    <3> QED BY <3>1, <3>2
  <2>4. CASE Enter({call}, running \ {call}, patches, bodyBytes)
    <3>1. running \ {call} \subseteq running \cup {call} /\ \A e \in {call} : e[2] = Current
      BY <2>2
    <3> QED BY <1>4, <2>1, <2>3, <2>4, <3>1, EventKeeps
  <2>5. ASSUME NEW busy \in UpsertCommand(command),
               Enter({call, command}, busy \ {call}, patches, bodyBytes)
        PROVE  UiInv'
    <3>1. busy \ {call} \subseteq running \cup {call, command}
          /\ \A e \in {call, command} : e[2] = Current
      BY <2>2 DEF UpsertCommand
    <3> QED BY <1>4, <2>1, <2>3, <2>5, <3>1, EventKeeps
  <2> QED BY <2>1, <2>4, <2>5
<1>5. ASSUME NEW c \in Ids, CommandEnds(c) PROVE UiInv'
  BY <1>5, CommandEndsKeeps
<1>6. ASSUME NEW c \in Ids, NEW version \in Versions, NEW size \in Sizes, retainedRuns # <<>>,
             PatchResult(c, version, size)
      PROVE  UiInv'
  BY <1>6, PatchResultKeeps
<1>7. ASSUME NEW k \in DOMAIN patches, NEW reviewed \in BOOLEAN, MarkPatchReviewed(k, reviewed)
      PROVE  UiInv'
  BY <1>7, MarkPatchReviewedKeeps
<1>8. CASE UNCHANGED uiVars
  BY <1>8 DEF uiVars, UiInv, RunsOK, EntriesOK, PatchesOK, ReviewsOK
<1> QED BY <1>1, <1>2, <1>3, <1>4, <1>5, <1>6, <1>7, <1>8 DEF UiNext

LEMMA UiStart == UiInit => UiInv
<1> SUFFICES ASSUME UiInit PROVE UiInv
  OBVIOUS
<1>1. /\ retainedRuns = <<>> /\ started = 0 /\ metadata = <<>> /\ running = {} /\ patches = <<>>
      /\ bodyBytes = 0 /\ RestoreReviewedPatches /\ marked = {}
  BY DEF UiInit
<1>2. \A X : <<>> \in Seq(X) /\ Len(<<>>) = 0 /\ DOMAIN <<>> = {}
  OBVIOUS
<1>3. Range(<<>>) = {}
  BY <1>2 DEF Range
<1>4. MaxStarts \in Nat /\ MAX_METADATA \in Nat /\ MAX_BODY_BYTES \in Nat /\ MAX_RUNS \in Nat
  BY LimitsAssumption, RunsAssumption
<1>5. RunsOK
  BY <1>1, <1>2, <1>4 DEF RunsOK
<1>6. EntriesOK
  BY <1>1, <1>2, <1>3, <1>4 DEF EntriesOK
<1>7. PatchesOK
  <2>1. PICK w : Adds(w, patches) /\ Total(patches) = w[0]
    <3>1. patches \in Seq(Patches) /\ Len(patches) = 0
      BY <1>1, <1>2
    <3>2. \E w : Adds(w, patches) /\ Total(patches) = w[Len(patches)]
      BY <3>1, TotalIs
    <3> QED BY <3>1, <3>2
  <2>2. Total(patches) = 0
    BY <2>1 DEF Adds
  <2>3. Distinct(patches)
    BY <1>1, <1>2 DEF Distinct
  <2> QED BY <1>1, <1>2, <1>3, <1>4, <2>2, <2>3 DEF PatchesOK
<1>8. ReviewsOK
  <2>1. PICK old \in SUBSET {[run |-> 0, id |-> i, version |-> v] : i \in Ids, v \in Versions} :
           /\ IsFiniteSet(old) /\ Cardinality(old) <= MAX_REVIEWED_PATCHES
           /\ reviewedPatches = SetToSeq(old)
    <3> DEFINE Reviews == {[run |-> 0, id |-> i, version |-> v] : i \in Ids, v \in Versions}
    <3>1. \E old \in SUBSET Reviews :
             /\ \A a, b \in old : a.id = b.id => a = b
             /\ IsFiniteSet(old) /\ Cardinality(old) <= MAX_REVIEWED_PATCHES
             /\ reviewedPatches = SetToSeq(old)
      BY ONLY <1>1 DEF RestoreReviewedPatches
    <3> HIDE DEF Reviews
    <3>2. \E old \in SUBSET Reviews :
             /\ IsFiniteSet(old) /\ Cardinality(old) <= MAX_REVIEWED_PATCHES
             /\ reviewedPatches = SetToSeq(old)
      BY ONLY <3>1
    <3> QED BY ONLY <3>2 DEF Reviews
  <2>2. \A review \in old : review.run = 0
    BY <2>1
  <2>3. SetToSeq(old) \in [1..Cardinality(old) -> old] /\ Cardinality(old) \in Nat
    <3>1. Cardinality(old) \in Nat /\ ExistsBijection(1..Cardinality(old), old)
      BY <2>1, FS_CardinalityType
    <3>2. PICK f : f \in Bijection(1..Cardinality(old), old)
      BY <3>1 DEF ExistsBijection
    <3>3. f \in [1..Cardinality(old) -> old] /\ IsInjective(f)
      BY <3>2 DEF Bijection, Injection
    <3> QED BY <3>1, <3>3 DEF SetToSeq
  <2>4. reviewedPatches \in Seq(old) /\ Len(reviewedPatches) = Cardinality(old)
    BY <2>1, <2>3
  <2>5. reviewedPatches \in Seq(Range(reviewedPatches)) /\ Range(reviewedPatches) \in SUBSET old
    BY <2>4, SeqOfRange, RangeOfSeq
  <2> QED BY <2>1, <2>2, <2>4, <2>5 DEF ReviewsOK
<1> QED BY <1>5, <1>6, <1>7, <1>8 DEF UiInv

----------------------------------------------------------------------------
(* A session of any limit that is not marked as truncated has kept every   *)
(* byte at its offset, and every input is applied once and in order,       *)
(* however often it was sent (append, read and write of pty-session.ts).   *)
THEOREM PtyHonest == Spec => []PtyIsHonest
<1>1. Init => PtyInv
  BY PtyStart DEF Init
<1>2. PtyInv /\ [Next]_<<commandVars, ptyVars, uiVars>> => PtyInv'
  BY PtyKeeps DEF Next
<1>3. Spec => []PtyInv
  BY <1>1, <1>2, PTL DEF Spec
<1> QED BY <1>3, PtyIsHonestThen, PTL

(* A command of any length, whatever chunks it comes in and whatever limit *)
(* there is: pages hold the bytes their offsets name and whole code        *)
(* points, what is lost is marked so, the end of a stream has shown all of *)
(* it and none of the marker, and nobody waits for what has happened       *)
(* (appendOutput, outputSnapshot, handleTerminalData, waitForActivity of   *)
(* command-manager.ts).                                                    *)
THEOREM ReadersServed == Spec => []ReadersAreServed
<1>1. Init => CommandInv
  BY CommandStart DEF Init
<1>2. CommandInv /\ [Next]_<<commandVars, ptyVars, uiVars>> => CommandInv'
  BY CommandKeeps DEF Next
<1>3. Spec => []CommandInv
  BY <1>1, <1>2, PTL DEF Spec
<1>4. CommandInv => ReadersAreServed
  BY CommandInvThen DEF ReadersAreServed
<1> QED BY <1>3, <1>4, PTL

(* However many runs start, calls end, diffs come and expire and patches   *)
(* are marked: the bytes counted are those of the diffs kept and within    *)
(* their limit, only what is busy exceeds the limit of entries, nothing is *)
(* left of a run that was dropped, and a patch is shown as reviewed only   *)
(* if the user has reviewed this version of it (startRun, upsertCommand,   *)
(* trimMetadata, trimBodies, deletePatch and markPatchReviewed of          *)
(* bridgeUiState.ts).                                                      *)
THEOREM PanelTrue == Spec => []PanelIsTrue
<1>1. Init => UiInv
  BY UiStart DEF Init
<1>2. UiInv /\ [Next]_<<commandVars, ptyVars, uiVars>> => UiInv'
  BY UiKeeps DEF Next
<1>3. Spec => []UiInv
  BY <1>1, <1>2, PTL DEF Spec
<1> QED BY <1>3, UiInvThen, PTL

(* The state of the three keepers stays of its type: chunks, offsets and   *)
(* limits of a command, the ring and the inputs of a session, and entries  *)
(* of the panel for everything it says is busy or kept.                    *)
THEOREM OutputsTyped == Spec => []TypeOK
<1>1. Init => CommandInv /\ PtyInv /\ UiInv
  BY CommandStart, PtyStart, UiStart DEF Init
<1>2. CommandInv /\ [Next]_<<commandVars, ptyVars, uiVars>> => CommandInv'
  BY CommandKeeps DEF Next
<1>3. PtyInv /\ [Next]_<<commandVars, ptyVars, uiVars>> => PtyInv'
  BY PtyKeeps DEF Next
<1>4. UiInv /\ [Next]_<<commandVars, ptyVars, uiVars>> => UiInv'
  BY UiKeeps DEF Next
<1>5. Spec => [](CommandInv /\ PtyInv /\ UiInv)
  BY <1>1, <1>2, <1>3, <1>4, PTL DEF Spec
<1>6. CommandInv /\ PtyInv /\ UiInv => TypeOK
  BY CommandInvThen, UiInvThen DEF TypeOK, PtyInv
<1> QED BY <1>5, <1>6, PTL
=============================================================================
