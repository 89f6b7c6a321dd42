---------------------------- MODULE PartsProofs ----------------------------
(***************************************************************************)
(* What the run of Parts checks of the small modules, for every value of   *)
(* their constants.  A behaviour of Parts is one of each of them, stepping *)
(* or not: so what holds of a part's own specification holds of Parts.     *)
(***************************************************************************)
EXTENDS Parts, SequenceTheorems, FiniteSetTheorems, WellFoundedInduction, TLAPS

\* Every set of natural numbers with a member has a least one.
LEMMA Least ==
  ASSUME NEW T \in SUBSET Nat, T # {}
  PROVE  \E x \in T : \A y \in T : x <= y
<1> DEFINE Below == {1 .. n : n \in T}
<1>1. IsWellFoundedOn(StrictSubsetOrdering(Nat), FiniteSubsetsOf(Nat))
  BY FS_StrictSubsetOrderingWellFounded
<1>2. Below \subseteq FiniteSubsetsOf(Nat) /\ Below # {}
  <2>1. \A n \in T : IsFiniteSet(1 .. n) /\ 1 .. n \subseteq Nat
    BY FS_Interval
  <2> QED BY <2>1 DEF FiniteSubsetsOf
<1>3. \E X \in Below : \A Y \in Below : <<Y, X>> \notin StrictSubsetOrdering(Nat)
  <2> HIDE DEF Below
  <2> QED BY <1>1, <1>2, WFMin
<1>4. PICK x \in T : \A y \in T : <<1 .. y, 1 .. x>> \notin StrictSubsetOrdering(Nat)
  BY <1>3
<1>5. ASSUME NEW y \in T, y < x PROVE FALSE
  <2>1. 1 .. y \subseteq 1 .. x /\ x \in 1 .. x /\ x \notin 1 .. y
    BY <1>5
  <2>2. 1 .. y # 1 .. x
    BY <2>1
  <2>3. 1 .. y \in SUBSET Nat /\ 1 .. x \in SUBSET Nat
    BY <1>5
  <2>4. <<1 .. y, 1 .. x>> \in StrictSubsetOrdering(Nat)
    BY <2>1, <2>2, <2>3, Zenon DEF StrictSubsetOrdering
  <2> QED BY <1>4, <2>4, <1>5
<1> QED BY <1>5

\* A part of 1 .. n that has with a number all smaller ones has as many as the
\* greatest of them says.
LEMMA Prefix ==
  ASSUME NEW n \in Nat, NEW P \in SUBSET (1 .. n),
         \A i, j \in 1 .. n : i <= j /\ j \in P => i \in P
  PROVE  Cardinality(P) \in 0 .. n /\ P = 1 .. Cardinality(P)
<1> DEFINE T == {k \in Nat : P \subseteq 1 .. k}
<1>1. n \in T
  OBVIOUS
<1>2. PICK k \in T : \A y \in T : k <= y
  BY <1>1, Least
<1>3. P = 1 .. k
  <2>1. CASE k = 0
    BY <2>1
  <2>2. CASE k # 0
    <3>1. k - 1 \notin T
      BY <1>2, <2>2
    <3>2. PICK i \in P : i \notin 1 .. (k - 1)
      BY <3>1, <2>2
    <3>3. k \in P
      BY <3>2
    <3>4. k \in 1 .. n /\ \A j \in 1 .. k : j \in P
      BY <3>3
    <3> QED BY <1>2, <3>4
  <2> QED BY <2>1, <2>2
<1>4. Cardinality(1 .. k) = k
  BY FS_Interval
<1> QED BY <1>1, <1>2, <1>3, <1>4

-----------------------------------------------------------------------------
(***************************************************************************)
(* KeyGate: while a host is not locked out, the failures its gate keeps    *)
(* are the guesses younger than Lockout; when it is, those are as old as   *)
(* the lockout, and nothing is kept.  The invariant is GateInv.            *)
(***************************************************************************)

LEMMA GatePart == Spec => Gate!Spec
<1>1. Init => Gate!Init
  BY DEF Init
<1>2. [Next]_vars => [Gate!Next]_(Gate!vars)
  BY DEF Next, vars, OnlyGate, OnlyFollow, OnlyCap, OnlyAudio, OnlyBack, OnlyLog,
         OnlyRig, OnlyFaults, OnlySheets, OnlyBoxed, Gate!vars, gateVars
<1> QED BY <1>1, <1>2, PTL DEF Spec, Gate!Spec

\* The entry that is the j-th youngest, the last being the 0-th.
Nth(s, j) == s[Len(s) - j]

OldestFirst(s) == \A i, k \in 1 .. Len(s) : i <= k => s[i] >= s[k]

Young(s, j) == j < Len(s) /\ Nth(s, j) < Lockout

\* What the gate counts of a host's failures are the guesses that are younger
\* than Lockout, unless they have locked it out.
HostInv(fails, told, lock) ==
    /\ OldestFirst(fails) /\ OldestFirst(told)
    /\ Len(fails) < MaxFailures
    /\ \A j \in Nat : Young(told, j) => j < MaxFailures
    /\ lock > 0 =>
          /\ fails = <<>>
          /\ \A i \in 1 .. Len(told) : told[i] >= Lockout - lock
    /\ lock = 0 =>
          \A j \in Nat :
             /\ Young(told, j) <=> Young(fails, j)
             /\ Young(told, j) => Nth(told, j) = Nth(fails, j)

GateInv ==
    /\ failures \in [Host -> Seq(0 .. Lockout)]
    /\ guesses \in [Host -> Seq(0 .. 2 * Lockout)]
    /\ lockLeft \in [Host -> 0 .. Lockout]
    /\ \A h \in Host : HostInv(failures[h], guesses[h], lockLeft[h])

\* Younger takes the end of its list.
LEMMA YoungerEnd ==
  ASSUME NEW m \in Nat, NEW s \in Seq(0 .. m), OldestFirst(s), NEW limit \in Nat
  PROVE  LET y == Gate!Younger(s, limit)
         IN  /\ y \in Seq(0 .. m)
             /\ Len(y) <= Len(s)
             /\ OldestFirst(y)
             /\ \A j \in Nat : j < Len(y) <=> (j < Len(s) /\ Nth(s, j) < limit)
             /\ \A j \in Nat : j < Len(y) => Nth(y, j) = Nth(s, j)
<1> DEFINE gone == {i \in DOMAIN s : s[i] >= limit}
           k == Cardinality(gone)
           y == Gate!Younger(s, limit)
<1>1. /\ Len(s) \in Nat /\ DOMAIN s = 1 .. Len(s)
      /\ \A i \in 1 .. Len(s) : s[i] \in 0 .. m
  BY LenProperties, ElementOfSeq
<1>2. k \in 0 .. Len(s) /\ gone = 1 .. k
  <2>1. gone \in SUBSET (1 .. Len(s))
    BY <1>1
  <2>2. \A i, j \in 1 .. Len(s) : i <= j /\ j \in gone => i \in gone
    BY <1>1 DEF OldestFirst
  <2> HIDE DEF gone
  <2> QED BY <1>1, <2>1, <2>2, Prefix
<1>3. y = SubSeq(s, 1 + k, Len(s))
  BY DEF Gate!Younger, Gate!Cardinality, Cardinality
<1> HIDE DEF k, y
<1>4. \A i \in 1 .. Len(s) : s[i] < limit <=> i > k
  <2>1. \A i \in 1 .. Len(s) : i \in gone <=> s[i] >= limit
    BY <1>1
  <2> HIDE DEF gone
  <2> QED BY <1>1, <1>2, <2>1
<1>5. /\ y \in Seq(0 .. m)
      /\ Len(y) = Len(s) - k
      /\ \A i \in 1 .. Len(s) - k : y[i] = s[k + i]
  <2>1. 1 + k \in Int /\ Len(s) \in Int /\ \A i \in 1 + k .. Len(s) : s[i] \in 0 .. m
    BY <1>1, <1>2
  <2>2. /\ SubSeq(s, 1 + k, Len(s)) \in Seq(0 .. m)
        /\ Len(SubSeq(s, 1 + k, Len(s))) =
              IF 1 + k <= Len(s) THEN Len(s) - (1 + k) + 1 ELSE 0
        /\ \A i \in 1 .. Len(s) - (1 + k) + 1 :
              SubSeq(s, 1 + k, Len(s))[i] = s[1 + k + i - 1]
    BY <2>1, SubSeqProperties
  <2>3. /\ y \in Seq(0 .. m)
        /\ Len(y) = IF 1 + k <= Len(s) THEN Len(s) - (1 + k) + 1 ELSE 0
        /\ \A i \in 1 .. Len(s) - (1 + k) + 1 : y[i] = s[1 + k + i - 1]
    BY <2>2, <1>3
  <2>4. ASSUME NEW i \in 1 .. Len(s) - k
        PROVE  y[i] = s[k + i]
    <3>1. i \in 1 .. Len(s) - (1 + k) + 1 /\ 1 + k + i - 1 = k + i
      BY <1>1, <1>2
    <3> QED BY <2>3, <3>1
  <2>5. Len(y) = Len(s) - k
    <3>1. /\ Len(s) \in Nat /\ k \in 0 .. Len(s)
          /\ Len(y) = IF 1 + k <= Len(s) THEN Len(s) - (1 + k) + 1 ELSE 0
      BY <1>1, <1>2, <2>3, ZenonT(30)
    <3>2. CASE 1 + k <= Len(s)
      BY <3>1, <3>2
    <3>3. CASE ~(1 + k <= Len(s))
      BY <3>1, <3>3
    <3> QED BY <3>2, <3>3, Zenon
  <2> QED BY <2>3, <2>4, <2>5
<1>6. OldestFirst(y)
  BY <1>1, <1>2, <1>5 DEF OldestFirst
<1>7. \A j \in Nat : j < Len(y) <=> (j < Len(s) /\ Nth(s, j) < limit)
  BY <1>1, <1>2, <1>4, <1>5 DEF Nth
<1>8. ASSUME NEW j \in Nat, j < Len(y)
      PROVE  Nth(y, j) = Nth(s, j)
  <2>1. Len(y) - j \in 1 .. Len(s) - k /\ k + (Len(y) - j) = Len(s) - j
    BY <1>1, <1>2, <1>5, <1>8
  <2> QED BY <1>5, <2>1 DEF Nth
<1>9. Len(y) <= Len(s)
  BY <1>1, <1>2, <1>5
<1> QED BY <1>5, <1>6, <1>7, <1>8, <1>9 DEF y

LEMMA GateInit == Gate!GateAssumption /\ Gate!Init => GateInv
<1> SUFFICES ASSUME Gate!GateAssumption, Gate!Init PROVE GateInv
  OBVIOUS
<1>1. /\ <<>> \in Seq(0 .. Lockout) /\ <<>> \in Seq(0 .. 2 * Lockout)
      /\ Len(<<>>) = 0
  BY EmptySeq
<1>2. OldestFirst(<<>>) /\ \A j \in Nat : ~Young(<<>>, j)
  BY <1>1 DEF OldestFirst, Young
<1> QED
  BY <1>1, <1>2 DEF Gate!GateAssumption, Gate!Init, GateInv, HostInv

\* A failure put last: the others are one place older.
LEMMA OneMore ==
  ASSUME NEW m \in Nat, NEW s \in Seq(0 .. m), OldestFirst(s), Lockout > 0, Lockout \in Nat
  PROVE  LET t == Append(s, 0)
         IN  /\ t \in Seq(0 .. m)
             /\ Len(t) = Len(s) + 1
             /\ OldestFirst(t)
             /\ Young(t, 0) /\ Nth(t, 0) = 0
             /\ \A j \in Nat : j < Len(s) => Nth(t, j + 1) = Nth(s, j)
             /\ \A j \in Nat : Young(t, j + 1) <=> Young(s, j)
             /\ \A i \in 1 .. Len(t) : t[i] = IF i = Len(t) THEN 0 ELSE s[i]
<1> DEFINE t == Append(s, 0)
<1>1. /\ Len(s) \in Nat /\ \A i \in 1 .. Len(s) : s[i] \in 0 .. m
  BY LenProperties, ElementOfSeq
<1>2. /\ t \in Seq(0 .. m) /\ Len(t) = Len(s) + 1
      /\ \A i \in 1 .. Len(s) : t[i] = s[i]
      /\ t[Len(s) + 1] = 0
  BY AppendProperties
<1> HIDE DEF t
<1>3. OldestFirst(t)
  <2>1. ASSUME NEW i \in 1 .. Len(t), NEW k \in 1 .. Len(t), i <= k
        PROVE  t[i] >= t[k]
    <3>1. CASE k = Len(t)
      <4>1. t[k] = 0
        BY <1>2, <3>1
      <4>2. t[i] \in 0 .. m
        BY <1>2, ElementOfSeq
      <4> QED BY <4>1, <4>2
    <3>2. CASE k # Len(t)
      <4>1. i \in 1 .. Len(s) /\ k \in 1 .. Len(s)
        BY <1>1, <1>2, <2>1, <3>2
      <4>2. t[i] = s[i] /\ t[k] = s[k]
        BY <1>2, <4>1
      <4>3. s[i] >= s[k]
        BY <2>1, <4>1 DEF OldestFirst
      <4> QED BY <4>2, <4>3
    <3> QED BY <3>1, <3>2
  <2> QED BY <2>1 DEF OldestFirst
<1>4. Young(t, 0) /\ Nth(t, 0) = 0
  BY <1>1, <1>2 DEF Young, Nth
<1>5. ASSUME NEW j \in Nat, j < Len(s)
      PROVE  Nth(t, j + 1) = Nth(s, j)
  <2>1. Len(s) - j \in 1 .. Len(s) /\ Len(t) - (j + 1) = Len(s) - j
    BY <1>1, <1>2, <1>5
  <2> QED BY <1>2, <2>1 DEF Nth
<1>6. ASSUME NEW j \in Nat
      PROVE  Young(t, j + 1) <=> Young(s, j)
  BY <1>1, <1>2, <1>5 DEF Young
<1>7. ASSUME NEW i \in 1 .. Len(t)
      PROVE  t[i] = IF i = Len(t) THEN 0 ELSE s[i]
  <2>1. i = Len(s) + 1 \/ i \in 1 .. Len(s)
    BY <1>1, <1>2
  <2> QED BY <1>1, <1>2, <2>1
<1> QED BY <1>2, <1>3, <1>4, <1>5, <1>6, <1>7 DEF t

LEMMA GateRight ==
  ASSUME Gate!GateAssumption, GateInv, NEW h \in Host, Gate!Right(h)
  PROVE  GateInv'
<1>1. /\ <<>> \in Seq(0 .. Lockout) /\ <<>> \in Seq(0 .. 2 * Lockout)
      /\ Len(<<>>) = 0
  BY EmptySeq
<1>2. OldestFirst(<<>>) /\ \A j \in Nat : ~Young(<<>>, j)
  BY <1>1 DEF OldestFirst, Young
<1>3. HostInv(<<>>, <<>>, 0)
  BY <1>1, <1>2 DEF Gate!GateAssumption, HostInv
<1>4. ASSUME NEW g \in Host
      PROVE  HostInv(failures'[g], guesses'[g], lockLeft'[g])
  BY <1>3 DEF GateInv, Gate!Right
<1>5. /\ failures' \in [Host -> Seq(0 .. Lockout)]
      /\ guesses' \in [Host -> Seq(0 .. 2 * Lockout)]
      /\ lockLeft' \in [Host -> 0 .. Lockout]
  BY <1>1 DEF GateInv, Gate!Right
<1> QED BY <1>4, <1>5 DEF GateInv

LEMMA GateWrong ==
  ASSUME Gate!GateAssumption, GateInv, NEW h \in Host, Gate!Wrong(h)
  PROVE  GateInv'
<1> DEFINE G == guesses[h]
           F == failures[h]
           y == Gate!Younger(F, Lockout)
           H == Append(G, 0)
           R == Append(y, 0)
<1>1. /\ Lockout \in Nat /\ Lockout > 0 /\ 2 * Lockout \in Nat
      /\ MaxFailures \in Nat
      /\ G \in Seq(0 .. 2 * Lockout) /\ F \in Seq(0 .. Lockout)
      /\ OldestFirst(G) /\ OldestFirst(F) /\ lockLeft[h] = 0
  BY DEF Gate!GateAssumption, GateInv, HostInv, Gate!Wrong
<1>2. /\ y \in Seq(0 .. Lockout) /\ Len(y) <= Len(F) /\ OldestFirst(y)
      /\ \A j \in Nat : j < Len(y) <=> Young(F, j)
      /\ \A j \in Nat : j < Len(y) => Nth(y, j) = Nth(F, j)
  BY <1>1, YoungerEnd, SMTT(30) DEF Young
<1>3. /\ H \in Seq(0 .. 2 * Lockout)
      /\ Len(H) = Len(G) + 1
      /\ OldestFirst(H)
      /\ Young(H, 0) /\ Nth(H, 0) = 0
      /\ \A j \in Nat : j < Len(G) => Nth(H, j + 1) = Nth(G, j)
      /\ \A j \in Nat : Young(H, j + 1) <=> Young(G, j)
  BY <1>1, OneMore, ZenonT(30)
<1>4. /\ R \in Seq(0 .. Lockout)
      /\ Len(R) = Len(y) + 1
      /\ OldestFirst(R)
      /\ Young(R, 0) /\ Nth(R, 0) = 0
      /\ \A j \in Nat : j < Len(y) => Nth(R, j + 1) = Nth(y, j)
      /\ \A j \in Nat : Young(R, j + 1) <=> Young(y, j)
  BY <1>1, <1>2, OneMore, ZenonT(30)
<1>5. /\ Len(F) < MaxFailures
      /\ \A j \in Nat : Young(G, j) => j < MaxFailures
      /\ \A j \in Nat : Young(G, j) <=> Young(F, j)
      /\ \A j \in Nat : Young(G, j) => Nth(G, j) = Nth(F, j)
  BY <1>1 DEF GateInv, HostInv
<1>6. /\ guesses' = [guesses EXCEPT ![h] = H]
      /\ IF Len(R) >= MaxFailures
         THEN /\ failures' = [failures EXCEPT ![h] = <<>>]
              /\ lockLeft' = [lockLeft EXCEPT ![h] = Lockout]
         ELSE /\ failures' = [failures EXCEPT ![h] = R]
              /\ lockLeft' = lockLeft
  BY DEF Gate!Wrong, Gate!Recent
<1> HIDE DEF G, F, y, H, R
<1>7. Len(y) \in Nat /\ Len(G) \in Nat /\ Len(F) \in Nat
  BY <1>1, <1>2, LenProperties
<1>8. ASSUME NEW j \in Nat
      PROVE  /\ Young(H, j) <=> j < Len(R)
             /\ Young(R, j) <=> j < Len(R)
             /\ j < Len(R) => Nth(H, j) = Nth(R, j)
  <2>1. CASE j = 0
    BY <1>3, <1>4, <1>7, <2>1
  <2>2. CASE j # 0
    <3> DEFINE i == j - 1
    <3>1. i \in Nat /\ j = i + 1
      BY <2>2
    <3> HIDE DEF i
    <3>2. Young(H, j) <=> Young(G, i)
      BY <1>3, <3>1
    <3>3. Young(G, i) <=> i < Len(y)
      BY <1>2, <1>5, <3>1
    <3>4. i < Len(y) <=> j < Len(R)
      <4>1. Len(R) = Len(y) + 1
        BY <1>4
      <4> QED BY <1>7, <3>1, <4>1
    <3>5. Young(R, j) <=> Young(y, i)
      BY <1>4, <3>1
    <3>6. i < Len(y) => Nth(y, i) = Nth(F, i) /\ Nth(F, i) < Lockout
      BY <1>2, <3>1 DEF Young
    <3>7. Young(y, i) <=> i < Len(y)
      BY <3>6 DEF Young
    <3>8. i < Len(y) => Nth(H, j) = Nth(G, i) /\ Nth(R, j) = Nth(y, i)
      BY <1>3, <1>4, <3>1, <3>3 DEF Young
    <3>9. i < Len(y) => Nth(G, i) = Nth(F, i)
      BY <1>5, <3>1, <3>3
    <3> QED BY <3>2, <3>3, <3>4, <3>5, <3>6, <3>7, <3>8, <3>9
  <2> QED BY <2>1, <2>2
<1>9. /\ <<>> \in Seq(0 .. Lockout) /\ Len(<<>>) = 0
      /\ OldestFirst(<<>>)
  <2>1. <<>> \in Seq(0 .. Lockout) /\ Len(<<>>) = 0
    BY EmptySeq
  <2> QED BY <2>1 DEF OldestFirst
<1>10. Len(R) <= MaxFailures /\ Len(R) \in Nat
  BY <1>1, <1>2, <1>4, <1>5, <1>7
<1>11. CASE Len(R) >= MaxFailures
  <2>1. ASSUME NEW i \in 1 .. Len(H)
        PROVE  H[i] >= Lockout - Lockout
    <3>1. H[i] \in 0 .. 2 * Lockout
      BY <1>3, ElementOfSeq
    <3> QED BY <1>1, <3>1
  <2>2. HostInv(<<>>, H, Lockout)
    <3>1. \A j \in Nat : Young(H, j) => j < MaxFailures
      BY <1>1, <1>8, <1>10
    <3>2. 0 < MaxFailures /\ Lockout # 0
      BY DEF Gate!GateAssumption
    <3> QED BY <1>1, <1>3, <1>9, <2>1, <3>1, <3>2 DEF HostInv
  <2>3. \A g \in Host : HostInv(failures'[g], guesses'[g], lockLeft'[g])
    BY <1>6, <1>11, <2>2 DEF GateInv
  <2>4. /\ failures' \in [Host -> Seq(0 .. Lockout)]
        /\ guesses' \in [Host -> Seq(0 .. 2 * Lockout)]
        /\ lockLeft' \in [Host -> 0 .. Lockout]
    <3>1. Lockout \in 0 .. Lockout
      BY <1>1
    <3>2. /\ failures' = [failures EXCEPT ![h] = <<>>]
          /\ guesses' = [guesses EXCEPT ![h] = H]
          /\ lockLeft' = [lockLeft EXCEPT ![h] = Lockout]
      BY <1>6, <1>11
    <3> QED BY <1>3, <1>9, <3>1, <3>2 DEF GateInv
  <2> QED BY <2>3, <2>4 DEF GateInv
<1>12. CASE ~(Len(R) >= MaxFailures)
  <2>2. HostInv(R, H, 0)
    <3>1. Len(R) < MaxFailures
      BY <1>1, <1>10, <1>12
    <3>2. \A j \in Nat : Young(H, j) => j < MaxFailures
      BY <1>1, <1>8, <1>10
    <3>3. \A j \in Nat : /\ Young(H, j) <=> Young(R, j)
                         /\ Young(H, j) => Nth(H, j) = Nth(R, j)
      BY <1>8
    <3> QED BY <1>3, <1>4, <3>1, <3>2, <3>3 DEF HostInv
  <2>3. \A g \in Host : HostInv(failures'[g], guesses'[g], lockLeft'[g])
    BY <1>1, <1>6, <1>12, <2>2 DEF GateInv
  <2>4. /\ failures' \in [Host -> Seq(0 .. Lockout)]
        /\ guesses' \in [Host -> Seq(0 .. 2 * Lockout)]
        /\ lockLeft' \in [Host -> 0 .. Lockout]
    BY <1>1, <1>3, <1>4, <1>6, <1>12 DEF GateInv
  <2> QED BY <2>3, <2>4 DEF GateInv
<1> QED BY <1>11, <1>12

\* Ageing leaves a list in order, and what is young has aged by one.
LEMMA Aged ==
  ASSUME NEW m \in Nat, NEW s \in Seq(0 .. m), OldestFirst(s),
         Lockout \in Nat, Lockout <= m
  PROVE  LET t == Gate!Older(s, m)
         IN  /\ t \in Seq(0 .. m)
             /\ Len(t) = Len(s)
             /\ OldestFirst(t)
             /\ \A j \in Nat : Young(t, j) <=> (Young(s, j) /\ Nth(s, j) + 1 < Lockout)
             /\ \A j \in Nat : Young(s, j) => Nth(t, j) = Nth(s, j) + 1
             /\ \A i \in 1 .. Len(s) : t[i] = IF s[i] < m THEN s[i] + 1 ELSE m
<1> DEFINE t == Gate!Older(s, m)
<1>1. /\ Len(s) \in Nat /\ DOMAIN s = 1 .. Len(s)
      /\ \A i \in 1 .. Len(s) : s[i] \in 0 .. m
  BY LenProperties, ElementOfSeq
<1>2. t = [i \in 1 .. Len(s) |-> IF s[i] < m THEN s[i] + 1 ELSE m]
  BY <1>1 DEF Gate!Older
<1>3. \A i \in 1 .. Len(s) : t[i] = IF s[i] < m THEN s[i] + 1 ELSE m
  BY <1>2
<1>4. t \in Seq(0 .. m) /\ Len(t) = Len(s)
  <2>1. \A i \in 1 .. Len(s) : (IF s[i] < m THEN s[i] + 1 ELSE m) \in 0 .. m
    BY <1>1
  <2>2. t \in [1 .. Len(s) -> 0 .. m]
    BY <1>2, <2>1
  <2> HIDE DEF t
  <2>3. t \in Seq(0 .. m)
    BY <1>1, <2>2
  <2> QED BY <1>1, <2>2, <2>3, LenProperties
<1> HIDE DEF t
<1>5. OldestFirst(t)
  BY <1>1, <1>3, <1>4 DEF OldestFirst
<1>6. ASSUME NEW j \in Nat
      PROVE  /\ Young(t, j) <=> (Young(s, j) /\ Nth(s, j) + 1 < Lockout)
             /\ Young(s, j) => Nth(t, j) = Nth(s, j) + 1
  <2>1. CASE j < Len(s)
    <3>1. Len(s) - j \in 1 .. Len(s)
      BY <1>1, <2>1
    <3>2. Nth(t, j) = (IF Nth(s, j) < m THEN Nth(s, j) + 1 ELSE m) /\ Nth(s, j) \in 0 .. m
      BY <1>1, <1>3, <1>4, <3>1 DEF Nth
    <3> QED BY <1>4, <2>1, <3>2 DEF Young
  <2>2. CASE ~(j < Len(s))
    BY <1>4, <2>2 DEF Young
  <2> QED BY <2>1, <2>2
<1> QED BY <1>3, <1>4, <1>5, <1>6 DEF t

LEMMA GateTick ==
  ASSUME Gate!GateAssumption, GateInv, Gate!Tick
  PROVE  GateInv'
<1>1. /\ Lockout \in Nat /\ 0 < Lockout /\ 2 * Lockout \in Nat
      /\ Lockout <= 2 * Lockout /\ MaxFailures \in Nat
  BY DEF Gate!GateAssumption
<1>2. ASSUME NEW h \in Host
      PROVE  /\ failures'[h] \in Seq(0 .. Lockout)
             /\ guesses'[h] \in Seq(0 .. 2 * Lockout)
             /\ lockLeft'[h] \in 0 .. Lockout
             /\ HostInv(failures'[h], guesses'[h], lockLeft'[h])
  <2> DEFINE F == failures[h]
             G == guesses[h]
             lock == lockLeft[h]
             lock1 == lockLeft'[h]
             F1 == failures'[h]
             H == Gate!Older(G, 2 * Lockout)
             G1 == guesses'[h]
  <2>1. /\ F \in Seq(0 .. Lockout) /\ G \in Seq(0 .. 2 * Lockout)
        /\ lock \in 0 .. Lockout
        /\ HostInv(F, G, lock)
    BY DEF GateInv
  <2>2. /\ F1 = Gate!Older(F, Lockout)
        /\ G1 = Gate!Younger(H, 2 * Lockout)
        /\ lock1 = IF lock = 0 THEN 0 ELSE lock - 1
    BY DEF Gate!Tick
  <2> HIDE DEF F, G, lock, F1, G1, lock1
  <2>3. OldestFirst(F) /\ OldestFirst(G)
    BY <2>1 DEF HostInv
  <2>4. /\ F1 \in Seq(0 .. Lockout)
        /\ Len(F1) = Len(F)
        /\ OldestFirst(F1)
        /\ \A j \in Nat : Young(F1, j) <=> (Young(F, j) /\ Nth(F, j) + 1 < Lockout)
        /\ \A j \in Nat : Young(F, j) => Nth(F1, j) = Nth(F, j) + 1
    <3>1. Lockout <= Lockout
      BY <1>1
    <3> QED BY <1>1, <2>1, <2>2, <2>3, <3>1, Aged
  <2>5. /\ H \in Seq(0 .. 2 * Lockout)
        /\ Len(H) = Len(G)
        /\ OldestFirst(H)
        /\ \A j \in Nat : Young(H, j) <=> (Young(G, j) /\ Nth(G, j) + 1 < Lockout)
        /\ \A j \in Nat : Young(G, j) => Nth(H, j) = Nth(G, j) + 1
        /\ \A i \in 1 .. Len(G) :
              H[i] = IF G[i] < 2 * Lockout THEN G[i] + 1 ELSE 2 * Lockout
    BY <1>1, <2>1, <2>3, Aged
  <2> HIDE DEF H
  <2>6. /\ G1 \in Seq(0 .. 2 * Lockout)
        /\ Len(G1) <= Len(H)
        /\ OldestFirst(G1)
        /\ \A j \in Nat : j < Len(G1) <=> (j < Len(H) /\ Nth(H, j) < 2 * Lockout)
        /\ \A j \in Nat : j < Len(G1) => Nth(G1, j) = Nth(H, j)
    BY <1>1, <2>2, <2>5, YoungerEnd
  <2>7. /\ Len(G) \in Nat /\ Len(H) \in Nat /\ Len(G1) \in Nat
        /\ \A i \in 1 .. Len(G) : G[i] \in 0 .. 2 * Lockout
        /\ \A i \in 1 .. Len(H) : H[i] \in 0 .. 2 * Lockout
    BY <2>1, <2>5, <2>6, LenProperties, ElementOfSeq
  <2>8. ASSUME NEW j \in Nat
        PROVE  /\ Young(G1, j) <=> Young(H, j)
               /\ Young(H, j) => Nth(G1, j) = Nth(H, j)
    <3>1. CASE j < Len(H)
      <4>1. Len(H) - j \in 1 .. Len(H)
        BY <2>7, <3>1
      <4>2. Nth(H, j) \in 0 .. 2 * Lockout
        BY <2>7, <4>1 DEF Nth
      <4> QED BY <1>1, <2>6, <2>7, <3>1, <4>2 DEF Young
    <3>2. CASE ~(j < Len(H))
      BY <2>6, <2>7, <3>2 DEF Young
    <3> QED BY <3>1, <3>2
  <2>9. \A j \in Nat : Young(G1, j) => j < MaxFailures
    BY <2>1, <2>5, <2>8 DEF HostInv
  <2>10. CASE lock > 0
    <3>1. /\ F = <<>>
          /\ \A i \in 1 .. Len(G) : G[i] >= Lockout - lock
      BY <2>1, <2>10 DEF HostInv
    <3>2. lock1 = lock - 1
      BY <2>1, <2>2, <2>10
    <3>3. Len(F) = 0
      BY <3>1, EmptySeq
    <3>4. Len(F1) = 0 /\ F1 = <<>>
      BY <2>4, <3>3, EmptySeq
    <3>5. ASSUME NEW i \in 1 .. Len(G1)
          PROVE  G1[i] >= Lockout - lock1
      <4> DEFINE j == Len(G1) - i
      <4>1. j \in Nat /\ j < Len(G1) /\ Len(G1) - j = i
        BY <2>7
      <4> HIDE DEF j
      <4>2. G1[i] = Nth(H, j)
        BY <2>6, <4>1 DEF Nth
      <4>3. Len(H) - j \in 1 .. Len(G)
        BY <2>5, <2>6, <2>7, <4>1
      <4> DEFINE k == Len(H) - j
      <4>4. k \in 1 .. Len(G) /\ G1[i] = H[k]
        BY <4>2, <4>3 DEF Nth
      <4> HIDE DEF k
      <4>5. /\ H[k] = IF G[k] < 2 * Lockout THEN G[k] + 1 ELSE 2 * Lockout
            /\ G[k] >= Lockout - lock /\ G[k] \in 0 .. 2 * Lockout
        BY <2>5, <2>7, <3>1, <4>4
      <4>6. lock \in 0 .. Lockout
        BY <2>1
      <4> QED BY <1>1, <2>10, <3>2, <4>4, <4>5, <4>6
    <3>6. ASSUME lock1 = 0, NEW j \in Nat
          PROVE  ~Young(G1, j)
      <4>1. SUFFICES ASSUME Young(G1, j) PROVE FALSE
        OBVIOUS
      <4>2. j < Len(G1) /\ Nth(G1, j) < Lockout
        BY <4>1 DEF Young
      <4>3. Len(G1) - j \in 1 .. Len(G1)
        BY <2>7, <4>2
      <4>4. Nth(G1, j) >= Lockout - lock1
        BY <3>5, <4>3 DEF Nth
      <4>5. Nth(G1, j) \in 0 .. 2 * Lockout
        BY <2>6, <4>3, ElementOfSeq DEF Nth
      <4> QED BY <1>1, <3>6, <4>2, <4>4, <4>5
    <3>7. \A j \in Nat : ~Young(F1, j)
      BY <3>4 DEF Young
    <3>8. HostInv(F1, G1, lock1)
      <4>1. Len(F1) < MaxFailures
        BY <3>4 DEF Gate!GateAssumption
      <4> QED BY <2>4, <2>6, <2>9, <3>4, <3>5, <3>6, <3>7, <4>1 DEF HostInv
    <3>9. lock1 \in 0 .. Lockout
      BY <1>1, <2>1, <2>10, <3>2
    <3> QED BY <2>4, <2>6, <3>8, <3>9 DEF F1, G1, lock1
  <2>11. CASE ~(lock > 0)
    <3>1. lock = 0 /\ lock1 = 0
      BY <2>1, <2>2, <2>11
    <3>2. \A j \in Nat : /\ Young(G, j) <=> Young(F, j)
                         /\ Young(G, j) => Nth(G, j) = Nth(F, j)
      BY <2>1, <3>1 DEF HostInv
    <3>3. ASSUME NEW j \in Nat
          PROVE  /\ Young(G1, j) <=> Young(F1, j)
                 /\ Young(G1, j) => Nth(G1, j) = Nth(F1, j)
      <4>1. Young(G1, j) <=> (Young(G, j) /\ Nth(G, j) + 1 < Lockout)
        BY <2>5, <2>8
      <4>2. Young(F1, j) <=> (Young(F, j) /\ Nth(F, j) + 1 < Lockout)
        BY <2>4
      <4>3. Young(F, j) => Nth(F1, j) = Nth(F, j) + 1
        BY <2>4
      <4>4. Young(G, j) /\ Young(G1, j) => Nth(G1, j) = Nth(G, j) + 1
        BY <2>5, <2>8
      <4> QED BY <3>2, <4>1, <4>2, <4>3, <4>4
    <3>4. HostInv(F1, G1, lock1)
      <4>1. Len(F1) < MaxFailures
        BY <2>1, <2>4 DEF HostInv
      <4> QED BY <2>4, <2>6, <2>9, <3>1, <3>3, <4>1 DEF HostInv
    <3>5. lock1 \in 0 .. Lockout
      BY <1>1, <3>1
    <3> QED BY <2>4, <2>6, <3>4, <3>5 DEF F1, G1, lock1
  <2> QED BY <2>10, <2>11
<1>3. /\ failures' = [h \in Host |-> failures'[h]]
      /\ guesses' = [h \in Host |-> guesses'[h]]
      /\ lockLeft' = [h \in Host |-> lockLeft'[h]]
  BY DEF Gate!Tick
<1>4. /\ failures' \in [Host -> Seq(0 .. Lockout)]
      /\ guesses' \in [Host -> Seq(0 .. 2 * Lockout)]
      /\ lockLeft' \in [Host -> 0 .. Lockout]
  BY <1>2, <1>3
<1> QED BY <1>2, <1>4 DEF GateInv

LEMMA GateCorrect == Gate!GateAssumption => (Gate!Spec => []GateInv)
<1> SUFFICES ASSUME Gate!GateAssumption PROVE Gate!Spec => []GateInv
  OBVIOUS
<1>1. Gate!Init => GateInv
  BY GateInit
<1>2. GateInv /\ [Gate!Next]_(Gate!vars) => GateInv'
  <2> SUFFICES ASSUME GateInv, [Gate!Next]_(Gate!vars) PROVE GateInv'
    OBVIOUS
  <2>1. ASSUME NEW h \in Host, NEW presented \in Gate!Key, Gate!Check(h, presented)
        PROVE  GateInv'
    <3>1. CASE UNCHANGED <<failures, lockLeft, guesses>>
      BY <3>1 DEF GateInv
    <3>2. CASE Gate!Right(h)
      BY <3>2, GateRight
    <3>3. CASE Gate!Wrong(h)
      BY <3>3, GateWrong
    <3> QED BY <2>1, <3>1, <3>2, <3>3 DEF Gate!Check, Gate!NoKey, Gate!Locked,
                   Gate!Disabled
  <2>2. CASE Gate!Tick
    BY <2>2, GateTick
  <2>3. CASE Gate!Restart
    <3>1. /\ <<>> \in Seq(0 .. Lockout) /\ <<>> \in Seq(0 .. 2 * Lockout)
          /\ Len(<<>>) = 0
      BY EmptySeq
    <3>2. OldestFirst(<<>>) /\ \A j \in Nat : ~Young(<<>>, j)
      BY <3>1 DEF OldestFirst, Young
    <3> QED BY <2>3, <3>1, <3>2 DEF Gate!GateAssumption, Gate!Restart, GateInv,
                   HostInv
  <2>4. CASE UNCHANGED Gate!vars
    BY <2>4 DEF Gate!vars, GateInv
  <2> QED BY <2>1, <2>2, <2>3, <2>4 DEF Gate!Next
<1> QED BY <1>1, <1>2, PTL DEF Gate!Spec

LEMMA GateUsed == ASSUME Gate!GateAssumption, GateInv PROVE Gate!GuessBound
<1> SUFFICES ASSUME NEW h \in Host
             PROVE  Len(Gate!Younger(guesses[h], Lockout)) <= MaxFailures
  BY DEF Gate!GuessBound
<1> DEFINE G == guesses[h]
           y == Gate!Younger(G, Lockout)
<1>1. /\ G \in Seq(0 .. 2 * Lockout) /\ OldestFirst(G)
      /\ \A j \in Nat : Young(G, j) => j < MaxFailures
      /\ Lockout \in Nat /\ 2 * Lockout \in Nat /\ MaxFailures \in Nat
  BY DEF Gate!GateAssumption, GateInv, HostInv
<1> HIDE DEF G
<1>2. /\ y \in Seq(0 .. 2 * Lockout)
      /\ \A j \in Nat : j < Len(y) <=> Young(G, j)
  BY <1>1, YoungerEnd, SMTT(30) DEF Young
<1> HIDE DEF y
<1>3. Len(y) \in Nat
  BY <1>2, LenProperties
<1>4. ~(MaxFailures < Len(y))
  BY <1>1, <1>2
<1> QED BY <1>1, <1>3, <1>4 DEF y, G

\* However a host spaces its guesses around expiring failures and lockouts
\* (KeyGate.check), at most MaxFailures wrong keys are compared in any window of
\* Lockout ticks that holds no right key.
THEOREM GuessesBounded == Spec => []GuessBound
<1>1. Gate!Spec => []GateInv
  BY PartsAssumption, GateCorrect
<1>2. GateInv => GuessBound
  BY PartsAssumption, GateUsed DEF GuessBound
<1> QED BY <1>1, <1>2, GatePart, PTL

-----------------------------------------------------------------------------
(***************************************************************************)
(* TalkFollow implements ControllerTalks for any hosts, poll period and    *)
(* timeout, and follows a slot that stands still: both from FollowInv.     *)
(***************************************************************************)

LEMMA FollowPart == Spec => Follow!Spec
<1>1. Init => Follow!Init
  BY DEF Init
<1>2. [Next]_vars => [Follow!Next]_(Follow!vars)
  BY DEF Next, vars, OnlyGate, OnlyFollow, OnlyCap, OnlyAudio, OnlyBack, OnlyLog,
         OnlyRig, OnlyFaults, OnlySheets, OnlyBoxed, Follow!vars, followVars
<1> QED BY <1>1, <1>2, PTL DEF Spec, Follow!Spec

LEMMA FollowInit == ASSUME Follow!FollowAssumption, Follow!Init PROVE Follow!FollowInv
  BY DEF Follow!FollowAssumption, Follow!Init, Follow!FollowInv, Follow!TypeOK,
         Follow!TaskInv, Follow!AgeInv, Follow!StillInv, Follow!Someone,
         Follow!Lag

\* The slot passes on, P1 dies, stands still, serves again: the ages of the
\* others stay, and what has to stand still starts to count anew.
LEMMA FollowP1 ==
  ASSUME Follow!FollowAssumption, Follow!FollowInv,
         (\E h \in Follow!Someone : Follow!Pass(h)) \/ Follow!P1Dies \/ Follow!P1Stalls \/ Follow!P1Serves
  PROVE  Follow!FollowInv'
<1> USE DEF Follow!FollowAssumption, Follow!FollowInv, Follow!TypeOK,
           Follow!TaskInv, Follow!AgeInv, Follow!StillInv, Follow!Someone,
           Follow!Lag
<1>1. CASE \E h \in Follow!Someone : Follow!Pass(h)
  <2>1. PICK h \in Follow!Someone : Follow!Pass(h)
    BY <1>1
  <2>2. Follow!TypeOK' /\ Follow!TaskInv'
    BY <2>1 DEF Follow!Pass, Follow!Stamp, Follow!p2vars
  <2>3. \A g \in Host : stale'[g] = IF g = h THEN 0 ELSE stale[g]
    BY <2>1 DEF Follow!Pass, Follow!Stamp
  <2>4. Follow!AgeInv'
    BY <2>1, <2>3 DEF Follow!Pass, Follow!p2vars
  <2>5. Follow!StillInv'
    BY <2>1 DEF Follow!Pass, Follow!p2vars
  <2> QED BY <2>2, <2>4, <2>5
<1>2. CASE Follow!P1Dies
  BY <1>2 DEF Follow!P1Dies, Follow!p2vars
<1>3. CASE Follow!P1Stalls \/ Follow!P1Serves
  BY <1>3 DEF Follow!P1Stalls, Follow!P1Serves, Follow!p2vars
<1> QED BY <1>1, <1>2, <1>3

\* A request starts, is answered, ends.
LEMMA FollowP2 ==
  ASSUME Follow!FollowAssumption, Follow!FollowInv, Follow!Answer \/ Follow!Wake \/ Follow!Follow \/ Follow!Fail \/ Follow!P2Restarts
  PROVE  Follow!FollowInv'
<1> USE DEF Follow!FollowAssumption, Follow!FollowInv, Follow!TypeOK,
           Follow!TaskInv, Follow!AgeInv, Follow!StillInv, Follow!Someone,
           Follow!Lag
<1>1. CASE Follow!Answer
  BY <1>1 DEF Follow!Answer, Follow!p1vars, Follow!p2vars
<1>2. CASE Follow!Wake
  BY <1>2 DEF Follow!Wake, Follow!Ask, Follow!p1vars
<1>3. CASE Follow!Follow
  BY <1>3 DEF Follow!Follow, Follow!Take, Follow!p1vars
<1>4. CASE Follow!Fail
  BY <1>4 DEF Follow!Fail, Follow!Take, Follow!p1vars
<1>5. CASE Follow!P2Restarts
  BY <1>5 DEF Follow!P2Restarts, Follow!Ask, Follow!p1vars
<1> QED BY <1>1, <1>2, <1>3, <1>4, <1>5

\* Time passes: the claims grow older by one, as does the task's wait.
LEMMA FollowTick == ASSUME Follow!FollowAssumption, Follow!FollowInv, Follow!Tick PROVE Follow!FollowInv'
<1> USE DEF Follow!FollowAssumption, Follow!FollowInv, Follow!TypeOK,
           Follow!Someone, Follow!Lag
<1>1. \A h \in Host :
         /\ stale'[h] \in 0 .. Follow!Lag + 1
         /\ stale'[h] <= stale[h] + 1
         /\ h = holder => stale'[h] = stale[h]
  BY DEF Follow!Tick
<1>2. Follow!TypeOK'
  <2>1. stale' \in [Host -> 0 .. Follow!Lag + 1]
    BY <1>1 DEF Follow!Tick
  <2> QED BY <2>1 DEF Follow!Tick, Follow!p1vars
<1>3. Follow!TaskInv'
  BY DEF Follow!Tick, Follow!TaskInv, Follow!p1vars
<1>4. Follow!AgeInv'
  BY <1>1 DEF Follow!Tick, Follow!TaskInv, Follow!AgeInv, Follow!p1vars
<1>5. Follow!StillInv'
  BY DEF Follow!Tick, Follow!TaskInv, Follow!StillInv, Follow!p1vars
<1> QED BY <1>2, <1>3, <1>4, <1>5

LEMMA FollowStep ==
  ASSUME Follow!FollowAssumption, Follow!FollowInv, [Follow!Next]_(Follow!vars) PROVE Follow!FollowInv'
<1>1. CASE UNCHANGED Follow!vars
  BY <1>1 DEF Follow!vars, Follow!FollowInv, Follow!TypeOK, Follow!TaskInv,
         Follow!AgeInv, Follow!StillInv
<1>2. CASE Follow!Next
  BY <1>2, FollowP1, FollowP2, FollowTick DEF Follow!Next
<1> QED BY <1>1, <1>2

\* Every state of the poll is one FollowInv describes.
LEMMA FollowCorrect == ASSUME Follow!FollowAssumption PROVE Follow!Spec => []Follow!FollowInv
<1>1. Follow!Init => Follow!FollowInv
  BY FollowInit
<1>2. Follow!FollowInv /\ [Follow!Next]_(Follow!vars) => Follow!FollowInv'
  BY FollowStep
<1> QED BY <1>1, <1>2, PTL DEF Follow!Spec

-----------------------------------------------------------------------------
\* A step of P1 passes the slot on, or is none to the promise.
LEMMA FollowP1Refines ==
  ASSUME Follow!FollowAssumption, Follow!FollowInv,
         (\E h \in Follow!Someone : Follow!Pass(h)) \/ Follow!P1Dies \/ Follow!P1Stalls \/ Follow!P1Serves
  PROVE  [Follow!Promise!Next]_(Follow!Promise!vars)
<1> USE DEF Follow!FollowAssumption, Follow!FollowInv, Follow!TypeOK,
           Follow!Someone, Follow!Promise!Next, Follow!Promise!vars
<1>1. CASE \E h \in Follow!Someone : Follow!Pass(h)
  BY <1>1 DEF Follow!Pass, Follow!Stamp, Follow!p2vars, Follow!Promise!Pass
<1>2. CASE Follow!P1Dies
  <2>1. stale = [g \in Host |-> IF g = Nobody THEN 0 ELSE stale[g]]
    OBVIOUS
  <2>2. Follow!Promise!Pass(Nobody)
    BY <1>2, <2>1 DEF Follow!P1Dies, Follow!p2vars, Follow!Promise!Pass
  <2> QED BY <2>2
<1>3. CASE Follow!P1Stalls \/ Follow!P1Serves
  BY <1>3 DEF Follow!P1Stalls, Follow!P1Serves, Follow!p2vars
<1> QED BY <1>1, <1>2, <1>3

\* P2 allows the host an answer names, or nobody.
LEMMA FollowP2Refines ==
  ASSUME Follow!FollowAssumption, Follow!FollowInv, Follow!Answer \/ Follow!Wake \/ Follow!Follow \/ Follow!Fail \/ Follow!P2Restarts
  PROVE  [Follow!Promise!Next]_(Follow!Promise!vars)
<1> USE DEF Follow!FollowAssumption, Follow!FollowInv, Follow!TypeOK,
           Follow!Someone, Follow!Promise!Next, Follow!Promise!vars
<1>1. CASE Follow!Answer \/ Follow!Wake
  BY <1>1 DEF Follow!Answer, Follow!Wake, Follow!Ask, Follow!p1vars, Follow!p2vars
<1>2. CASE Follow!Follow
  <2>1. reply \in Host => stale[reply] <= Follow!Lag
    BY <1>2 DEF Follow!Follow, Follow!TaskInv, Follow!AgeInv, Follow!Lag
  <2>2. Follow!Promise!Allow(reply)
    BY <1>2, <2>1 DEF Follow!Follow, Follow!Take, Follow!p1vars, Follow!Promise!Allow
  <2> QED BY <1>2, <2>2 DEF Follow!Follow
<1>3. CASE Follow!Fail \/ Follow!P2Restarts
  <2>1. Follow!Promise!Allow(Nobody)
    BY <1>3 DEF Follow!Fail, Follow!Take, Follow!P2Restarts, Follow!Ask,
           Follow!p1vars, Follow!Promise!Allow
  <2> QED BY <2>1
<1> QED BY <1>1, <1>2, <1>3

\* Time passes no further than the promise lets it.
LEMMA FollowTickRefines ==
  ASSUME Follow!FollowAssumption, Follow!FollowInv, Follow!FollowInv', Follow!Tick PROVE Follow!Promise!Tick
<1>1. talker' \in Host => stale'[talker'] <= Follow!Lag
  BY DEF Follow!FollowAssumption, Follow!FollowInv, Follow!TypeOK,
         Follow!TaskInv, Follow!AgeInv, Follow!Lag
<1>2. stale' = [h \in Host |-> Follow!Promise!Older(h)]
  BY DEF Follow!Tick, Follow!Promise!Older
<1> QED BY <1>1, <1>2 DEF Follow!Tick, Follow!p1vars, Follow!Promise!Tick

\* TalkFollow implements ControllerTalks.
LEMMA FollowPromise ==
  ASSUME Follow!FollowAssumption PROVE Follow!Spec => Follow!FollowsSlot
<1>1. Follow!Init => Follow!Promise!Init
  BY DEF Follow!Init, Follow!Promise!Init
<1>2. Follow!FollowInv /\ Follow!FollowInv' /\ [Follow!Next]_(Follow!vars) => [Follow!Promise!Next]_(Follow!Promise!vars)
  <2> SUFFICES ASSUME Follow!FollowInv, Follow!FollowInv', [Follow!Next]_(Follow!vars)
               PROVE  [Follow!Promise!Next]_(Follow!Promise!vars)
    OBVIOUS
  <2>1. CASE UNCHANGED Follow!vars
    BY <2>1 DEF Follow!vars, Follow!Promise!vars
  <2>2. CASE Follow!Tick
    BY <2>2, FollowTickRefines DEF Follow!Promise!Next
  <2>3. CASE Follow!Next /\ ~Follow!Tick
    BY <2>3, FollowP1Refines, FollowP2Refines DEF Follow!Next
  <2> QED BY <2>1, <2>2, <2>3
<1> QED BY <1>1, <1>2, FollowCorrect, PTL DEF Follow!Spec, Follow!FollowsSlot,
               Follow!Promise!Spec

\* What HolderTalks says is part of FollowInv.
LEMMA FollowHolder == ASSUME Follow!FollowAssumption, Follow!FollowInv PROVE Follow!HolderTalks
  BY DEF Follow!FollowAssumption, Follow!FollowInv, Follow!TypeOK,
         Follow!TaskInv, Follow!StillInv, Follow!HolderTalks, Follow!Lag

\* The poll implements what ControllerTalks promises: a host that lost the slot
\* may act for Lag more at most, whatever P1 and P2 go through.
THEOREM FollowsInTime == Spec => FollowsSlot
<1>1. Follow!Spec => Follow!FollowsSlot
  BY PartsAssumption, FollowPromise
<1> QED BY <1>1, FollowPart, PTL DEF FollowsSlot

\* A slot that has stood still for Lag, with P1 up and P2 not started again, is
\* the one P2 goes by.
THEOREM FollowsHolder == Spec => []HolderTalks
<1>1. Follow!Spec => []Follow!FollowInv
  BY PartsAssumption, FollowCorrect
<1>2. Follow!FollowInv => HolderTalks
  BY PartsAssumption, FollowHolder DEF HolderTalks
<1> QED BY <1>1, <1>2, FollowPart, PTL

-----------------------------------------------------------------------------
(***************************************************************************)
(* Capture: what a device counts is the tracks that share it and the       *)
(* connections that were left over, in CaptureInv.  What a step does to    *)
(* the sound of a session is MicMoves.                                     *)
(***************************************************************************)

LEMMA CapPart == Spec => Cap!Spec
<1>1. Init => Cap!Init
  BY DEF Init
<1>2. [Next]_vars => [Cap!Next]_(Cap!vars)
  BY DEF Next, vars, OnlyGate, OnlyFollow, OnlyCap, OnlyAudio, OnlyBack, OnlyLog,
         OnlyRig, OnlyFaults, OnlySheets, OnlyBoxed, Cap!vars, captureVars, Cap!shared
<1> QED BY <1>1, <1>2, PTL DEF Spec, Cap!Spec

Sharers(d) == Cardinality(Cap!On(d)) + IF d = "camera" THEN leaked ELSE 0

CaptureInv ==
    /\ track \in [Cap!Device -> [Viewer -> {"none", "on", "old", "fallback", "ended"}]]
    /\ source \in [Cap!Device -> {"none", "live", "dead"}]
    /\ users \in [Cap!Device -> Nat]
    /\ leaked \in Nat
    /\ \A v \in Viewer : track["camera"][v] = "none" => track["mic"][v] = "none"
    /\ \A d \in Cap!Device :
          /\ IsFiniteSet(Cap!On(d))
          /\ IF source[d] = "none" THEN Sharers(d) = 0 ELSE Sharers(d) > 0 /\ users[d] = Sharers(d)

LEMMA CaptureInit == ASSUME Cap!CaptureAssumption, Cap!Init PROVE CaptureInv
<1>1. \A d \in Cap!Device : Cap!On(d) = {}
  BY DEF Cap!Init, Cap!On
<1>2. IsFiniteSet({}) /\ Cardinality({}) = 0
  BY FS_EmptySet
<1>3. \A d \in Cap!Device : IsFiniteSet(Cap!On(d)) /\ Sharers(d) = 0
  BY <1>1, <1>2 DEF Cap!Init, Sharers
<1> QED BY <1>3 DEF Cap!Init, CaptureInv, Cap!Device

\* A proxy is made of device d for viewer v.
LEMMA CaptureOpens ==
  ASSUME CaptureInv, NEW d \in Cap!Device, NEW v \in Viewer,
         source'[d] = "live", users'[d] = Cap!Subscribed(d), track[d][v] # "on",
         track'[d] = [[w \in Viewer |-> Cap!Kept(d, w)] EXCEPT ![v] = "on"],
         d = "camera" => leaked' = IF source[d] = "live" THEN leaked ELSE 0
  PROVE  /\ IsFiniteSet(Cap!On(d)')
         /\ Sharers(d)' > 0 /\ users'[d] = Sharers(d)'
<1> USE DEF CaptureInv
<1>1. CASE source[d] = "live"
  <2>1. Cap!On(d)' = Cap!On(d) \cup {v} /\ v \notin Cap!On(d)
    BY <1>1 DEF Cap!On, Cap!Kept
  <2>2. Cardinality(Cap!On(d)) \in Nat
    BY FS_CardinalityType
  <2>3. IsFiniteSet(Cap!On(d)') /\ Cardinality(Cap!On(d)') = Cardinality(Cap!On(d)) + 1
    BY <2>1, FS_AddElement
  <2> QED BY <1>1, <2>2, <2>3 DEF Sharers, Cap!Subscribed
<1>2. CASE source[d] # "live"
  <2>1. Cap!On(d)' = {v}
    BY <1>2 DEF Cap!On, Cap!Kept
  <2>2. IsFiniteSet({v}) /\ Cardinality({v}) = 1
    BY FS_Singleton
  <2> QED BY <1>2, <2>1, <2>2 DEF Sharers, Cap!Subscribed
<1> QED BY <1>1, <1>2

\* A negotiation that fails leaves its proxy of the camera behind.
LEMMA CaptureLeaks == ASSUME CaptureInv, Cap!JoinFails PROVE CaptureInv'
<1> USE DEF CaptureInv, Cap!Device
<1>1. /\ track' \in [Cap!Device -> [Viewer -> {"none", "on", "old", "fallback", "ended"}]]
      /\ track'["mic"] = track["mic"]
      /\ \A w \in Viewer : track'["camera"][w] = Cap!Kept("camera", w)
  BY DEF Cap!JoinFails, Cap!Kept
<1>2. /\ source' \in [Cap!Device -> {"none", "live", "dead"}]
      /\ source'["camera"] = "live" /\ source'["mic"] = source["mic"]
      /\ users' \in [Cap!Device -> Nat]
      /\ users'["camera"] = Cap!Subscribed("camera") /\ users'["mic"] = users["mic"]
      /\ leaked' = (IF source["camera"] = "live" THEN leaked + 1 ELSE 1)
  BY DEF Cap!JoinFails, Cap!Subscribe, Cap!Subscribed
<1>3. Cap!On("mic")' = Cap!On("mic")
  BY <1>1 DEF Cap!On
<1>4. Cardinality(Cap!On("camera")) \in Nat
  BY FS_CardinalityType
<1>5. Cap!On("camera")' = IF source["camera"] = "live" THEN Cap!On("camera") ELSE {}
  BY <1>1 DEF Cap!On, Cap!Kept
<1>6. IsFiniteSet({}) /\ Cardinality({}) = 0
  BY FS_EmptySet
<1>7. IsFiniteSet(Cap!On("camera")') /\ Sharers("camera")' > 0 /\ users'["camera"] = Sharers("camera")'
  BY <1>2, <1>4, <1>5, <1>6 DEF Sharers, Cap!Subscribed
<1>8. Sharers("mic")' = Sharers("mic")
  BY <1>3 DEF Sharers
<1>9. leaked' \in Nat
  BY <1>2
<1>10. \A w \in Viewer : track'["camera"][w] = "none" => track'["mic"][w] = "none"
  BY <1>1 DEF Cap!Kept
<1> QED BY <1>1, <1>2, <1>3, <1>7, <1>8, <1>9, <1>10

\* A session starts, with the camera or without.
LEMMA CaptureJoin ==
  ASSUME CaptureInv, NEW v \in Viewer, Cap!Join(v) PROVE CaptureInv'
<1> USE DEF CaptureInv, Cap!Device
<1>1. track["camera"][v] = "none"
  BY DEF Cap!Join, Cap!Present
<1>2. CASE Cap!Subscribable("camera")
  <2>1. /\ source' = [source EXCEPT !["camera"] = "live"]
        /\ users' = [users EXCEPT !["camera"] = Cap!Subscribed("camera")]
        /\ track' = Cap!Tracks(v, "on")
        /\ leaked' = (IF source["camera"] = "live" THEN leaked ELSE 0)
    BY <1>2 DEF Cap!Join, Cap!Subscribe
  <2>2. /\ track'["camera"] = [[w \in Viewer |-> Cap!Kept("camera", w)] EXCEPT ![v] = "on"]
        /\ track'["mic"] = [track["mic"] EXCEPT ![v] = "fallback"]
        /\ track' \in [Cap!Device -> [Viewer -> {"none", "on", "old", "fallback", "ended"}]]
    <3>1. /\ track' = [d \in Cap!Device |-> track'[d]]
          /\ track'["camera"] = [[w \in Viewer |-> Cap!Kept("camera", w)] EXCEPT ![v] = "on"]
          /\ track'["mic"] = [track["mic"] EXCEPT ![v] = "fallback"]
      BY <2>1 DEF Cap!Tracks
    <3>2. track'["camera"] \in [Viewer -> {"none", "on", "old", "fallback", "ended"}]
      BY <3>1 DEF Cap!Kept
    <3>3. track'["mic"] \in [Viewer -> {"none", "on", "old", "fallback", "ended"}]
      BY <3>1
    <3> QED BY <3>1, <3>2, <3>3
  <2>3. Cap!On("mic")' = Cap!On("mic")
    BY <1>1, <2>2 DEF Cap!On
  <2>4. /\ IsFiniteSet(Cap!On("camera")')
        /\ Sharers("camera")' > 0 /\ users'["camera"] = Sharers("camera")'
    BY <1>1, <2>1, <2>2, CaptureOpens
  <2>5. /\ source' \in [Cap!Device -> {"none", "live", "dead"}]
        /\ source'["camera"] = "live" /\ source'["mic"] = source["mic"]
        /\ users' \in [Cap!Device -> Nat] /\ users'["mic"] = users["mic"]
        /\ leaked' \in Nat
    BY <2>1 DEF Cap!Subscribed
  <2>6. Sharers("mic")' = Sharers("mic")
    BY <2>3 DEF Sharers
  <2>7. \A w \in Viewer : track'["camera"][w] = "none" => track'["mic"][w] = "none"
    BY <2>2 DEF Cap!Kept
  <2> QED BY <2>2, <2>3, <2>4, <2>5, <2>6, <2>7
<1>3. CASE ~Cap!Subscribable("camera")
  <2>1. /\ source' = source /\ users' = users /\ leaked' = leaked
        /\ track' = Cap!Tracks(v, "fallback")
    BY <1>3 DEF Cap!Join
  <2>2. /\ track'["camera"] = [track["camera"] EXCEPT ![v] = "fallback"]
        /\ track'["mic"] = [track["mic"] EXCEPT ![v] = "fallback"]
        /\ track' \in [Cap!Device -> [Viewer -> {"none", "on", "old", "fallback", "ended"}]]
    BY <2>1 DEF Cap!Tracks
  <2>3. \A d \in Cap!Device : Cap!On(d)' = Cap!On(d)
    BY <1>1, <2>2 DEF Cap!On
  <2>4. \A d \in Cap!Device : Sharers(d)' = Sharers(d)
    BY <2>1, <2>3 DEF Sharers
  <2> QED BY <2>1, <2>2, <2>3, <2>4
<1> QED BY <1>2, <1>3

\* The proxies of v on the devices ds end.
LEMMA CaptureEnds ==
  ASSUME CaptureInv, NEW v \in Viewer, NEW ds \in SUBSET Cap!Device, Cap!Unsubscribe(v, ds),
         leaked' = leaked,
         track' \in [Cap!Device -> [Viewer -> {"none", "on", "old", "fallback", "ended"}]],
         \A d \in Cap!Device, w \in Viewer :
            /\ ~(d \in ds /\ w = v) => track'[d][w] = track[d][w]
            /\ d \in ds /\ w = v => track'[d][w] # "on",
         \A w \in Viewer : track'["camera"][w] = "none" => track'["mic"][w] = "none"
  PROVE  CaptureInv'
<1> USE DEF CaptureInv
<1> DEFINE ending == {d \in ds : Cap!Counts(d, v)}
<1>1. /\ \A d \in Cap!Device : users'[d] = users[d] - IF d \in ending THEN 1 ELSE 0
      /\ users' = [d \in Cap!Device |-> users'[d]]
      /\ \A d \in Cap!Device : source'[d] = IF d \in ending /\ users'[d] <= 0 THEN "none" ELSE source[d]
      /\ source' \in [Cap!Device -> {"none", "live", "dead"}]
  BY DEF Cap!Unsubscribe
<1>2. ASSUME NEW d \in Cap!Device
      PROVE  /\ IsFiniteSet(Cap!On(d)') /\ users'[d] \in Nat
             /\ IF source'[d] = "none" THEN Sharers(d)' = 0
                ELSE Sharers(d)' > 0 /\ users'[d] = Sharers(d)'
  <2> DEFINE n == Cardinality(Cap!On(d))
  <2>1. n \in Nat /\ (n = 0 <=> Cap!On(d) = {})
    BY FS_CardinalityType, FS_EmptySet
  <2>2. CASE d \in ending
    <3>1. v \in Cap!On(d) /\ Cap!On(d)' = Cap!On(d) \ {v}
      BY <2>2 DEF Cap!On, Cap!Counts
    <3>2. IsFiniteSet(Cap!On(d)') /\ Cardinality(Cap!On(d)') = n - 1
      BY <3>1, FS_RemoveElement
    <3>3. n > 0
      BY <2>1, <3>1
    <3>4. Sharers(d) > 0 /\ Sharers(d)' = Sharers(d) - 1 /\ Sharers(d) \in Nat
      BY <2>1, <3>2, <3>3 DEF Sharers
    <3>5. users[d] = Sharers(d) /\ source[d] # "none"
      BY <3>4
    <3> QED BY <1>1, <2>2, <3>2, <3>4, <3>5
  <2>3. CASE d \notin ending
    <3>1. Cap!On(d)' = Cap!On(d)
      BY <2>3 DEF Cap!On, Cap!Counts
    <3>2. Sharers(d)' = Sharers(d)
      BY <3>1 DEF Sharers
    <3> QED BY <1>1, <2>3, <3>1, <3>2
  <2> QED BY <2>2, <2>3
<1>3. users' \in [Cap!Device -> Nat]
  BY <1>1, <1>2
<1> QED BY <1>1, <1>2, <1>3

\* A session ends, or its picture; its microphone is lost.
LEMMA CaptureLeave ==
  ASSUME CaptureInv, NEW v \in Viewer, Cap!Leave(v) \/ Cap!PictureEnds(v) \/ Cap!MicLost(v)
  PROVE  CaptureInv'
<1> USE DEF CaptureInv
<1>1. CASE Cap!Leave(v)
  <2>1. /\ \A d \in Cap!Device, w \in Viewer :
             track'[d][w] = IF w = v THEN "none" ELSE track[d][w]
        /\ track' \in [Cap!Device -> [Viewer -> {"none", "on", "old", "fallback", "ended"}]]
    BY <1>1 DEF Cap!Leave
  <2>2. Cap!Unsubscribe(v, Cap!Device) /\ leaked' = leaked /\ Cap!Device \in SUBSET Cap!Device
    BY <1>1 DEF Cap!Leave
  <2>3. \A w \in Viewer : track'["camera"][w] = "none" => track'["mic"][w] = "none"
    BY <2>1 DEF Cap!Device
  <2> QED BY <2>1, <2>2, <2>3, CaptureEnds
<1>2. CASE Cap!PictureEnds(v)
  <2>1. /\ \A d \in Cap!Device, w \in Viewer :
             track'[d][w] = IF d = "camera" /\ w = v THEN "ended" ELSE track[d][w]
        /\ track' \in [Cap!Device -> [Viewer -> {"none", "on", "old", "fallback", "ended"}]]
    BY <1>2 DEF Cap!PictureEnds, Cap!Device
  <2>2. Cap!Unsubscribe(v, {"camera"}) /\ leaked' = leaked /\ {"camera"} \in SUBSET Cap!Device
    BY <1>2 DEF Cap!PictureEnds, Cap!Device
  <2>3. \A w \in Viewer : track'["camera"][w] = "none" => track'["mic"][w] = "none"
    BY <2>1 DEF Cap!Device
  <2> QED BY <2>1, <2>2, <2>3, CaptureEnds
<1>3. CASE Cap!MicLost(v)
  <2>1. /\ \A d \in Cap!Device, w \in Viewer :
             track'[d][w] = IF d = "mic" /\ w = v THEN "fallback" ELSE track[d][w]
        /\ track' \in [Cap!Device -> [Viewer -> {"none", "on", "old", "fallback", "ended"}]]
    BY <1>3 DEF Cap!MicLost, Cap!Device
  <2>2. Cap!Unsubscribe(v, {"mic"}) /\ leaked' = leaked /\ {"mic"} \in SUBSET Cap!Device
    BY <1>3 DEF Cap!MicLost, Cap!Device
  <2>3. track["mic"][v] # "none"
    BY <1>3 DEF Cap!MicLost, Cap!Cut
  <2>4. \A w \in Viewer : track'["camera"][w] = "none" => track'["mic"][w] = "none"
    BY <2>1, <2>3 DEF Cap!Device
  <2> QED BY <2>1, <2>2, <2>4, CaptureEnds
<1> QED BY <1>1, <1>2, <1>3

\* The microphone is opened, or shared, for a session that waits for it.
LEMMA CaptureMic ==
  ASSUME CaptureInv, NEW v \in Viewer, Cap!MicOpens(v) PROVE CaptureInv'
<1> USE DEF CaptureInv, Cap!Device
<1>1. track["mic"][v] = "fallback" /\ track["camera"][v] # "none"
  BY DEF Cap!MicOpens, Cap!Tries
<1>2. /\ source' = [source EXCEPT !["mic"] = "live"]
      /\ users' = [users EXCEPT !["mic"] = Cap!Subscribed("mic")]
      /\ leaked' = leaked
  BY DEF Cap!MicOpens, Cap!Subscribe
<1>3. /\ track'["mic"] = [[w \in Viewer |-> Cap!Kept("mic", w)] EXCEPT ![v] = "on"]
      /\ track'["camera"] = track["camera"]
      /\ track' \in [Cap!Device -> [Viewer -> {"none", "on", "old", "fallback", "ended"}]]
  BY DEF Cap!MicOpens, Cap!Kept
<1>4. Cap!On("camera")' = Cap!On("camera")
  BY <1>3 DEF Cap!On
<1>5. Sharers("camera")' = Sharers("camera")
  BY <1>2, <1>4 DEF Sharers
<1>6. IsFiniteSet(Cap!On("mic")') /\ Sharers("mic")' > 0 /\ users'["mic"] = Sharers("mic")'
  BY <1>1, <1>2, <1>3, CaptureOpens
<1>7. \A w \in Viewer : track'["camera"][w] = "none" => track'["mic"][w] = "none"
  BY <1>1, <1>3 DEF Cap!Kept
<1>8. users' \in [Cap!Device -> Nat] /\ source' \in [Cap!Device -> {"none", "live", "dead"}]
  BY <1>2 DEF Cap!Subscribed
<1> QED BY <1>2, <1>3, <1>4, <1>5, <1>6, <1>7, <1>8

\* A device comes, goes or fails; a try fails; time passes.
LEMMA CaptureRest ==
  ASSUME CaptureInv,
         \/ \E d \in Cap!Device : Cap!Unplug(d) \/ Cap!Glitch(d) \/ Cap!Plug(d)
         \/ \E v \in Viewer : Cap!MicFails(v)
         \/ Cap!Tick \/ UNCHANGED Cap!vars
  PROVE  CaptureInv'
<1> USE DEF CaptureInv
<1>1. /\ users' = users /\ track' = track /\ leaked' = leaked
      /\ source' \in [Cap!Device -> {"none", "live", "dead"}]
      /\ \A d \in Cap!Device :
            source'[d] = source[d] \/ (source[d] = "live" /\ source'[d] = "dead")
  BY DEF Cap!Unplug, Cap!Glitch, Cap!Plug, Cap!Dies, Cap!MicFails, Cap!Tick,
         Cap!vars, Cap!shared
<1>2. \A d \in Cap!Device : Cap!On(d)' = Cap!On(d)
  BY <1>1 DEF Cap!On
<1>3. \A d \in Cap!Device : Sharers(d)' = Sharers(d)
  BY <1>1, <1>2 DEF Sharers
<1> QED BY <1>1, <1>2, <1>3

LEMMA CaptureStep == ASSUME CaptureInv, [Cap!Next]_(Cap!vars) PROVE CaptureInv'
  BY CaptureLeaks, CaptureJoin, CaptureLeave, CaptureMic, CaptureRest
     DEF Cap!Next, Cap!Hear

LEMMA CaptureCorrect == ASSUME Cap!CaptureAssumption PROVE Cap!Spec => []CaptureInv
<1>1. Cap!Init => CaptureInv
  BY CaptureInit
<1>2. CaptureInv /\ [Cap!Next]_(Cap!vars) => CaptureInv'
  BY CaptureStep
<1> QED BY <1>1, <1>2, PTL DEF Cap!Spec

\* An open device is counted for somebody, one that is shut for nobody.
LEMMA CaptureUsed == ASSUME CaptureInv PROVE Cap!OpenWhileUsed
<1> SUFFICES ASSUME NEW d \in Cap!Device
             PROVE  /\ Cap!On(d) # {} => source[d] # "none"
                    /\ source[d] = "live" => Cap!On(d) # {} \/ (d = "camera" /\ leaked > 0)
  BY DEF Cap!OpenWhileUsed
<1>1. /\ Cardinality(Cap!On(d)) \in Nat
      /\ Cardinality(Cap!On(d)) = 0 <=> Cap!On(d) = {}
  BY FS_CardinalityType, FS_EmptySet DEF CaptureInv
<1> QED BY <1>1 DEF CaptureInv, Sharers

-----------------------------------------------------------------------------
\* The sound of a session: what v hears is the mic; else ToGo is how far off the
\* mic is, in tries and ticks.
Hears(v) == track["mic"][v] = "on" /\ source["mic"] = "live"
ToGo(v) == IF track["mic"][v] = "fallback" THEN retryIn[v] ELSE Retry + 1

\* While the mic can be opened, a silent session comes no further from it in any
\* step, and closer whenever it asks for a frame or a tick passes; and one that
\* does not count down to a try has a proxy that the next frame finds cut: the
\* reason, beside fairness, that MicReturns is true (ResilientAudioTrack).
MicNears ==
    [][\A v \in Viewer : plugged["mic"] /\ Cap!Present(v) /\ ~Hears(v) =>
          /\ track["mic"][v] = "fallback" \/ Cap!Cut("mic", v)
          /\ ~Cap!Present(v)' \/ Hears(v)' \/ ToGo(v)' <= ToGo(v)
          /\ Cap!Hear(v) \/ (Cap!Tick /\ ToGo(v) \in 1 .. Retry) => Hears(v)' \/ ToGo(v)' < ToGo(v)]_(Cap!vars)

SilenceInv ==
    /\ CaptureInv
    /\ retryIn \in [Viewer -> 0 .. Retry]
    /\ \A v \in Viewer : /\ track["mic"][v] # "ended"
                         /\ track["mic"][v] = "none" => track["camera"][v] = "none"

\* What a step does to the sound of a session: it comes, it goes, it stays, it
\* counts down, it is on an old source, it loses the mic, opens it, or fails to.
MicMoves(v) ==
    \/ track["camera"][v] = "none" /\ track'["camera"][v] # "none"
       /\ track'["mic"][v] = "fallback" /\ retryIn'[v] = 0
    \/ track'["camera"][v] = "none" /\ track'["mic"][v] = "none" /\ retryIn'[v] = 0
    \/ /\ track'["camera"][v] = "none" <=> track["camera"][v] = "none"
       /\ \/ track'["mic"][v] = track["mic"][v] /\ retryIn'[v] = retryIn[v]
          \/ /\ Cap!Tick /\ track'["mic"][v] = track["mic"][v]
             /\ retryIn'[v] = IF retryIn[v] > 0 THEN retryIn[v] - 1 ELSE 0
          \/ /\ track["mic"][v] = "on" /\ track'["mic"][v] = "old"
             /\ retryIn'[v] = retryIn[v]
          \/ /\ Cap!Cut("mic", v) /\ track'["mic"][v] = "fallback" /\ retryIn'[v] = Retry
          \/ /\ Cap!Tries(v) /\ track'["mic"][v] = "on" /\ source'["mic"] = "live"
             /\ retryIn'[v] = retryIn[v]
          \/ /\ Cap!Tries(v) /\ ~Cap!Subscribable("mic")
             /\ track'["mic"][v] = track["mic"][v] /\ retryIn'[v] = Retry

LEMMA MicLoses ==
  ASSUME SilenceInv, NEW v \in Viewer, Cap!MicLost(v)
  PROVE  Cap!Cut("mic", v) /\ track'["mic"][v] = "fallback" /\ retryIn'[v] = Retry
         /\ track'["camera"] = track["camera"]
         /\ \A w \in Viewer : w # v => track'["mic"][w] = track["mic"][w] /\ retryIn'[w] = retryIn[w]
  BY DEF Cap!MicLost, SilenceInv, CaptureInv, Cap!Device

LEMMA MicIsOpened ==
  ASSUME SilenceInv, NEW v \in Viewer, Cap!MicOpens(v)
  PROVE  Cap!Tries(v) /\ track'["mic"][v] = "on" /\ source'["mic"] = "live"
         /\ retryIn' = retryIn /\ track'["camera"] = track["camera"]
         /\ \A w \in Viewer : \/ track'["mic"][w] = track["mic"][w] \/ w = v
                              \/ track["mic"][w] = "on" /\ track'["mic"][w] = "old"
<1> USE DEF SilenceInv, CaptureInv, Cap!Device
<1>1. Cap!Tries(v) /\ retryIn' = retryIn /\ source' = [source EXCEPT !["mic"] = "live"]
  BY DEF Cap!MicOpens, Cap!Subscribe
<1>2. /\ track'["mic"] = [[w \in Viewer |-> Cap!Kept("mic", w)] EXCEPT ![v] = "on"]
      /\ track'["camera"] = track["camera"]
  BY DEF Cap!MicOpens
<1> QED BY <1>1, <1>2 DEF Cap!Kept

LEMMA MicJoins ==
  ASSUME SilenceInv, NEW v \in Viewer, Cap!Join(v)
  PROVE  /\ track["camera"][v] = "none" /\ track'["camera"][v] # "none"
         /\ track'["mic"][v] = "fallback" /\ retryIn'[v] = 0
         /\ \A w \in Viewer : w # v => /\ track'["mic"][w] = track["mic"][w] /\ retryIn'[w] = retryIn[w]
                                       /\ track'["camera"][w] = "none" <=> track["camera"][w] = "none"
<1> USE DEF SilenceInv, CaptureInv, Cap!Device
<1>1. track["camera"][v] = "none" /\ retryIn' = [retryIn EXCEPT ![v] = 0]
  BY DEF Cap!Join, Cap!Present
<1>2. \/ track' = Cap!Tracks(v, "on")
      \/ track' = Cap!Tracks(v, "fallback")
  BY DEF Cap!Join
<1>3. track'["mic"] = [track["mic"] EXCEPT ![v] = "fallback"]
  BY <1>2 DEF Cap!Tracks
<1>4. \/ track'["camera"] = [[w \in Viewer |-> Cap!Kept("camera", w)] EXCEPT ![v] = "on"]
      \/ track'["camera"] = [track["camera"] EXCEPT ![v] = "fallback"]
  <2>1. CASE track' = Cap!Tracks(v, "on")
    BY <2>1 DEF Cap!Tracks
  <2>2. CASE track' = Cap!Tracks(v, "fallback")
    <3>1. Cap!Tracks(v, "fallback")["camera"] = [[w \in Viewer |-> track["camera"][w]] EXCEPT ![v] = "fallback"]
      BY DEF Cap!Tracks
    <3>2. [w \in Viewer |-> track["camera"][w]] = track["camera"]
      OBVIOUS
    <3> QED BY <2>2, <3>1, <3>2
  <2> QED BY <1>2, <2>1, <2>2
<1>5. track'["camera"][v] # "none"
      /\ \A w \in Viewer : w # v => (track'["camera"][w] = "none" <=> track["camera"][w] = "none")
  BY <1>4 DEF Cap!Kept
<1> QED BY <1>1, <1>3, <1>5

LEMMA MicMoved ==
  ASSUME SilenceInv, [Cap!Next]_(Cap!vars), NEW v \in Viewer PROVE MicMoves(v)
<1> USE DEF SilenceInv, CaptureInv, Cap!Device
<1>1. ASSUME NEW w \in Viewer, Cap!Join(w) PROVE MicMoves(v)
  BY <1>1, MicJoins DEF MicMoves
<1>2. ASSUME NEW w \in Viewer, Cap!Leave(w) PROVE MicMoves(v)
  BY <1>2 DEF Cap!Leave, MicMoves
<1>3. ASSUME NEW w \in Viewer, Cap!PictureEnds(w) PROVE MicMoves(v)
  <2>1. track["camera"][w] # "none"
    BY <1>3 DEF Cap!PictureEnds, Cap!Cut
  <2> QED BY <1>3, <2>1 DEF Cap!PictureEnds, MicMoves
<1>4. ASSUME NEW w \in Viewer, Cap!MicLost(w) PROVE MicMoves(v)
  BY <1>4, MicLoses DEF MicMoves
<1>5. ASSUME NEW w \in Viewer, Cap!MicOpens(w) PROVE MicMoves(v)
  BY <1>5, MicIsOpened DEF MicMoves
<1>6. ASSUME NEW w \in Viewer, Cap!MicFails(w) PROVE MicMoves(v)
  BY <1>6 DEF Cap!MicFails, MicMoves, Cap!shared
<1>7. CASE Cap!JoinFails
  <2>1. /\ track'["camera"] = [w \in Viewer |-> Cap!Kept("camera", w)]
        /\ track'["mic"] = track["mic"] /\ retryIn' = retryIn
    BY <1>7 DEF Cap!JoinFails
  <2> QED BY <2>1 DEF Cap!Kept, MicMoves
<1>8. CASE Cap!Tick
  BY <1>8 DEF Cap!Tick, MicMoves, Cap!shared
<1>9. CASE UNCHANGED Cap!vars \/ \E d \in Cap!Device : Cap!Unplug(d) \/ Cap!Glitch(d) \/ Cap!Plug(d)
  BY <1>9 DEF Cap!Unplug, Cap!Glitch, Cap!Plug, MicMoves, Cap!shared, Cap!vars
<1> QED BY <1>1, <1>2, <1>3, <1>4, <1>5, <1>6, <1>7, <1>8, <1>9 DEF Cap!Next, Cap!Hear

LEMMA SilenceInit == ASSUME Cap!CaptureAssumption, Cap!Init PROVE SilenceInv
  BY CaptureInit DEF Cap!Init, SilenceInv, Cap!CaptureAssumption, Cap!Device

LEMMA SilenceStep == ASSUME Cap!CaptureAssumption, SilenceInv, [Cap!Next]_(Cap!vars) PROVE SilenceInv'
<1>1. CaptureInv'
  BY CaptureStep DEF SilenceInv
<1>2. ASSUME NEW v \in Viewer
      PROVE  /\ retryIn'[v] \in 0 .. Retry /\ track'["mic"][v] # "ended"
             /\ track'["mic"][v] = "none" => track'["camera"][v] = "none"
  <2>1. retryIn[v] \in 0 .. Retry /\ track["mic"][v] # "ended" /\ Retry \in Nat
        /\ (track["mic"][v] = "none" => track["camera"][v] = "none")
    BY DEF SilenceInv, Cap!CaptureAssumption
  <2> QED BY <2>1, MicMoved DEF MicMoves, Cap!Tries
<1>3. retryIn' = [v \in Viewer |-> retryIn'[v]]
  <2>1. retryIn = [v \in Viewer |-> retryIn[v]]
    BY DEF SilenceInv
  <2> QED BY <2>1 DEF Cap!Next, Cap!Hear, Cap!Join, Cap!JoinFails, Cap!Leave,
                 Cap!PictureEnds, Cap!MicLost, Cap!MicOpens, Cap!MicFails,
                 Cap!Unplug, Cap!Glitch, Cap!Plug, Cap!Tick, Cap!vars
<1> QED BY <1>1, <1>2, <1>3 DEF SilenceInv

LEMMA MicComes ==
  ASSUME Cap!CaptureAssumption, SilenceInv, [Cap!Next]_(Cap!vars), NEW v \in Viewer,
         plugged["mic"], Cap!Present(v), ~Hears(v)
  PROVE  /\ track["mic"][v] = "fallback" \/ Cap!Cut("mic", v)
         /\ ~Cap!Present(v)' \/ Hears(v)' \/ ToGo(v)' <= ToGo(v)
         /\ Cap!Hear(v) \/ (Cap!Tick /\ ToGo(v) \in 1 .. Retry) => Hears(v)' \/ ToGo(v)' < ToGo(v)
<1>1. /\ Retry \in Nat /\ retryIn[v] \in 0 .. Retry /\ track["mic"][v] \in {"fallback", "on", "old"}
      /\ Cap!Subscribable("mic")
  BY DEF SilenceInv, CaptureInv, Cap!CaptureAssumption, Cap!Present,
         Cap!Device, Cap!Subscribable, Cap!MicrophoneOpens
<1>2. track["mic"][v] = "fallback" \/ Cap!Cut("mic", v)
  <2>1. CASE track["mic"][v] = "on"
    <3>1. source["mic"] \in {"none", "live", "dead"} /\ source["mic"] # "live"
      BY <2>1 DEF SilenceInv, CaptureInv, Hears, Cap!Device
    <3>2. source["mic"] # "none"
      BY <2>1, CaptureUsed DEF SilenceInv, Cap!OpenWhileUsed, Cap!On, Cap!Device
    <3> QED BY <2>1, <3>1, <3>2 DEF Cap!Cut
  <2> QED BY <1>1, <2>1 DEF Cap!Cut
<1>3. MicMoves(v)
  BY MicMoved
<1>4. ~Cap!Present(v)' \/ Hears(v)' \/ ToGo(v)' <= ToGo(v)
  BY <1>1, <1>3 DEF MicMoves, Cap!Present, Hears, ToGo, Cap!Tries, Cap!Cut
<1>5. ASSUME Cap!Hear(v) PROVE Hears(v)' \/ ToGo(v)' < ToGo(v)
  <2>1. CASE Cap!MicLost(v)
    BY <1>1, <2>1, MicLoses DEF ToGo, Cap!Cut
  <2>2. CASE Cap!MicOpens(v)
    BY <2>2, MicIsOpened DEF Hears
  <2>3. CASE Cap!MicFails(v)
    BY <1>1, <2>3 DEF Cap!MicFails
  <2> QED BY <1>5, <2>1, <2>2, <2>3 DEF Cap!Hear
<1>6. ASSUME Cap!Tick, ToGo(v) \in 1 .. Retry PROVE ToGo(v)' < ToGo(v)
  <2>1. track["mic"][v] = "fallback" /\ retryIn[v] > 0
    BY <1>1, <1>6 DEF ToGo
  <2>2. track' = track /\ retryIn'[v] = retryIn[v] - 1
    BY <1>6, <2>1 DEF Cap!Tick, Cap!shared
  <2> QED BY <1>1, <2>1, <2>2 DEF ToGo
<1> QED BY <1>2, <1>4, <1>5, <1>6

LEMMA CaptureNears == ASSUME Cap!CaptureAssumption PROVE Cap!Spec => MicNears
<1>1. Cap!Init => SilenceInv
  BY SilenceInit
<1>2. SilenceInv /\ [Cap!Next]_(Cap!vars) => SilenceInv'
  BY SilenceStep
<1>3. SilenceInv /\ [Cap!Next]_(Cap!vars) =>
        [\A v \in Viewer : plugged["mic"] /\ Cap!Present(v) /\ ~Hears(v) =>
          /\ track["mic"][v] = "fallback" \/ Cap!Cut("mic", v)
          /\ ~Cap!Present(v)' \/ Hears(v)' \/ ToGo(v)' <= ToGo(v)
          /\ Cap!Hear(v) \/ (Cap!Tick /\ ToGo(v) \in 1 .. Retry) => Hears(v)' \/ ToGo(v)' < ToGo(v)]_(Cap!vars)
  BY MicComes
<1> QED BY <1>1, <1>2, <1>3, PTL DEF Cap!Spec, MicNears

\* A device is open as long as somebody shares it and no longer, whatever order
\* joins that fail, ends, leaves and retries take (SharedCapture).
THEOREM DeviceOpenWhileUsed == Spec => []OpenWhileUsed
<1>1. Cap!Spec => []CaptureInv
  BY PartsAssumption, CaptureCorrect
<1>2. CaptureInv => OpenWhileUsed
  BY PartsAssumption, CaptureUsed DEF OpenWhileUsed
<1> QED BY <1>1, <1>2, CapPart, PTL

\* Nothing takes a silent session further from a mic that can be opened, and each
\* frame it asks for and each tick bring it closer (ResilientAudioTrack).
THEOREM MicComesNearer == Spec => MicNears
<1>1. Cap!Spec => MicNears
  BY PartsAssumption, CaptureNears
<1> QED BY <1>1, CapPart, PTL

-----------------------------------------------------------------------------
(***************************************************************************)
(* ScreenAudio: what is buffered and on its way falls short of the cushion *)
(* by no more than the longest hold-up of late, in AudioInv.               *)
(***************************************************************************)

LEMMA AudioPart == Spec => Audio!Spec
<1>1. Init => Audio!Init
  BY DEF Init
<1>2. [Next]_vars => [Audio!Next]_(Audio!vars)
  BY DEF Next, vars, OnlyGate, OnlyFollow, OnlyCap, OnlyAudio, OnlyBack, OnlyLog,
         OnlyRig, OnlyFaults, OnlySheets, OnlyBoxed, Audio!vars, audioVars
<1> QED BY <1>1, <1>2, PTL DEF Spec, Audio!Spec

\* A packet that is late finds its credit, one that overslept all of it, and what
\* that leaves is enough for the next.  Live voice, until a hold-up or another
\* floor breaks it, has the cushion before it, what the longest hold-up took
\* excepted.
AudioInv ==
    /\ mic \in {"off", "muted", "talking"} /\ since \in Nat
    /\ net \in Nat /\ queue \in Nat /\ fifo \in Nat
    /\ stall \in Nat /\ rough \in Nat /\ due \in Int /\ credit \in Int
    /\ recv \in {"new", "called", "asleep"} /\ credit <= Audio!Burst
    /\ due <= Packet /\ -stall <= due
    /\ net <= Jitter + stall
    /\ stall <= rough /\ rough <= StallMax
    /\ ~refilling <=> sent = "live"
    /\ recv = "new" => credit = Audio!Burst /\ sent # "live" /\ due <= 0
    /\ \/ recv = "asleep" /\ due < -(LateMax + Packet) /\ credit = Audio!Burst
       \/ recv # "asleep" /\ due < -LateMax /\ LateMax + Packet <= credit
       \/ Packet <= credit + due
    /\ mic # "off" /\ sent = "live" /\ rough # StallMax
         => Cushion - rough <= fifo + queue + net + due

LEMMA Lesser ==
  ASSUME NEW a \in Int, NEW b \in Int
  PROVE  Audio!Min({a, b}) = IF a <= b THEN a ELSE b
<1> QED BY DEF Audio!Min

LEMMA Greater ==
  ASSUME NEW a \in Int, NEW b \in Int
  PROVE  Audio!Max({a, b}) = IF a >= b THEN a ELSE b
<1> QED BY DEF Audio!Max

LEMMA AudioInit == ASSUME Audio!AudioAssumption, Audio!Init PROVE AudioInv
<1> QED BY DEF Audio!AudioAssumption, Audio!Init, AudioInv, Audio!Burst

\* What a packet finds and leaves.
PacketSent ==
    /\ Audio!Buffered = IF fifo + queue <= BufferMax THEN fifo + queue ELSE BufferMax
    /\ due <= 0 /\ due + Packet <= due' /\ due' <= Packet
    /\ Packet <= credit
    /\ due' < -LateMax => LateMax + Packet <= credit'
    /\ -LateMax <= due' => Packet <= credit' + due'
    /\ due' \in Int /\ credit' = credit - Packet /\ recv' = "called"
    /\ sent' = Audio!Kind /\ Audio!Kind \in {"loop", "live", "silence"}
    /\ Audio!Kind = "live" => Packet <= Audio!Buffered /\ fifo' = Audio!Buffered - Packet /\ rough' = rough
    /\ Audio!Kind = "live" /\ sent # "live" => Cushion <= Audio!Buffered
    /\ Audio!Kind # "live" => fifo' \in {0, Audio!Buffered} /\ rough' = stall
    /\ queue' = 0 /\ UNCHANGED <<mic, since, loop, net, stall>>
    /\ refilling' <=> Audio!Kind # "live"
    /\ sent = "live" /\ Audio!Kind = "silence" => Audio!Buffered < Packet

LEMMA Packets == ASSUME Audio!AudioAssumption, AudioInv, Audio!Call \/ Audio!Wake PROVE PacketSent
<1>0. /\ Packet \in Nat /\ Cushion \in Nat /\ BufferMax \in Nat /\ LateMax \in Nat
      /\ 0 < Packet /\ BufferMax \in Int
      /\ fifo \in Nat /\ queue \in Nat /\ fifo + queue \in Int
      /\ due \in Int /\ credit \in Int
  BY DEF Audio!AudioAssumption, AudioInv
<1>1. Audio!Buffered = IF fifo + queue <= BufferMax THEN fifo + queue ELSE BufferMax
  BY <1>0, Lesser DEF Audio!Buffered
<1>2. Audio!Kind \in {"loop", "live", "silence"}
  BY DEF Audio!Kind
<1>3. \/ Audio!Call /\ due' = Audio!DueNow + Packet
      \/ Audio!Wake /\ due' = due + Packet
  BY DEF Audio!Call, Audio!Wake, Audio!Send
<1>4. credit' = credit - Packet /\ recv' = "called" /\ due <= 0
  BY DEF Audio!Call, Audio!Wake, Audio!Send
<1>5. /\ due + Packet <= due' /\ due' <= Packet /\ due' \in Int
      /\ Packet <= credit
      /\ due' < -LateMax => LateMax + Packet <= credit'
      /\ -LateMax <= due' => Packet <= credit' + due'
  <2>1. CASE Audio!Wake /\ due' = due + Packet
    BY <1>0, <1>4, <2>1 DEF Audio!Wake, AudioInv, Audio!Burst
  <2>2. CASE Audio!Call /\ Audio!DueNow = 0 /\ due' = Audio!DueNow + Packet /\ recv = "new"
    BY <1>0, <1>4, <2>2 DEF AudioInv, Audio!Burst
  <2>3. CASE Audio!Call /\ Audio!DueNow = 0 /\ due' = Audio!DueNow + Packet /\ due < -LateMax
    BY <1>0, <1>4, <2>3 DEF Audio!Call, AudioInv, Audio!Burst
  <2>4. CASE Audio!Call /\ Audio!DueNow = due /\ due' = Audio!DueNow + Packet /\ ~(due < -LateMax)
    BY <1>0, <1>4, <2>4 DEF Audio!Call, AudioInv, Audio!Burst
  <2>5. \/ Audio!DueNow = 0 /\ recv = "new"
        \/ Audio!DueNow = 0 /\ due < -LateMax
        \/ Audio!DueNow = due /\ ~(due < -LateMax)
    BY DEF Audio!DueNow
  <2> QED BY <1>3, <2>1, <2>2, <2>3, <2>4, <2>5
<1>6. /\ Audio!Kind = "live" => Packet <= Audio!Buffered
      /\ Audio!Kind = "live" /\ sent # "live" => Cushion <= Audio!Buffered
      /\ sent = "live" /\ Audio!Kind = "silence" => Audio!Buffered < Packet
  BY <1>0, <1>1 DEF Audio!Kind, Audio!Filling, AudioInv
<1>7. /\ sent' = Audio!Kind
      /\ Audio!Kind = "live" => fifo' = Audio!Buffered - Packet /\ rough' = rough
      /\ Audio!Kind # "live" => fifo' \in {0, Audio!Buffered} /\ rough' = stall
      /\ queue' = 0 /\ UNCHANGED <<mic, since, loop, net, stall>>
      /\ refilling' <=> Audio!Kind # "live"
  BY <1>2 DEF Audio!Call, Audio!Wake, Audio!Send
<1> QED BY <1>1, <1>2, <1>4, <1>5, <1>6, <1>7 DEF PacketSent

LEMMA AudioStep == ASSUME Audio!AudioAssumption, AudioInv, [Audio!Next]_(Audio!vars) PROVE AudioInv'
<1>0. /\ Packet \in Nat /\ Cushion \in Nat /\ BufferMax \in Nat /\ QueueMax \in Nat
      /\ LateMax \in Nat /\ ResumeAfter \in Nat /\ Jitter \in Nat /\ StallMax \in Nat
      /\ 0 < Packet /\ Packet <= Cushion /\ Cushion <= BufferMax /\ Cushion <= QueueMax
  BY DEF Audio!AudioAssumption
<1>1. CASE Audio!Call \/ Audio!Wake
  <2>0. PacketSent
    BY <1>1, Packets
  <2>1. /\ since' \in Nat /\ net' \in Nat /\ queue' \in Nat /\ stall' \in Nat
        /\ Audio!Buffered \in Nat /\ fifo' \in Nat /\ rough' \in Nat
        /\ due' \in Int /\ credit' \in Int /\ credit' <= Audio!Burst /\ recv' = "called"
    BY <1>0, <2>0 DEF PacketSent, AudioInv, Audio!Burst
  <2>2. /\ due' <= Packet /\ -stall' <= due'
        /\ net' <= Jitter + stall'
        /\ stall' <= rough' /\ rough' <= StallMax
    BY <1>0, <2>0, <2>1 DEF PacketSent, AudioInv
  <2>6. ~refilling' <=> sent' = "live"
    BY <2>0 DEF PacketSent
  <2>3. \/ recv' # "asleep" /\ due' < -LateMax /\ LateMax + Packet <= credit'
        \/ Packet <= credit' + due'
    BY <1>0, <2>0, <2>1 DEF PacketSent
  <2>4. mic' # "off" /\ sent' = "live" /\ rough' # StallMax
          => Cushion - rough' <= fifo' + queue' + net' + due'
    <3> SUFFICES ASSUME mic # "off", Audio!Kind = "live", rough # StallMax
                 PROVE  Cushion - rough' <= fifo' + queue' + net' + due'
      BY <2>0 DEF PacketSent
    <3>1. /\ fifo' = Audio!Buffered - Packet /\ queue' = 0 /\ net' = net /\ rough' = rough
          /\ due' \in Int /\ due + Packet <= due'
          /\ Audio!Buffered = IF fifo + queue <= BufferMax THEN fifo + queue ELSE BufferMax
      BY <2>0 DEF PacketSent
    <3>2. /\ net \in Nat /\ fifo \in Nat /\ queue \in Nat /\ rough \in Nat /\ due \in Int
          /\ stall \in Nat /\ -stall <= due /\ stall <= rough
      BY DEF AudioInv
    <3>3. Audio!Buffered + net + due <= fifo' + queue' + net' + due'
      <4>1. \A b, n, d, e \in Int : d + Packet <= e => b + n + d <= (b - Packet) + 0 + n + e
        BY <1>0
      <4>2. Audio!Buffered \in Int /\ net \in Int /\ due \in Int /\ due' \in Int
        BY <2>1, <3>1, <3>2
      <4> QED BY <3>1, <4>1, <4>2
    <3>4. Cushion - rough <= Audio!Buffered + net + due
      <4>1. CASE Cushion <= Audio!Buffered
        BY <1>0, <2>1, <3>2, <4>1
      <4>2. CASE sent = "live" /\ ~(Cushion <= Audio!Buffered)
        <5>1. Cushion - rough <= fifo + queue + net + due
          BY <4>2 DEF AudioInv
        <5>2. Audio!Buffered = fifo + queue
          BY <1>0, <3>1, <3>2, <4>2
        <5> QED BY <1>0, <3>2, <5>1, <5>2
      <4> QED BY <2>0, <4>1, <4>2 DEF PacketSent
    <3>5. /\ Cushion - rough \in Int /\ Audio!Buffered + net + due \in Int
          /\ fifo' + queue' + net' + due' \in Int /\ rough' = rough
      BY <1>0, <2>1, <3>1, <3>2
    <3> QED BY <3>3, <3>4, <3>5
  <2>5. mic' \in {"off", "muted", "talking"}
    BY <2>0 DEF PacketSent, AudioInv
  <2> QED BY <2>1, <2>2, <2>3, <2>4, <2>5, <2>6 DEF AudioInv
<1>7. CASE Audio!Sleep
  BY <1>0, <1>7 DEF Audio!Sleep, AudioInv, Audio!Burst
<1>2. CASE Audio!Arrive
  <2>1. queue' = IF queue + net <= QueueMax THEN queue + net ELSE QueueMax
    <3>1. queue + net \in Int /\ QueueMax \in Int
      BY <1>0 DEF AudioInv
    <3> QED BY <1>2, <3>1, Lesser DEF Audio!Arrive
  <2> QED BY <1>0, <1>2, <2>1 DEF Audio!Arrive, AudioInv, Audio!Burst
<1>3. CASE Audio!Tick
  <2>1. /\ stall' = (IF Audio!Pending THEN stall + 1 ELSE 0) /\ stall' \in Nat /\ stall' <= StallMax
        /\ due' = due - 1
        /\ net' = (IF mic = "off" THEN net ELSE net + 1)
        /\ UNCHANGED <<mic, loop, queue, fifo, refilling, recv, sent>>
    BY <1>0, <1>3 DEF Audio!Tick, AudioInv
  <2>2. rough' = IF rough >= stall' THEN rough ELSE stall'
    BY <1>3, <2>1, Greater DEF Audio!Tick, AudioInv
  <2>3. credit' = IF credit + 1 <= Audio!Burst THEN credit + 1 ELSE Audio!Burst
    <3>1. credit + 1 \in Int /\ Audio!Burst \in Int
      BY <1>0 DEF AudioInv, Audio!Burst
    <3> QED BY <1>3, <3>1, Lesser DEF Audio!Tick
  <2>4. since' \in Nat
    <3>1. since + 1 \in Int /\ ResumeAfter \in Int
      BY <1>0 DEF AudioInv
    <3>2. since' = IF since + 1 <= ResumeAfter THEN since + 1 ELSE ResumeAfter
      BY <1>3, <3>1, Lesser DEF Audio!Tick
    <3> QED BY <1>0, <3>2 DEF AudioInv
  <2>5. /\ due' <= Packet /\ -stall' <= due' /\ net' <= Jitter + stall'
        /\ stall' <= rough' /\ rough' <= StallMax /\ rough' \in Nat /\ net' \in Nat
    BY <1>0, <2>1, <2>2 DEF Audio!Pending, AudioInv
  <2>6. /\ credit' \in Int /\ due' \in Int /\ credit' <= Audio!Burst
        /\ \/ recv' = "asleep" /\ due' < -(LateMax + Packet) /\ credit' = Audio!Burst
           \/ recv' # "asleep" /\ due' < -LateMax /\ LateMax + Packet <= credit'
           \/ Packet <= credit' + due'
        /\ recv' = "new" => credit' = Audio!Burst /\ sent' # "live" /\ due' <= 0
    BY <1>0, <2>1, <2>3 DEF AudioInv, Audio!Burst
  <2>7. mic' # "off" /\ sent' = "live" /\ rough' # StallMax
          => Cushion - rough' <= fifo' + queue' + net' + due'
    <3> SUFFICES ASSUME mic # "off", sent = "live", rough' # StallMax
                 PROVE  Cushion - rough' <= fifo + queue + net' + due'
      BY <2>1
    <3>1. /\ net \in Nat /\ fifo \in Nat /\ queue \in Nat /\ rough \in Nat /\ due \in Int
          /\ rough <= StallMax
          /\ rough # StallMax => Cushion - rough <= fifo + queue + net + due
      BY DEF AudioInv
    <3>2. rough # StallMax /\ rough <= rough'
      BY <1>0, <2>1, <2>2, <2>5, <3>1
    <3>3. net' + due' = net + due
      BY <2>1, <3>1
    <3>4. Cushion - rough <= fifo + queue + net + due
      BY <3>1, <3>2
    <3>5. /\ rough' \in Int /\ rough \in Int /\ net \in Int /\ due \in Int
          /\ net' \in Int /\ due' \in Int /\ fifo \in Int /\ queue \in Int
      BY <2>1, <2>5, <3>1
    <3>6. \A q, r, n, d, m, e, f, g \in Int :
             q <= r /\ m + e = n + d /\ Cushion - q <= f + g + n + d
               => Cushion - r <= f + g + m + e
      BY <1>0
    <3> QED BY <3>2, <3>3, <3>4, <3>5, <3>6
  <2>8. /\ mic' \in {"off", "muted", "talking"} /\ recv' \in {"new", "called", "asleep"} /\ (~refilling' <=> sent' = "live")
        /\ queue' \in Nat /\ fifo' \in Nat
    BY <2>1 DEF AudioInv
  <2> QED BY <2>1, <2>4, <2>5, <2>6, <2>7, <2>8 DEF AudioInv
<1>4. CASE Audio!Press \/ Audio!LetGo \/ Audio!Loop
  BY <1>0, <1>4 DEF Audio!Press, Audio!LetGo, Audio!Loop, AudioInv, Audio!Burst
<1>5. CASE Audio!Floor
  BY <1>0, <1>5 DEF Audio!Floor, AudioInv, Audio!Burst
<1>6. CASE UNCHANGED Audio!vars
  BY <1>6 DEF Audio!vars, AudioInv, Audio!Burst
<1> QED BY <1>1, <1>2, <1>3, <1>4, <1>5, <1>6, <1>7 DEF Audio!Next

LEMMA AudioCorrect == ASSUME Audio!AudioAssumption PROVE Audio!Spec => []AudioInv
<1>1. Audio!Init => AudioInv
  BY AudioInit
<1>2. AudioInv /\ [Audio!Next]_(Audio!vars) => AudioInv'
  BY AudioStep
<1> QED BY <1>1, <1>2, PTL DEF Audio!Spec

\* What SoundWhole says of a step.
Whole ==
    /\ credit' >= 0
    /\ mic # "off" /\ sent = "live" /\ sent' = "silence"
         => Jitter + 2 * rough > Cushion - Packet
    /\ mic = "muted" /\ sent # "loop" /\ sent' = "loop"
         => Audio!Buffered + net <= since + rough

LEMMA AudioWhole == ASSUME Audio!AudioAssumption, AudioInv, AudioInv', [Audio!Next]_(Audio!vars) PROVE Whole
<1>0. /\ Packet \in Nat /\ Cushion \in Nat /\ BufferMax \in Nat
      /\ LateMax \in Nat /\ ResumeAfter \in Nat /\ Jitter \in Nat /\ StallMax \in Nat
      /\ Packet <= Cushion /\ Cushion <= BufferMax
      /\ BufferMax + Jitter <= ResumeAfter /\ Cushion - Packet < Jitter + 2 * StallMax
  BY DEF Audio!AudioAssumption
<1>1. credit' >= 0
  <2>1. /\ due' \in Int /\ credit' \in Int /\ due' <= Packet
        /\ \/ credit' = LateMax + 2 * Packet
           \/ LateMax + Packet <= credit'
           \/ Packet <= credit' + due'
    BY DEF AudioInv, Audio!Burst
  <2>2. \A c, d \in Int : d <= Packet /\ (c = LateMax + 2 * Packet \/ LateMax + Packet <= c \/ Packet <= c + d)
                            => c >= 0
    BY <1>0
  <2> QED BY <2>1, <2>2
<1>2. sent' = sent \/ Audio!Call \/ Audio!Wake
  BY DEF Audio!Next, Audio!Sleep, Audio!Arrive, Audio!Tick, Audio!Press,
         Audio!LetGo, Audio!Floor, Audio!Loop, Audio!vars
<1>3. ASSUME Audio!Call \/ Audio!Wake, mic # "off", sent = "live", sent' = "silence"
      PROVE  Jitter + 2 * rough > Cushion - Packet
  <2>0. PacketSent
    BY <1>3, Packets
  <2>1. fifo + queue < Packet /\ due <= 0
    BY <1>0, <1>3, <2>0 DEF PacketSent, AudioInv
  <2>2. CASE rough = StallMax
    BY <1>0, <2>2 DEF AudioInv
  <2>3. CASE rough # StallMax
    BY <1>0, <1>3, <2>1, <2>3 DEF AudioInv
  <2> QED BY <2>2, <2>3
<1>4. ASSUME Audio!Call \/ Audio!Wake, mic = "muted", sent' = "loop"
      PROVE  Audio!Buffered + net <= since + rough
  <2>0. PacketSent
    BY <1>4, Packets
  <2>1. ResumeAfter <= since
    BY <1>0, <1>4, <2>0 DEF PacketSent, Audio!Kind, Audio!LiveVoice, AudioInv
  <2>2. Audio!Buffered \in Nat /\ Audio!Buffered <= BufferMax
    BY <1>0, <2>0 DEF PacketSent, AudioInv
  <2> QED BY <1>0, <2>1, <2>2 DEF AudioInv
<1> QED BY <1>1, <1>2, <1>3, <1>4 DEF Whole

LEMMA AudioSound == Audio!AudioAssumption => (Audio!Spec => Audio!SoundWhole)
<1> SUFFICES ASSUME Audio!AudioAssumption PROVE Audio!Spec => Audio!SoundWhole
  OBVIOUS
<1>1. AudioInv /\ AudioInv' /\ [Audio!Next]_(Audio!vars) => [Whole]_(Audio!vars)
  BY AudioWhole
<1>2. Audio!Spec => []AudioInv
  BY AudioCorrect
<1> QED BY <1>1, <1>2, PTL DEF Audio!Spec, Audio!SoundWhole, Whole

\* Packets run ahead of what is played by no more than Burst, silence breaks live
\* voice only where jitter and hold-ups used up the cushion, and the loop starts
\* when what was said is sent, for any sizes that AudioAssumption admits
\* (ScreenAudioTrack).
THEOREM SoundKeepsTogether == Spec => SoundWhole
<1>1. Audio!Spec => Audio!SoundWhole
  BY PartsAssumption, AudioSound
<1> QED BY <1>1, AudioPart, PTL DEF SoundWhole

-----------------------------------------------------------------------------
(***************************************************************************)
(* Resume: the ring holds the newest frames in their order, none left out, *)
(* and what is on the wire brings the screen forward message by message:   *)
(* BackInv.                                                                *)
(***************************************************************************)

LEMMA BackPart == Spec => Back!Spec
<1>1. Init => Back!Init
  BY DEF Init
<1>2. [Next]_vars => [Back!Next]_(Back!vars)
  BY DEF Next, vars, OnlyGate, OnlyFollow, OnlyCap, OnlyAudio, OnlyBack, OnlyLog,
         OnlyRig, OnlyFaults, OnlySheets, OnlyBoxed, Back!vars, resumeVars, Back!ring
<1> QED BY <1>1, <1>2, PTL DEF Spec, Back!Spec

\* The slot of the i-th oldest of n frames, the next one going to h.
SlotOf(h, n, i) == IF h - n + i - 1 >= 0 THEN h - n + i - 1 ELSE h - n + i - 1 + Capacity

RingOK ==
    /\ Capacity \in Nat \ {0} /\ MaxWire \in Nat
    /\ slots \in [0 .. Capacity - 1 -> Int]
    /\ head \in 0 .. Capacity - 1
    /\ count \in 0 .. Capacity

\* The frames in the buffer are in the order they were made, the newest is that of
\* the clock, and none is missing from the oldest on.
HeldOK ==
    /\ \A i \in 1 .. count : Back!Held[i] \in 1 .. clock
    /\ \A i, j \in 1 .. count : i < j => Back!Held[i] < Back!Held[j]
    /\ count > 0 => Back!Held[count] = clock
    /\ made \subseteq 1 .. clock
    /\ count = 0 => made = {}
    /\ \A s \in made : Back!Held[1] <= s => \E i \in 1 .. count : Back!Held[i] = s

Messages ==
    [kind : {"telemetry"}, ts : Nat]
        \cup [kind : {"batch"}, after : Nat, upto : Nat, entries : Seq(Nat), gap : Nat]

\* The frame a message brings the screen to, None if it leaves it as it is.
Shows(m) ==
    IF m.kind = "telemetry" THEN m.ts
    ELSE IF m.entries # <<>> THEN m.entries[Len(m.entries)] ELSE Back!None

BatchOK(m) ==
    m.kind = "batch" =>
        /\ m.upto <= clock
        /\ m.gap > 0 \/ \A s \in made : m.after < s /\ s <= m.upto => s \in Back!Range(m.entries)

\* What is on the wire brings the screen forward, message by message.
WireOK ==
    /\ wire \in Seq(Messages)
    /\ \A i \in 1 .. Len(wire) : BatchOK(wire[i])
    /\ \A i \in 1 .. Len(wire) : Shows(wire[i]) # Back!None =>
                                     seen <= Shows(wire[i]) /\ Shows(wire[i]) <= clock
    /\ \A i, j \in 1 .. Len(wire) :
          i <= j /\ Shows(wire[i]) # Back!None /\ Shows(wire[j]) # Back!None
              => Shows(wire[i]) <= Shows(wire[j])

BackInv ==
    /\ RingOK
    /\ clock \in Nat /\ seen \in 0 .. clock
    /\ sending \in {0, clock}
    /\ asked \in Nat \cup {Back!None} /\ asked <= seen
    /\ HeldOK
    /\ WireOK

LEMMA SlotIs ==
  ASSUME NEW C \in Nat \ {0}, NEW h \in 0 .. C - 1, NEW n \in 0 .. C, NEW i \in 1 .. n
  PROVE  LET a == h - n + i - 1
         IN  /\ a % C = IF a >= 0 THEN a ELSE a + C
             /\ a % C \in 0 .. C - 1
<1>1. CASE h - n + i - 1 >= 0
  BY <1>1
<1>2. CASE ~(h - n + i - 1 >= 0)
  BY <1>2
<1> QED BY <1>1, <1>2

LEMMA NextSlot ==
  ASSUME NEW C \in Nat \ {0}, NEW h \in 0 .. C - 1
  PROVE  (h + 1) % C = IF h + 1 = C THEN 0 ELSE h + 1
<1>1. CASE h + 1 = C
  BY <1>1
<1>2. CASE h + 1 # C
  BY <1>2
<1> QED BY <1>1, <1>2

LEMMA HeldIs ==
  ASSUME RingOK
  PROVE  /\ DOMAIN Back!Held = 1 .. count
         /\ \A i \in 1 .. count : Back!Held[i] = slots[SlotOf(head, count, i)]
         /\ \A i \in 1 .. count : SlotOf(head, count, i) \in 0 .. Capacity - 1
         /\ \A i \in 1 .. count : Back!Held[i] \in Int
         /\ Back!Held \in Seq(Int) /\ Len(Back!Held) = count
<1>1. ASSUME NEW i \in 1 .. count
      PROVE  /\ (head - count + i - 1) % Capacity = SlotOf(head, count, i)
             /\ SlotOf(head, count, i) \in 0 .. Capacity - 1
  <2>1. Capacity \in Nat \ {0} /\ head \in 0 .. Capacity - 1 /\ count \in 0 .. Capacity
    BY DEF RingOK
  <2>2. /\ (head - count + i - 1) % Capacity =
             IF head - count + i - 1 >= 0 THEN head - count + i - 1
             ELSE head - count + i - 1 + Capacity
        /\ (head - count + i - 1) % Capacity \in 0 .. Capacity - 1
    BY <2>1, SlotIs
  <2>3. SlotOf(head, count, i) = (head - count + i - 1) % Capacity
    BY <2>2 DEF SlotOf
  <2> QED BY <2>2, <2>3
<1>2. \A i \in 1 .. count : Back!Held[i] = slots[SlotOf(head, count, i)]
  BY <1>1 DEF Back!Held
<1>3. \A i \in 1 .. count : Back!Held[i] \in Int
  BY <1>1, <1>2 DEF RingOK
<1>4. DOMAIN Back!Held = 1 .. count /\ Back!Held = [i \in 1 .. count |-> Back!Held[i]]
  BY DEF Back!Held
<1>5. Back!Held \in [1 .. count -> Int] /\ count \in Nat
  BY <1>3, <1>4 DEF RingOK
<1>6. Back!Held \in Seq(Int)
  BY <1>5
<1> QED BY <1>1, <1>2, <1>3, <1>4, <1>5, <1>6, LenProperties

LEMMA AppendRing ==
  ASSUME RingOK, NEW s \in Int, Back!Append1(s)
  PROVE  /\ RingOK'
         /\ count < Capacity =>
               /\ count' = count + 1
               /\ \A i \in 1 .. count : Back!Held'[i] = Back!Held[i]
         /\ count = Capacity =>
               /\ count' = count
               /\ \A i \in 1 .. count - 1 : Back!Held'[i] = Back!Held[i + 1]
         /\ Back!Held'[count'] = s
<1>1. /\ Capacity \in Nat \ {0} /\ head \in 0 .. Capacity - 1 /\ count \in 0 .. Capacity
      /\ slots' = [slots EXCEPT ![head] = s]
      /\ head' = IF head + 1 = Capacity THEN 0 ELSE head + 1
      /\ count' = IF count < Capacity THEN count + 1 ELSE count
      /\ slots \in [0 .. Capacity - 1 -> Int]
  BY NextSlot DEF RingOK, Back!Append1
<1>2. RingOK'
  <2>1. head' \in 0 .. Capacity - 1 /\ count' \in 0 .. Capacity
    BY <1>1
  <2>2. slots' \in [0 .. Capacity - 1 -> Int]
    BY <1>1
  <2>3. MaxWire \in Nat
    BY DEF RingOK
  <2> QED BY <1>1, <2>1, <2>2, <2>3 DEF RingOK
<1>3. \A i \in 1 .. count' : Back!Held'[i] = slots'[SlotOf(head', count', i)]
  <2>1. ASSUME NEW i \in 1 .. count'
        PROVE  (head' - count' + i - 1) % Capacity = SlotOf(head', count', i)
    BY <1>2, SlotIs DEF RingOK, SlotOf
  <2> QED BY <2>1 DEF Back!Held
<1>4. \A i \in 1 .. count : /\ Back!Held[i] = slots[SlotOf(head, count, i)]
                            /\ SlotOf(head, count, i) \in 0 .. Capacity - 1
  BY HeldIs
<1>5. Back!Held'[count'] = s
  <2>1. count' \in 1 .. count'
    BY <1>1
  <2>2. SlotOf(head', count', count') = head
    BY <1>1 DEF SlotOf
  <2> QED BY <1>1, <1>3, <2>1, <2>2
<1>6. ASSUME count < Capacity, NEW i \in 1 .. count
      PROVE  Back!Held'[i] = Back!Held[i]
  <2>1. i \in 1 .. count' /\ count' = count + 1
    BY <1>1, <1>6
  <2>2. SlotOf(head', count', i) = SlotOf(head, count, i) /\ SlotOf(head, count, i) # head
    BY <1>1, <1>6, <2>1 DEF SlotOf
  <2> QED BY <1>1, <1>3, <1>4, <2>1, <2>2
<1>7. ASSUME count = Capacity, NEW i \in 1 .. count - 1
      PROVE  Back!Held'[i] = Back!Held[i + 1]
  <2>1. i \in 1 .. count' /\ i + 1 \in 1 .. count /\ count' = count
    BY <1>1, <1>7
  <2>2. /\ SlotOf(head', count', i) = SlotOf(head, count, i + 1)
        /\ SlotOf(head, count, i + 1) # head
    BY <1>1, <1>7, <2>1 DEF SlotOf
  <2> QED BY <1>1, <1>3, <1>4, <2>1, <2>2
<1> QED BY <1>1, <1>2, <1>5, <1>6, <1>7

\* What _handle_resume answers.
LEMMA SinceIs ==
  ASSUME BackInv, NEW ts \in Nat
  PROVE  /\ Back!Since(ts) \in Seq(Nat)
         /\ Back!Since(ts) # <<>> => Back!Since(ts)[Len(Back!Since(ts))] = clock
         /\ \A i \in 1 .. count : Back!Held[i] > ts => Back!Held[i] \in Back!Range(Back!Since(ts))
<1> DEFINE gone == {i \in 1 .. count : Back!Held[i] <= ts}
           k == Cardinality(gone)
           y == Back!Since(ts)
<1>1. /\ count \in Nat /\ clock \in Nat
      /\ \A i \in 1 .. count : Back!Held[i] \in 1 .. clock
      /\ \A i, j \in 1 .. count : i < j => Back!Held[i] < Back!Held[j]
      /\ count > 0 => Back!Held[count] = clock
  BY DEF BackInv, RingOK, HeldOK
<1>2. k \in 0 .. count /\ gone = 1 .. k
  <2>1. gone \in SUBSET (1 .. count)
    OBVIOUS
  <2>2. ASSUME NEW i \in 1 .. count, NEW j \in 1 .. count, i <= j, j \in gone
        PROVE  i \in gone
    <3>1. Back!Held[i] <= Back!Held[j] /\ Back!Held[j] <= ts
      BY <1>1, <2>2
    <3> QED BY <1>1, <3>1
  <2> HIDE DEF gone
  <2> QED BY <1>1, <2>1, <2>2, Prefix
<1>3. y = SubSeq(Back!Held, 1 + k, count)
  BY DEF Back!Since, Back!Cardinality, Cardinality
<1>4. \A i \in 1 .. count : Back!Held[i] > ts => i > k
  <2>1. \A i \in 1 .. count : i \in gone <=> Back!Held[i] <= ts
    OBVIOUS
  <2> HIDE DEF gone
  <2> QED BY <1>1, <1>2, <2>1
<1> HIDE DEF k, gone, y
<1>5. /\ y \in Seq(Nat)
      /\ Len(y) = count - k
      /\ \A i \in 1 .. count - k : y[i] = Back!Held[k + i]
  <2>1. 1 + k \in Int /\ count \in Int /\ \A i \in 1 + k .. count : Back!Held[i] \in Nat
    BY <1>1, <1>2
  <2>2. /\ SubSeq(Back!Held, 1 + k, count) \in Seq(Nat)
        /\ Len(SubSeq(Back!Held, 1 + k, count)) =
              IF 1 + k <= count THEN count - (1 + k) + 1 ELSE 0
        /\ \A i \in 1 .. count - (1 + k) + 1 :
              SubSeq(Back!Held, 1 + k, count)[i] = Back!Held[1 + k + i - 1]
    BY <2>1, SubSeqProperties
  <2>3. /\ y \in Seq(Nat)
        /\ Len(y) = IF 1 + k <= count THEN count - (1 + k) + 1 ELSE 0
        /\ \A i \in 1 .. count - (1 + k) + 1 : y[i] = Back!Held[1 + k + i - 1]
    BY <2>2, <1>3
  <2>4. ASSUME NEW i \in 1 .. count - k
        PROVE  y[i] = Back!Held[k + i]
    <3>1. i \in 1 .. count - (1 + k) + 1 /\ 1 + k + i - 1 = k + i
      BY <1>1, <1>2
    <3> QED BY <2>3, <3>1
  <2>5. Len(y) = count - k
    <3>1. /\ count \in Nat /\ k \in 0 .. count
          /\ Len(y) = IF 1 + k <= count THEN count - (1 + k) + 1 ELSE 0
      BY <1>1, <1>2, <2>3
    <3>2. CASE 1 + k <= count
      BY <3>1, <3>2
    <3>3. CASE ~(1 + k <= count)
      BY <3>1, <3>3
    <3> QED BY <3>2, <3>3
  <2> QED BY <2>3, <2>4, <2>5
<1>6. ASSUME y # <<>>
      PROVE  y[Len(y)] = clock
  <2>1. Len(y) \in Nat \ {0}
    BY <1>5, <1>6, EmptySeq
  <2>2. count - k \in 1 .. count - k /\ k + (count - k) = count /\ count > 0
    BY <1>1, <1>2, <1>5, <2>1
  <2>3. y[count - k] = Back!Held[count]
    BY <1>5, <2>2
  <2> QED BY <1>1, <1>5, <2>2, <2>3
<1>7. ASSUME NEW i \in 1 .. count, Back!Held[i] > ts
      PROVE  Back!Held[i] \in Back!Range(y)
  <2>1. i - k \in 1 .. count - k /\ k + (i - k) = i
    BY <1>1, <1>2, <1>4, <1>7
  <2>2. y[i - k] = Back!Held[i] /\ i - k \in 1 .. Len(y)
    BY <1>5, <2>1
  <2>3. DOMAIN y = 1 .. Len(y)
    BY <1>5, LenProperties
  <2> QED BY <2>2, <2>3 DEF Back!Range
<1> QED BY <1>5, <1>6, <1>7 DEF y

LEMMA BackInit == Back!ResumeAssumption /\ Back!Init => BackInv
<1> SUFFICES ASSUME Back!ResumeAssumption, Back!Init PROVE BackInv
  OBVIOUS
<1>1. RingOK
  BY DEF Back!ResumeAssumption, Back!Init, RingOK, Back!None
<1>2. HeldOK
  BY DEF Back!Init, HeldOK
<1>3. WireOK
  <2>1. wire \in Seq(Messages) /\ Len(wire) = 0
    BY EmptySeq DEF Back!Init
  <2> QED BY <2>1 DEF WireOK
<1> QED BY <1>1, <1>2, <1>3 DEF Back!Init, BackInv, Back!None

LEMMA BackMake ==
  ASSUME BackInv, Back!MakeSnapshot
  PROVE  BackInv'
<1>1. PICK s \in clock + 1 .. clock + 2 :
          /\ clock' = s
          /\ made' = made \cup {s}
          /\ Back!Append1(s)
          /\ sending' \in {0, s}
  BY DEF Back!MakeSnapshot
<1>2. /\ RingOK /\ clock \in Nat /\ seen \in 0 .. clock /\ HeldOK /\ s \in Nat /\ s > clock
      /\ asked \in Nat \cup {Back!None} /\ asked <= seen /\ WireOK
      /\ asked' = asked /\ seen' = seen /\ wire' = wire
  BY DEF BackInv, Back!MakeSnapshot
<1>3. /\ RingOK'
      /\ count < Capacity =>
            /\ count' = count + 1
            /\ \A i \in 1 .. count : Back!Held'[i] = Back!Held[i]
      /\ count = Capacity =>
            /\ count' = count
            /\ \A i \in 1 .. count - 1 : Back!Held'[i] = Back!Held[i + 1]
      /\ Back!Held'[count'] = s
  BY <1>1, <1>2, AppendRing
<1>4. /\ count \in 0 .. Capacity /\ Capacity \in Nat \ {0}
      /\ \A i \in 1 .. count : Back!Held[i] \in 1 .. clock
      /\ \A i, j \in 1 .. count : i < j => Back!Held[i] < Back!Held[j]
      /\ count > 0 => Back!Held[count] = clock
      /\ made \subseteq 1 .. clock
      /\ count = 0 => made = {}
      /\ \A t \in made : Back!Held[1] <= t => \E i \in 1 .. count : Back!Held[i] = t
  BY <1>2 DEF RingOK, HeldOK
<1> HIDE DEF Back!Held
<1>5. HeldOK'
  <2>0. count' \in Nat \ {0} /\ made' \subseteq 1 .. clock'
    BY <1>1, <1>2, <1>3, <1>4
  <2>1. CASE count < Capacity
    <3>1. /\ count' = count + 1 /\ Back!Held'[count + 1] = s
          /\ \A i \in 1 .. count : Back!Held'[i] = Back!Held[i]
      BY <1>3, <2>1
    <3>2. ASSUME NEW i \in 1 .. count'
          PROVE  Back!Held'[i] \in 1 .. clock'
      BY <1>1, <1>2, <1>4, <3>1
    <3>3. ASSUME NEW i \in 1 .. count', NEW j \in 1 .. count', i < j
          PROVE  Back!Held'[i] < Back!Held'[j]
      <4>1. i \in 1 .. count /\ Back!Held'[i] = Back!Held[i] /\ Back!Held[i] \in 1 .. clock
        BY <1>4, <3>1, <3>3
      <4>2. CASE j = count + 1
        BY <1>2, <3>1, <4>1, <4>2
      <4>3. CASE j # count + 1
        <5>1. j \in 1 .. count
          BY <1>4, <3>1, <4>3
        <5> QED BY <1>4, <3>1, <3>3, <4>1, <5>1
      <4> QED BY <4>2, <4>3
    <3>4. ASSUME NEW t \in made', Back!Held'[1] <= t
          PROVE  \E i \in 1 .. count' : Back!Held'[i] = t
      <4>1. CASE t = s
        <5>1. count + 1 \in 1 .. count'
          BY <2>0, <3>1
        <5> QED BY <3>1, <4>1, <5>1
      <4>2. CASE t # s
        <5>1. t \in made /\ count # 0
          BY <1>1, <1>4, <4>2
        <5>2. 1 \in 1 .. count
          BY <1>4, <5>1
        <5>3. Back!Held[1] <= t
          BY <3>1, <3>4, <5>2
        <5>4. PICK i \in 1 .. count : Back!Held[i] = t
          BY <1>4, <5>1, <5>3
        <5>5. i \in 1 .. count'
          BY <1>4, <3>1
        <5> QED BY <3>1, <5>4, <5>5
      <4> QED BY <4>1, <4>2
    <3> QED BY <1>1, <1>3, <2>0, <3>2, <3>3, <3>4 DEF HeldOK
  <2>2. CASE count = Capacity
    <3>1. /\ count' = count /\ Back!Held'[count] = s /\ count \in Nat \ {0}
          /\ \A i \in 1 .. count - 1 : Back!Held'[i] = Back!Held[i + 1]
      BY <1>3, <1>4, <2>2
    <3>2. ASSUME NEW i \in 1 .. count'
          PROVE  Back!Held'[i] \in 1 .. clock'
      <4>1. CASE i = count
        BY <1>1, <1>2, <3>1, <4>1
      <4>2. CASE i # count
        <5>1. i \in 1 .. count - 1 /\ i + 1 \in 1 .. count
          BY <3>1, <4>2
        <5>2. Back!Held'[i] \in 1 .. clock
          BY <1>4, <3>1, <5>1
        <5> QED BY <1>1, <1>2, <5>2
      <4> QED BY <4>1, <4>2
    <3>3. ASSUME NEW i \in 1 .. count', NEW j \in 1 .. count', i < j
          PROVE  Back!Held'[i] < Back!Held'[j]
      <4>1. i \in 1 .. count - 1 /\ i + 1 \in 1 .. count
        BY <3>1, <3>3
      <4>2. Back!Held'[i] = Back!Held[i + 1] /\ Back!Held[i + 1] \in 1 .. clock
        BY <1>4, <3>1, <4>1
      <4>3. CASE j = count
        BY <1>2, <3>1, <4>2, <4>3
      <4>4. CASE j # count
        <5>1. j \in 1 .. count - 1 /\ j + 1 \in 1 .. count /\ i + 1 < j + 1
          BY <3>1, <3>3, <4>4
        <5>2. Back!Held'[j] = Back!Held[j + 1]
          BY <3>1, <5>1
        <5>3. Back!Held[i + 1] < Back!Held[j + 1]
          BY <1>4, <4>1, <5>1
        <5> QED BY <4>2, <5>2, <5>3
      <4> QED BY <4>3, <4>4
    <3>4. ASSUME NEW t \in made', Back!Held'[1] <= t
          PROVE  \E i \in 1 .. count' : Back!Held'[i] = t
      <4>1. CASE t = s
        BY <2>0, <3>1, <4>1
      <4>2. CASE t # s
        <5>1. t \in made /\ t \in 1 .. clock
          BY <1>1, <1>4, <4>2
        <5>2. count # 1
          BY <1>2, <3>1, <3>4, <5>1
        <5>3. 1 \in 1 .. count - 1 /\ 1 \in 1 .. count /\ 2 \in 1 .. count
          BY <3>1, <5>2
        <5>4. Back!Held[1] < Back!Held[2] /\ Back!Held[2] <= t
          BY <1>4, <3>1, <3>4, <5>3
        <5>5. Back!Held[1] \in 1 .. clock /\ Back!Held[2] \in 1 .. clock
          BY <1>4, <5>3
        <5>6. PICK i \in 1 .. count : Back!Held[i] = t
          BY <1>4, <5>1, <5>4, <5>5
        <5>7. i # 1
          BY <5>4, <5>5, <5>6, <5>1
        <5>8. i - 1 \in 1 .. count - 1 /\ i - 1 \in 1 .. count' /\ i - 1 + 1 = i
          BY <3>1, <5>7
        <5>9. Back!Held'[i - 1] = t
          BY <3>1, <5>6, <5>8
        <5> QED BY <5>8, <5>9
      <4> QED BY <4>1, <4>2
    <3> QED BY <1>1, <1>3, <2>0, <3>2, <3>3, <3>4 DEF HeldOK
  <2> QED BY <1>4, <2>1, <2>2
<1>6. WireOK'
  <2>1. ASSUME NEW i \in 1 .. Len(wire), BatchOK(wire[i])
        PROVE  BatchOK(wire[i])'
    <3>1. SUFFICES ASSUME wire[i].kind = "batch"
                   PROVE  /\ wire[i].upto <= clock'
                          /\ \/ wire[i].gap > 0
                             \/ \A t \in made' :
                                   wire[i].after < t /\ t <= wire[i].upto
                                       => t \in Back!Range(wire[i].entries)
      BY <1>2 DEF BatchOK
    <3>2. wire[i] \in Messages
      BY <1>2, ElementOfSeq DEF WireOK
    <3>3. wire[i].upto \in Nat /\ wire[i].upto <= clock
      BY <2>1, <3>1, <3>2 DEF BatchOK, Messages
    <3> QED BY <1>1, <1>2, <2>1, <3>1, <3>3 DEF BatchOK
  <2>2. ASSUME NEW i \in 1 .. Len(wire), Shows(wire[i]) # Back!None
        PROVE  seen <= Shows(wire[i]) /\ Shows(wire[i]) <= clock'
    <3>1. wire[i] \in Messages
      BY <1>2, ElementOfSeq DEF WireOK
    <3>2. seen <= Shows(wire[i]) /\ Shows(wire[i]) <= clock
      BY <1>2, <2>2 DEF WireOK
    <3>3. Shows(wire[i]) \in Int
      <4>1. CASE wire[i].kind = "telemetry"
        BY <3>1, <4>1 DEF Messages, Shows
      <4>2. CASE wire[i].kind # "telemetry"
        <5>1. wire[i].entries \in Seq(Nat) /\ wire[i].entries # <<>>
          BY <2>2, <3>1, <4>2 DEF Messages, Shows
        <5> DEFINE e == wire[i].entries
        <5>2. Len(e) \in 1 .. Len(e)
          BY <5>1, EmptySeq
        <5>3. e[Len(e)] \in Nat
          BY <5>1, <5>2, ElementOfSeq
        <5> QED BY <4>2, <5>1, <5>3 DEF Shows
      <4> QED BY <4>1, <4>2
    <3> QED BY <1>1, <1>2, <3>2, <3>3
  <2> QED BY <1>2, <2>1, <2>2 DEF WireOK
<1> QED BY <1>1, <1>2, <1>3, <1>5, <1>6 DEF BackInv

LEMMA RingKept ==
  ASSUME RingOK, HeldOK, UNCHANGED <<Back!ring, clock, made>>
  PROVE  RingOK' /\ HeldOK'
<1>1. Back!Held' = Back!Held /\ count' = count
  BY DEF Back!Held, Back!ring
<1>2. RingOK'
  BY DEF RingOK, Back!ring
<1> QED BY <1>1, <1>2 DEF HeldOK

LEMMA ShowsIs ==
  ASSUME NEW m \in Messages
  PROVE  Shows(m) \in Nat \cup {Back!None}
<1>1. CASE m.kind = "telemetry"
  BY <1>1 DEF Messages, Shows
<1>2. CASE m.kind # "telemetry" /\ m.entries = <<>>
  BY <1>2 DEF Shows
<1>3. CASE m.kind # "telemetry" /\ m.entries # <<>>
  <2> DEFINE e == m.entries
  <2>1. e \in Seq(Nat) /\ e # <<>>
    BY <1>3 DEF Messages
  <2>2. Len(e) \in 1 .. Len(e)
    BY <2>1, EmptySeq
  <2>3. e[Len(e)] \in Nat
    BY <2>1, <2>2, ElementOfSeq
  <2> QED BY <1>3, <2>3 DEF Shows
<1> QED BY <1>1, <1>2, <1>3

\* A message put on the wire that shows the newest frame, if any.
LEMMA PutOnWire ==
  ASSUME WireOK, clock \in Nat, seen \in 0 .. clock,
         NEW m \in Messages, BatchOK(m), Shows(m) \in {clock, Back!None},
         wire' = Append(wire, m), UNCHANGED <<made, clock, seen>>
  PROVE  WireOK'
<1> DEFINE w == Append(wire, m)
<1>1. /\ wire \in Seq(Messages) /\ Len(wire) \in Nat
      /\ \A i \in 1 .. Len(wire) : BatchOK(wire[i]) /\ wire[i] \in Messages
      /\ \A i \in 1 .. Len(wire) : Shows(wire[i]) # Back!None =>
                                       seen <= Shows(wire[i]) /\ Shows(wire[i]) <= clock
      /\ \A i, j \in 1 .. Len(wire) :
            i <= j /\ Shows(wire[i]) # Back!None /\ Shows(wire[j]) # Back!None
                => Shows(wire[i]) <= Shows(wire[j])
  BY ElementOfSeq, LenProperties DEF WireOK
<1>2. /\ w \in Seq(Messages)
      /\ Len(w) = Len(wire) + 1
      /\ \A i \in 1 .. Len(wire) : w[i] = wire[i]
      /\ w[Len(wire) + 1] = m
  BY <1>1, AppendProperties
<1>3. wire' = w
  OBVIOUS
<1> HIDE DEF w
<1>4. \A i \in 1 .. Len(w) : i \in 1 .. Len(wire) \/ i = Len(wire) + 1
  BY <1>1, <1>2
<1>5. ASSUME NEW i \in 1 .. Len(w)
      PROVE  /\ BatchOK(w[i])
             /\ Shows(w[i]) # Back!None => seen <= Shows(w[i]) /\ Shows(w[i]) <= clock
  <2>1. CASE i \in 1 .. Len(wire)
    BY <1>1, <1>2, <2>1
  <2>2. CASE i = Len(wire) + 1
    BY <1>2, <2>2
  <2> QED BY <1>4, <2>1, <2>2
<1>6. ASSUME NEW i \in 1 .. Len(w), NEW j \in 1 .. Len(w), i <= j,
             Shows(w[i]) # Back!None, Shows(w[j]) # Back!None
      PROVE  Shows(w[i]) <= Shows(w[j])
  <2>1. CASE j \in 1 .. Len(wire)
    <3>1. i \in 1 .. Len(wire)
      BY <1>1, <1>6, <2>1
    <3> QED BY <1>1, <1>2, <1>6, <2>1, <3>1
  <2>2. CASE j = Len(wire) + 1
    <3>1. Shows(w[j]) = clock
      BY <1>2, <1>6, <2>2
    <3> QED BY <1>5, <1>6, <3>1
  <2> QED BY <1>4, <2>1, <2>2
<1>7. \A i \in 1 .. Len(w) : BatchOK(wire[i])'
  BY <1>3, <1>5 DEF BatchOK
<1> QED BY <1>2, <1>3, <1>5, <1>6, <1>7 DEF WireOK

LEMMA BackHandle ==
  ASSUME BackInv, Back!HandleResume
  PROVE  BackInv'
<1> DEFINE m == [kind |-> "batch", after |-> asked, upto |-> clock,
                 entries |-> Back!Since(asked), gap |-> Back!GapAfter(asked)]
<1>1. /\ asked \in Nat /\ wire' = Append(wire, m) /\ asked' = Back!None
      /\ clock \in Nat /\ seen \in 0 .. clock
      /\ UNCHANGED <<Back!ring, sending, linked, seen, clock, made>>
  BY DEF BackInv, Back!HandleResume
<1>2. /\ Back!Since(asked) \in Seq(Nat)
      /\ Back!Since(asked) # <<>> => Back!Since(asked)[Len(Back!Since(asked))] = clock
      /\ \A i \in 1 .. count : Back!Held[i] > asked => Back!Held[i] \in Back!Range(Back!Since(asked))
  BY <1>1, SinceIs
<1>3. /\ count \in Nat
      /\ \A i \in 1 .. count : Back!Held[i] \in 1 .. clock
      /\ made \subseteq 1 .. clock
      /\ count = 0 => made = {}
      /\ \A s \in made : Back!Held[1] <= s => \E i \in 1 .. count : Back!Held[i] = s
  BY DEF BackInv, RingOK, HeldOK
<1> HIDE DEF Back!Held
<1>4. Back!GapAfter(asked) \in Nat
  BY <1>1, <1>3 DEF Back!GapAfter
<1>5. m \in Messages
  BY <1>1, <1>2, <1>4 DEF Messages
<1>6. BatchOK(m)
  <2>1. ASSUME ~(Back!GapAfter(asked) > 0), NEW s \in made, asked < s
        PROVE  s \in Back!Range(Back!Since(asked))
    <3>1. count > 0 /\ 1 \in 1 .. count
      BY <1>3
    <3>2. Back!Held[1] <= asked
      BY <1>1, <1>3, <2>1, <3>1 DEF Back!GapAfter
    <3>3. PICK i \in 1 .. count : Back!Held[i] = s
      BY <1>1, <1>3, <2>1, <3>1, <3>2
    <3> QED BY <1>2, <2>1, <3>3
  <2>2. clock <= clock
    BY <1>1
  <2> QED BY <2>1, <2>2 DEF BatchOK
<1>7. Shows(m) \in {clock, Back!None}
  BY <1>2 DEF Shows
<1> HIDE DEF m
<1>8. WireOK'
  BY <1>1, <1>5, <1>6, <1>7, PutOnWire DEF BackInv
<1> QED BY <1>1, <1>8, RingKept DEF BackInv, Back!None

LEMMA BackSend ==
  ASSUME BackInv, Back!SendSnapshot
  PROVE  BackInv'
<1> DEFINE m == [kind |-> "telemetry", ts |-> sending]
<1>1. /\ wire' = Append(wire, m) /\ sending' = 0
      /\ clock \in Nat /\ seen \in 0 .. clock /\ sending = clock
      /\ UNCHANGED <<Back!ring, linked, asked, seen, clock, made>>
  BY DEF BackInv, Back!SendSnapshot
<1>2. m \in Messages /\ BatchOK(m) /\ Shows(m) = clock
  BY <1>1 DEF Messages, BatchOK, Shows
<1> HIDE DEF m
<1>3. WireOK'
  BY <1>1, <1>2, PutOnWire DEF BackInv
<1> QED BY <1>1, <1>3, RingKept DEF BackInv

LEMMA BackDeliver ==
  ASSUME BackInv, Back!Deliver
  PROVE  BackInv' /\ seen' >= seen
<1> DEFINE w == Tail(wire)
           m == Head(wire)
<1>1. /\ wire \in Seq(Messages) /\ Len(wire) \in Nat /\ wire # <<>>
      /\ \A i \in 1 .. Len(wire) : BatchOK(wire[i]) /\ wire[i] \in Messages
      /\ \A i \in 1 .. Len(wire) : Shows(wire[i]) # Back!None =>
                                       seen <= Shows(wire[i]) /\ Shows(wire[i]) <= clock
      /\ \A i, j \in 1 .. Len(wire) :
            i <= j /\ Shows(wire[i]) # Back!None /\ Shows(wire[j]) # Back!None
                => Shows(wire[i]) <= Shows(wire[j])
      /\ clock \in Nat /\ seen \in 0 .. clock /\ asked <= seen
      /\ asked \in Nat \cup {Back!None}
  BY ElementOfSeq, LenProperties DEF BackInv, WireOK, Back!Deliver
<1>2. Len(wire) \in Nat \ {0} /\ 1 \in 1 .. Len(wire)
  BY <1>1, EmptySeq
<1>3. /\ w \in Seq(Messages) /\ Len(w) = Len(wire) - 1
      /\ \A i \in 1 .. Len(w) : w[i] = wire[i + 1]
  BY <1>1, HeadTailProperties
<1>4. m = wire[1] /\ m \in Messages
  BY <1>1, <1>2
<1>5. /\ wire' = w
      /\ seen' = IF m.kind = "telemetry" THEN m.ts
                 ELSE IF m.entries # <<>> THEN m.entries[Len(m.entries)] ELSE seen
      /\ UNCHANGED <<Back!ring, sending, linked, asked, clock, made>>
  BY DEF Back!Deliver
<1> HIDE DEF w, m
<1>6. seen' = IF Shows(m) = Back!None THEN seen ELSE Shows(m)
  <2>1. CASE m.kind = "telemetry"
    BY <1>4, <1>5, <2>1 DEF Messages, Shows, Back!None
  <2>2. CASE m.kind # "telemetry" /\ m.entries = <<>>
    BY <1>5, <2>2 DEF Shows
  <2>3. CASE m.kind # "telemetry" /\ m.entries # <<>>
    <3> DEFINE e == m.entries
    <3>1. e \in Seq(Nat) /\ e # <<>>
      BY <1>4, <2>3 DEF Messages
    <3>2. Len(e) \in 1 .. Len(e)
      BY <3>1, EmptySeq
    <3>3. e[Len(e)] \in Nat
      BY <3>1, <3>2, ElementOfSeq
    <3> QED BY <1>5, <2>3, <3>3 DEF Shows, Back!None
  <2> QED BY <2>1, <2>2, <2>3
<1>7. Shows(m) # Back!None => seen <= Shows(m) /\ Shows(m) <= clock /\ Shows(m) \in Nat
  BY <1>1, <1>2, <1>4, ShowsIs
<1>8. seen' \in 0 .. clock /\ seen' >= seen
  BY <1>1, <1>6, <1>7
<1>9. \A i \in 1 .. Len(w) : i + 1 \in 1 .. Len(wire)
  BY <1>2, <1>3
<1>10. ASSUME NEW i \in 1 .. Len(w)
       PROVE  /\ BatchOK(w[i])
              /\ Shows(w[i]) # Back!None => seen' <= Shows(w[i]) /\ Shows(w[i]) <= clock
  <2> DEFINE v == wire[i + 1]
  <2>1. w[i] = v /\ BatchOK(v) /\ v \in Messages
    BY <1>1, <1>3, <1>9
  <2>2. ASSUME Shows(v) # Back!None
        PROVE  seen' <= Shows(v) /\ Shows(v) <= clock
    <3>1. seen <= Shows(v) /\ Shows(v) <= clock
      BY <1>1, <1>9, <2>2
    <3>2. Shows(m) # Back!None => Shows(m) <= Shows(v)
      BY <1>1, <1>2, <1>4, <1>9, <2>2
    <3> QED BY <1>6, <3>1, <3>2
  <2> QED BY <2>1, <2>2
<1>11. ASSUME NEW i \in 1 .. Len(w), NEW j \in 1 .. Len(w), i <= j,
              Shows(w[i]) # Back!None, Shows(w[j]) # Back!None
       PROVE  Shows(w[i]) <= Shows(w[j])
  <2>1. i + 1 \in 1 .. Len(wire) /\ j + 1 \in 1 .. Len(wire) /\ i + 1 <= j + 1
    BY <1>9, <1>11
  <2>2. w[i] = wire[i + 1] /\ w[j] = wire[j + 1]
    BY <1>3
  <2> QED BY <1>1, <1>11, <2>1, <2>2
<1>12. \A i \in 1 .. Len(w) : BatchOK(wire[i])'
  BY <1>5, <1>10 DEF BatchOK
<1>13. WireOK'
  BY <1>3, <1>5, <1>10, <1>11, <1>12 DEF WireOK
<1>14. asked <= seen'
  BY <1>1, <1>8 DEF Back!None
<1> QED BY <1>1, <1>5, <1>8, <1>13, <1>14, RingKept DEF BackInv

LEMMA BackStep ==
  ASSUME Back!ResumeAssumption, BackInv, [Back!Next]_(Back!vars)
  PROVE  BackInv' /\ (seen' = seen \/ seen' >= seen)
<1>1. CASE Back!MakeSnapshot
  BY <1>1, BackMake DEF Back!MakeSnapshot
<1>2. CASE Back!SendSnapshot
  BY <1>2, BackSend DEF Back!SendSnapshot
<1>3. CASE Back!Connect
  <2>1. WireOK'
    BY <1>3 DEF Back!Connect, BackInv, WireOK, BatchOK
  <2>2. UNCHANGED <<Back!ring, sending, seen, clock, made>> /\ asked' \in {seen, Back!None}
    BY <1>3 DEF Back!Connect
  <2> QED BY <2>1, <2>2, RingKept DEF BackInv, Back!None
<1>4. CASE Back!HandleResume
  BY <1>4, BackHandle DEF Back!HandleResume
<1>5. CASE Back!Deliver
  BY <1>5, BackDeliver
<1>6. CASE Back!Drop
  <2>1. WireOK'
    <3>1. wire' \in Seq(Messages) /\ Len(wire') = 0
      BY <1>6, EmptySeq DEF Back!Drop
    <3> QED BY <3>1 DEF WireOK
  <2> QED BY <1>6, <2>1, RingKept DEF Back!Drop, BackInv, Back!None
<1>7. CASE Back!P1Restarts
  <2>1. WireOK'
    <3>1. wire' \in Seq(Messages) /\ Len(wire') = 0
      BY <1>7, EmptySeq DEF Back!P1Restarts
    <3> QED BY <3>1 DEF WireOK
  <2>2. RingOK'
    BY <1>7 DEF Back!P1Restarts, Back!ResumeAssumption, RingOK, Back!None
  <2>3. HeldOK'
    BY <1>7 DEF Back!P1Restarts, HeldOK
  <2> QED BY <1>7, <2>1, <2>2, <2>3 DEF Back!P1Restarts, BackInv, Back!None
<1>8. CASE UNCHANGED Back!vars
  <2>1. WireOK'
    BY <1>8 DEF Back!vars, BackInv, WireOK, BatchOK
  <2>2. UNCHANGED <<Back!ring, clock, made, sending, asked, seen>>
    BY <1>8 DEF Back!vars
  <2> QED BY <2>1, <2>2, RingKept DEF BackInv
<1> QED BY <1>1, <1>2, <1>3, <1>4, <1>5, <1>6, <1>7, <1>8 DEF Back!Next

LEMMA BackCorrect == Back!ResumeAssumption => (Back!Spec => []BackInv)
<1> SUFFICES ASSUME Back!ResumeAssumption PROVE Back!Spec => []BackInv
  OBVIOUS
<1>1. Back!Init => BackInv
  BY BackInit
<1>2. BackInv /\ [Back!Next]_(Back!vars) => BackInv'
  BY BackStep
<1> QED BY <1>1, <1>2, PTL DEF Back!Spec

LEMMA BackForward == Back!ResumeAssumption => (Back!Spec => Back!SeenForward)
<1> SUFFICES ASSUME Back!ResumeAssumption PROVE Back!Spec => Back!SeenForward
  OBVIOUS
<1>1. BackInv /\ [Back!Next]_(Back!vars) => [seen' >= seen]_seen
  BY BackStep
<1>2. Back!Spec => []BackInv
  BY BackCorrect
<1> QED BY <1>1, <1>2, PTL DEF Back!Spec, Back!SeenForward

LEMMA BackUsed == ASSUME BackInv PROVE Back!BatchWhole
<1> SUFFICES ASSUME NEW m \in Back!Batches, ~(m.gap > 0)
             PROVE  {s \in made : m.after < s /\ s <= m.upto} \subseteq Back!Range(m.entries)
  BY DEF Back!BatchWhole
<1>1. wire \in Seq(Messages) /\ m \in Back!Range(wire) /\ m.kind = "batch"
  BY DEF BackInv, WireOK, Back!Batches
<1>2. PICK i \in 1 .. Len(wire) : m = wire[i]
  BY <1>1, LenProperties DEF Back!Range
<1> QED BY <1>1, <1>2 DEF BackInv, WireOK, BatchOK

\* A batch that answers resume_from holds every snapshot made since the one the
\* browser named, or says that some are gone, through any number of wraps of a
\* buffer of any size (_handle_resume, RingBuffer.since and gap_ms).
THEOREM BatchesWhole == Spec => []BatchWhole
<1>1. Back!Spec => []BackInv
  BY PartsAssumption, BackCorrect
<1>2. BackInv => BatchWhole
  BY PartsAssumption, BackUsed DEF BatchWhole
<1> QED BY <1>1, <1>2, BackPart, PTL

\* No message takes the screen back in time, however batches and the running
\* telemetry interleave (_broadcast_loop, _handle_resume, onmessage).
THEOREM ScreenForward == Spec => SeenForward
<1>1. Back!Spec => Back!SeenForward
  BY PartsAssumption, BackForward
<1> QED BY <1>1, BackPart, PTL DEF SeenForward

-----------------------------------------------------------------------------
(***************************************************************************)
(* Records: a line of the log is a row's cells, or a header's, up to where *)
(* a cut or the next row ends it; and a line that names its columns has a  *)
(* length that no reader gives them to.  This is LogInv.                   *)
(***************************************************************************)

LEMMA LogPart == Spec => Log!Spec
<1>1. Init => Log!Init
  BY DEF Init
<1>2. [Next]_vars => [Log!Next]_(Log!vars)
  BY DEF Next, vars, OnlyGate, OnlyFollow, OnlyCap, OnlyAudio, OnlyBack, OnlyLog,
         OnlyRig, OnlyFaults, OnlySheets, OnlyBoxed, Log!vars, recordsVars
<1> QED BY <1>1, <1>2, PTL DEF Spec, Log!Spec

Names ==
    {"iso_ts", "seq", "temperature_c", "humidity_pct", "gas_ppm", "motion", "range_cm",
     "ir_left", "ir_right", "pan_angle", "tilt_angle", "fw_state", "uptime_ms", "lat", "lon",
     "gps_fix", "gps_sats", "serial_ok", "ws_clients", "turn_status", "alert_flags",
     "signal_dbm"}
Kinds == {"empty", "number", "flag", "time", "word"}
Texts == (Names \cup Kinds \cup {"cut", "glued"}) \X Int
States == [fix : {0, 1}, at : Place \cup {Log!NoPlace}]

\* Cell, for a GPS state of its own.
CellOf(c, g) ==
    IF c \in {"lat", "lon"}
    THEN IF g.at = Log!NoPlace THEN <<"empty", 0>> ELSE <<"number", Log!Coarse(g.at)>>
    ELSE IF c = "gps_fix" THEN <<"flag", g.fix>>
    ELSE IF c \in Log!Ones \/ (c = "gps_sats" /\ g.fix = 0) THEN <<"flag", 1>>
    ELSE IF c = "iso_ts" THEN <<"time", 0>>
    ELSE IF c \in {"fw_state", "turn_status"} THEN <<"word", 0>>
    ELSE <<"number", Log!NoPlace>>

\* A line up to where it was cut or another one follows: nothing in it that reads
\* as a fix, or a row's cells, of a state that is in its truth.
LineOk(l, t) ==
    \E n \in 0 .. Len(l) :
        /\ \/ n = Len(l)
           \/ n < Len(l) /\ l[n + 1] = <<"glued", 0>>
           \/ n + 1 = Len(l) /\ l[n + 1] = <<"cut", 0>>
        /\ \/ \A i \in 1 .. n : l[i] # <<"flag", 1>>
           \/ \E k \in 1 .. 4, g \in States :
                /\ n <= Len(Log!Layouts[k]) /\ (n < Len(l) => n < Len(Log!Layouts[k]))
                /\ g.fix = 1 => g.at \in t
                /\ \A i \in 1 .. n : l[i] = CellOf(Log!Layouts[k][i], g)

\* A line that names a fix column has a layout's length or one that no line has
\* which could be read by it.
Length(n) == n \in {18, 19} \/ n >= 21

NamesOk(l, whole) ==
    \A p \in DOMAIN l : l[p][1] = "gps_fix" => 13 <= p /\ (whole => Length(Len(l)))

LinesOk(lines, fixes, open) ==
    /\ lines \in Seq(Seq(Texts)) /\ fixes \in Seq(SUBSET Int)
    /\ open \in BOOLEAN /\ (open => lines # <<>>)
    /\ Len(fixes) = Len(lines)
    /\ \A i \in 1 .. Len(lines) :
          /\ lines[i] # <<>>
          /\ LineOk(lines[i], fixes[i])
          /\ NamesOk(lines[i], i # Len(lines) \/ ~open)

LogInv == gps \in States /\ layout \in 1 .. 4 /\ LinesOk(file, truth, torn)

-----------------------------------------------------------------------------
\* Where the columns of the fix are.
LEMMA Places ==
  /\ DOMAIN Log!Layouts = 1 .. 4 /\ Len(Log!Layouts) = 4
  /\ \A k \in 1 .. 4 : Log!Layouts[k] \in Seq(Names)
  /\ DOMAIN Log!Layouts[1] = 1 .. 21 /\ DOMAIN Log!Layouts[2] = 1 .. 19
  /\ DOMAIN Log!Layouts[3] = 1 .. 18 /\ DOMAIN Log!Layouts[4] = 1 .. 19
  /\ Len(Log!Layouts[1]) = 21 /\ Len(Log!Layouts[2]) = 19 /\ Len(Log!Layouts[3]) = 18 /\ Len(Log!Layouts[4]) = 19
  /\ Log!Layouts[1][13] = "uptime_ms" /\ Log!Layouts[2][13] = "lon"
  /\ \A i \in 1 .. 21 : /\ Log!Layouts[1][i] = "lat" <=> i = 14
                        /\ Log!Layouts[1][i] = "lon" <=> i = 15
                        /\ Log!Layouts[1][i] = "gps_fix" <=> i = 16
  /\ \A i \in 1 .. 19 : /\ Log!Layouts[2][i] = "gps_fix" <=> i = 14
  /\ \A i \in 1 .. 18 : /\ Log!Layouts[3][i] = "lat" <=> i = 11
                        /\ Log!Layouts[3][i] = "lon" <=> i = 12
                        /\ Log!Layouts[3][i] = "gps_fix" <=> i = 13
  /\ \A i \in 1 .. 19 : /\ Log!Layouts[4][i] = "lat" <=> i = 11
                        /\ Log!Layouts[4][i] = "lon" <=> i = 12
                        /\ Log!Layouts[4][i] = "gps_fix" <=> i = 13
<1> DEFINE b == Log!Begin
           e == Log!End
           m1 == <<"motion", "range_cm", "ir_left", "ir_right">>
           m2 == <<"motion", "range_cm">>
           m3 == <<"range_cm">>
           s == <<"signal_dbm">>
<1>1. /\ b \in Seq(Names) /\ Len(b) = 5 /\ DOMAIN b = 1 .. 5
      /\ b[1] = "iso_ts" /\ b[2] = "seq" /\ b[3] = "temperature_c" /\ b[4] = "humidity_pct"
      /\ b[5] = "gas_ppm"
  BY DEF Log!Begin, Names
<1>2. /\ e \in Seq(Names) /\ Len(e) = 12 /\ DOMAIN e = 1 .. 12
      /\ e[1] = "pan_angle" /\ e[2] = "tilt_angle" /\ e[3] = "fw_state" /\ e[4] = "uptime_ms"
      /\ e[5] = "lat" /\ e[6] = "lon" /\ e[7] = "gps_fix" /\ e[8] = "gps_sats"
      /\ e[9] = "serial_ok" /\ e[10] = "ws_clients" /\ e[11] = "turn_status"
      /\ e[12] = "alert_flags"
  BY DEF Log!End, Names
<1>3. /\ m1 \in Seq(Names) /\ Len(m1) = 4 /\ m1[1] = "motion" /\ m1[2] = "range_cm"
      /\ m1[3] = "ir_left" /\ m1[4] = "ir_right"
      /\ m2 \in Seq(Names) /\ Len(m2) = 2 /\ m2[1] = "motion" /\ m2[2] = "range_cm"
      /\ m3 \in Seq(Names) /\ Len(m3) = 1 /\ m3[1] = "range_cm"
      /\ s \in Seq(Names) /\ Len(s) = 1 /\ s[1] = "signal_dbm"
  BY DEF Names
<1>4. /\ DOMAIN Log!Layouts = 1 .. 4 /\ Len(Log!Layouts) = 4
  BY DEF Log!Layouts
<1>10. Log!Layouts[1] = b \o m1 \o e
  BY DEF Log!Layouts
<1>11. Log!Layouts[2] = b \o m2 \o e
  BY DEF Log!Layouts
<1>12. Log!Layouts[3] = b \o m3 \o e
  BY DEF Log!Layouts
<1>13. Log!Layouts[4] = b \o m3 \o e \o s
  BY DEF Log!Layouts
<1> HIDE DEF b, e, m1, m2, m3, s
<1> DEFINE n(k) == IF k = 1 THEN 4 ELSE IF k = 2 THEN 2 ELSE 1
           m(k) == IF k = 1 THEN m1 ELSE IF k = 2 THEN m2 ELSE m3
           x == {"lat", "lon", "gps_fix"}
<1>5. ASSUME NEW k \in 1 .. 3
      PROVE  /\ Log!Layouts[k] = b \o m(k) \o e
             /\ m(k) \in Seq(Names) /\ Len(m(k)) = n(k) /\ n(k) \in {1, 2, 4}
             /\ \A i \in 1 .. n(k) : m(k)[i] \notin x
  <2>1. CASE k = 1
    <3>1. \A i \in 1 .. 4 : i = 1 \/ i = 2 \/ i = 3 \/ i = 4
      OBVIOUS
    <3> QED BY <1>3, <1>10, <2>1, <3>1
  <2>2. CASE k = 2
    <3>1. \A i \in 1 .. 2 : i = 1 \/ i = 2
      OBVIOUS
    <3> QED BY <1>3, <1>11, <2>2, <3>1
  <2>3. CASE k = 3
    <3>1. \A i \in 1 .. 1 : i = 1
      OBVIOUS
    <3> QED BY <1>3, <1>12, <2>3, <3>1
  <2> QED BY <2>1, <2>2, <2>3
<1> HIDE DEF n, m
\* A layout's cells by its parts.
<1>6. ASSUME NEW k \in 1 .. 3
      PROVE  /\ Log!Layouts[k] \in Seq(Names) /\ Len(Log!Layouts[k]) = n(k) + 17
             /\ DOMAIN Log!Layouts[k] = 1 .. n(k) + 17
             /\ Log!Layouts[k][n(k) + 9] = "uptime_ms"
             /\ \A i \in 1 .. n(k) + 17 : /\ Log!Layouts[k][i] = "lat" <=> i = n(k) + 10
                                          /\ Log!Layouts[k][i] = "lon" <=> i = n(k) + 11
                                          /\ Log!Layouts[k][i] = "gps_fix" <=> i = n(k) + 12
  <2> DEFINE a == m(k)
             l == n(k)
             c == Log!Layouts[k]
  <2>0. /\ c = b \o a \o e /\ a \in Seq(Names) /\ Len(a) = l /\ l \in {1, 2, 4}
        /\ \A i \in 1 .. l : a[i] \notin x
    BY <1>5
  <2> HIDE DEF a, l, c
  <2>l. l \in Nat /\ e \in Seq(Names) /\ Len(e) = 12 /\ Len(b) = 5
    BY <1>1, <1>2, <2>0
  <2> DEFINE d == b \o a
  <2>1. /\ d \in Seq(Names) /\ Len(d) = Len(b) + Len(a)
        /\ \A i \in 1 .. Len(b) + Len(a) : d[i] = IF i <= Len(b) THEN b[i] ELSE a[i - Len(b)]
    BY <1>1, <2>0, ConcatProperties, ZenonT(30)
  <2>2. /\ c = d \o e /\ Len(d) = 5 + l
        /\ \A i \in 1 .. 5 + l : d[i] = IF i <= 5 THEN b[i] ELSE a[i - 5]
    BY <1>1, <2>0, <2>1
  <2> HIDE DEF d
  <2>3. /\ c \in Seq(Names) /\ Len(c) = Len(d) + Len(e)
        /\ \A i \in 1 .. Len(d) + Len(e) : c[i] = IF i <= Len(d) THEN d[i] ELSE e[i - Len(d)]
    <3>1. d \in Seq(Names) /\ e \in Seq(Names) /\ c = d \o e
      BY <2>l, <2>1, <2>2
    <3>2. /\ d \o e \in Seq(Names) /\ Len(d \o e) = Len(d) + Len(e)
          /\ \A i \in 1 .. Len(d) + Len(e) :
                (d \o e)[i] = IF i <= Len(d) THEN d[i] ELSE e[i - Len(d)]
      BY <3>1, ConcatProperties
    <3> QED BY <3>1, <3>2
  <2>4. /\ Len(c) = l + 17
        /\ \A i \in 1 .. l + 17 : c[i] = IF i <= 5 + l THEN d[i] ELSE e[i - (5 + l)]
    BY <2>l, <2>2, <2>3
  <2>5. DOMAIN c = 1 .. l + 17
    BY <2>3, <2>4, LenProperties
  <2>6. \A i \in 1 .. 5 : c[i] = b[i]
    BY <2>0, <2>2, <2>4
  <2>7. \A i \in 6 .. 5 + l : c[i] = a[i - 5] /\ i - 5 \in 1 .. l
    BY <2>0, <2>2, <2>4
  <2>8. \A i \in 1 .. 12 : c[5 + l + i] = e[i]
    <3> SUFFICES ASSUME NEW i \in 1 .. 12 PROVE c[5 + l + i] = e[i]
      OBVIOUS
    <3> DEFINE j == 5 + l + i
    <3>1. j \in 1 .. l + 17 /\ ~(j <= 5 + l) /\ j - (5 + l) = i
      BY <2>l
    <3> HIDE DEF j
    <3>2. c[j] = e[i]
      BY <2>4, <3>1
    <3> QED BY <3>2 DEF j
  <2>9. \A i \in 1 .. 5 + l : c[i] \notin x
    <3>1. \A i \in 1 .. 5 : i = 1 \/ i = 2 \/ i = 3 \/ i = 4 \/ i = 5
      OBVIOUS
    <3>2. \A i \in 1 .. 5 : c[i] \notin x
      BY <1>1, <2>6, <3>1
    <3>3. \A i \in 6 .. 5 + l : c[i] \notin x
      BY <2>0, <2>7
    <3>4. \A i \in 1 .. 5 + l : i \in 1 .. 5 \/ i \in 6 .. 5 + l
      BY <2>0
    <3> QED BY <3>2, <3>3, <3>4
  <2>10. \A i \in 6 + l .. l + 17 :
           /\ c[i] = "lat" <=> i = l + 10
           /\ c[i] = "lon" <=> i = l + 11
           /\ c[i] = "gps_fix" <=> i = l + 12
    <3> SUFFICES ASSUME NEW j \in 1 .. 12
                 PROVE  /\ c[5 + l + j] = "lat" <=> j = 5
                        /\ c[5 + l + j] = "lon" <=> j = 6
                        /\ c[5 + l + j] = "gps_fix" <=> j = 7
      <4>1. \A i \in 6 + l .. l + 17 : i - (5 + l) \in 1 .. 12 /\ i = 5 + l + (i - (5 + l))
        BY <2>0
      <4>2. \A i \in 6 + l .. l + 17 : /\ i = l + 10 <=> i - (5 + l) = 5
                                       /\ i = l + 11 <=> i - (5 + l) = 6
                                       /\ i = l + 12 <=> i - (5 + l) = 7
        BY <2>l
      <4> QED BY <4>1, <4>2
    <3>1. \/ j = 1 \/ j = 2 \/ j = 3 \/ j = 4 \/ j = 5 \/ j = 6
          \/ j = 7 \/ j = 8 \/ j = 9 \/ j = 10 \/ j = 11 \/ j = 12
      OBVIOUS
    <3>2. c[5 + l + j] = e[j]
      BY <2>8
    <3> QED BY <1>2, <3>1, <3>2
  <2>11. c[l + 9] = "uptime_ms"
    <3>1. c[5 + l + 4] = e[4] /\ 5 + l + 4 = l + 9
      BY <2>8, <2>l
    <3> QED BY <1>2, <3>1
  <2>12. \A i \in 1 .. l + 17 :
           /\ c[i] = "lat" <=> i = l + 10
           /\ c[i] = "lon" <=> i = l + 11
           /\ c[i] = "gps_fix" <=> i = l + 12
    <3>1. \A i \in 1 .. l + 17 : i \in 1 .. 5 + l \/ i \in 6 + l .. l + 17
      BY <2>0
    <3>2. \A i \in 1 .. 5 + l : i # l + 10 /\ i # l + 11 /\ i # l + 12
      BY <2>0
    <3> QED BY <2>9, <2>10, <3>1, <3>2
  <2> QED BY <2>3, <2>4, <2>5, <2>11, <2>12 DEF c, l
<1>7. n(1) = 4 /\ n(2) = 2 /\ n(3) = 1
  BY DEF n
<1> HIDE DEF x
<1>8. /\ Log!Layouts[1] \in Seq(Names) /\ Len(Log!Layouts[1]) = 21 /\ DOMAIN Log!Layouts[1] = 1 .. 21
      /\ Log!Layouts[1][13] = "uptime_ms"
      /\ \A i \in 1 .. 21 : /\ Log!Layouts[1][i] = "lat" <=> i = 14
                            /\ Log!Layouts[1][i] = "lon" <=> i = 15
                            /\ Log!Layouts[1][i] = "gps_fix" <=> i = 16
  <2>1. /\ Log!Layouts[1] \in Seq(Names) /\ Len(Log!Layouts[1]) = n(1) + 17
        /\ DOMAIN Log!Layouts[1] = 1 .. n(1) + 17
        /\ Log!Layouts[1][n(1) + 9] = "uptime_ms"
        /\ \A i \in 1 .. n(1) + 17 : /\ Log!Layouts[1][i] = "lat" <=> i = n(1) + 10
                                     /\ Log!Layouts[1][i] = "lon" <=> i = n(1) + 11
                                     /\ Log!Layouts[1][i] = "gps_fix" <=> i = n(1) + 12
    BY <1>6
  <2> QED BY <2>1 DEF n
<1>9. /\ Log!Layouts[2] \in Seq(Names) /\ Len(Log!Layouts[2]) = 19 /\ DOMAIN Log!Layouts[2] = 1 .. 19
      /\ Log!Layouts[2][13] = "lon"
      /\ \A i \in 1 .. 19 : Log!Layouts[2][i] = "gps_fix" <=> i = 14
  <2>1. /\ Log!Layouts[2] \in Seq(Names) /\ Len(Log!Layouts[2]) = n(2) + 17
        /\ DOMAIN Log!Layouts[2] = 1 .. n(2) + 17
        /\ Log!Layouts[2][n(2) + 9] = "uptime_ms"
        /\ \A i \in 1 .. n(2) + 17 : /\ Log!Layouts[2][i] = "lat" <=> i = n(2) + 10
                                     /\ Log!Layouts[2][i] = "lon" <=> i = n(2) + 11
                                     /\ Log!Layouts[2][i] = "gps_fix" <=> i = n(2) + 12
    BY <1>6
  <2> QED BY <2>1 DEF n
<1>14. /\ Log!Layouts[3] \in Seq(Names) /\ Len(Log!Layouts[3]) = 18 /\ DOMAIN Log!Layouts[3] = 1 .. 18
       /\ \A i \in 1 .. 18 : /\ Log!Layouts[3][i] = "lat" <=> i = 11
                             /\ Log!Layouts[3][i] = "lon" <=> i = 12
                             /\ Log!Layouts[3][i] = "gps_fix" <=> i = 13
  <2>1. /\ Log!Layouts[3] \in Seq(Names) /\ Len(Log!Layouts[3]) = n(3) + 17
        /\ DOMAIN Log!Layouts[3] = 1 .. n(3) + 17
        /\ Log!Layouts[3][n(3) + 9] = "uptime_ms"
        /\ \A i \in 1 .. n(3) + 17 : /\ Log!Layouts[3][i] = "lat" <=> i = n(3) + 10
                                     /\ Log!Layouts[3][i] = "lon" <=> i = n(3) + 11
                                     /\ Log!Layouts[3][i] = "gps_fix" <=> i = n(3) + 12
    BY <1>6
  <2> QED BY <2>1 DEF n
<1>15. /\ Log!Layouts[4] \in Seq(Names) /\ Len(Log!Layouts[4]) = 19 /\ DOMAIN Log!Layouts[4] = 1 .. 19
       /\ \A i \in 1 .. 19 : /\ Log!Layouts[4][i] = "lat" <=> i = 11
                             /\ Log!Layouts[4][i] = "lon" <=> i = 12
                             /\ Log!Layouts[4][i] = "gps_fix" <=> i = 13
  <2> DEFINE c == Log!Layouts[4]
             u == Log!Layouts[3]
  <2>1. c = u \o s /\ u \in Seq(Names) /\ Len(u) = 18
    BY <1>12, <1>13, <1>14
  <2>0. \A i \in 1 .. 18 : /\ u[i] = "lat" <=> i = 11
                           /\ u[i] = "lon" <=> i = 12
                           /\ u[i] = "gps_fix" <=> i = 13
    BY <1>14
  <2> HIDE DEF c, u
  <2>2. /\ c \in Seq(Names) /\ Len(c) = Len(u) + Len(s)
        /\ \A i \in 1 .. Len(u) + Len(s) : c[i] = IF i <= Len(u) THEN u[i] ELSE s[i - Len(u)]
    BY <1>3, <2>1, ConcatProperties, ZenonT(30)
  <2>8. Len(s) = 1
    BY <1>3
  <2>3. Len(c) = 19 /\ (\A i \in 1 .. 18 : c[i] = u[i]) /\ c[19] = s[1]
    <3>5. Len(u) + Len(s) = 19 /\ Len(u) = 18
      BY <2>1, <2>8
    <3>1. \A i \in 1 .. 19 : c[i] = IF i <= 18 THEN u[i] ELSE s[i - 18]
      BY <2>2, <3>5
    <3>2. Len(c) = 19
      BY <2>2, <3>5
    <3>3. \A i \in 1 .. 18 : i \in 1 .. 19 /\ i <= 18
      OBVIOUS
    <3>4. 19 \in 1 .. 19 /\ ~(19 <= 18) /\ 19 - 18 = 1
      OBVIOUS
    <3> QED BY <3>1, <3>2, <3>3, <3>4
  <2>4. DOMAIN c = 1 .. 19
    BY <2>2, <2>3, LenProperties
  <2>5. \A i \in 1 .. 19 : i \in 1 .. 18 \/ i = 19
    OBVIOUS
  <2>6. c[19] \notin {"lat", "lon", "gps_fix"}
    BY <1>3, <2>3
  <2>7. \A i \in 1 .. 19 : /\ c[i] = "lat" <=> i = 11
                           /\ c[i] = "lon" <=> i = 12
                           /\ c[i] = "gps_fix" <=> i = 13
    BY <2>0, <2>3, <2>5, <2>6
  <2> QED BY <2>2, <2>3, <2>4, <2>7 DEF c
<1>16. \A k \in 1 .. 4 : k = 1 \/ k = 2 \/ k = 3 \/ k = 4
  OBVIOUS
<1> QED BY <1>4, <1>8, <1>9, <1>14, <1>15, <1>16

-----------------------------------------------------------------------------
LEMMA AtOne ==
  ASSUME NEW cols, NEW cells, NEW c, NEW q \in Nat,
         q \in DOMAIN cols, q \in DOMAIN cells,
         \A i \in DOMAIN cols : cols[i] = c <=> i = q
  PROVE  Log!At(cols, cells, c) = cells[q]
<1> DEFINE places == {i \in DOMAIN cols \cap DOMAIN cells : cols[i] = c}
<1>1. places = {q}
  OBVIOUS
<1>2. (CHOOSE i \in places : \A j \in places : j <= i) = q
  BY <1>1
<1> QED BY <1>1, <1>2 DEF Log!At

LEMMA AtNone ==
  ASSUME NEW cols, NEW cells, NEW c,
         \A i \in DOMAIN cols \cap DOMAIN cells : cols[i] # c
  PROVE  Log!At(cols, cells, c) = <<"empty", 0>>
<1> QED BY DEF Log!At

\* A fix that is read where a layout has it is that of the row, if the layout has
\* the line's length, or is the one before the last column came.
LEMMA Reading ==
  ASSUME NEW l \in Seq(Texts), NEW t, NEW k \in {1, 3, 4}, LineOk(l, t),
         IF k = 1 THEN Len(l) = 21 ELSE Len(l) \in {18, 19},
         Log!At(Log!Layouts[k], l, "gps_fix") = <<"flag", 1>>,
         Log!At(Log!Layouts[k], l, "lat")[1] \in Log!Numeric
  PROVE  \/ <<"glued", 0>> \in Log!Range(l)
         \/ /\ Log!At(Log!Layouts[k], l, "lon") = Log!At(Log!Layouts[k], l, "lat")
            /\ \E p \in t : Log!At(Log!Layouts[k], l, "lat") = <<"number", Log!Coarse(p)>>
<1> DEFINE q == IF k = 1 THEN 14 ELSE 11
<1>1. Len(l) \in Nat /\ DOMAIN l = 1 .. Len(l)
  BY LenProperties
<1>2. /\ q \in Nat /\ q + 3 <= Len(l)
      /\ Log!At(Log!Layouts[k], l, "lat") = l[q]
      /\ Log!At(Log!Layouts[k], l, "lon") = l[q + 1]
      /\ Log!At(Log!Layouts[k], l, "gps_fix") = l[q + 2]
  <2> DEFINE c == Log!Layouts[k]
  <2>1. q \in Nat /\ q + 3 <= Len(l)
    BY <1>1
  <2>2. /\ q \in DOMAIN c /\ q + 1 \in DOMAIN c /\ q + 2 \in DOMAIN c
        /\ \A i \in DOMAIN c : /\ c[i] = "lat" <=> i = q
                               /\ c[i] = "lon" <=> i = q + 1
                               /\ c[i] = "gps_fix" <=> i = q + 2
    <3> DEFINE P(j, x) == /\ x \in DOMAIN Log!Layouts[j] /\ x + 1 \in DOMAIN Log!Layouts[j]
                          /\ x + 2 \in DOMAIN Log!Layouts[j]
                          /\ \A i \in DOMAIN Log!Layouts[j] :
                                /\ Log!Layouts[j][i] = "lat" <=> i = x
                                /\ Log!Layouts[j][i] = "lon" <=> i = x + 1
                                /\ Log!Layouts[j][i] = "gps_fix" <=> i = x + 2
    <3>1. P(1, 14)
      <4>1. DOMAIN Log!Layouts[1] = 1 .. 21
        BY Places
      <4>2. \A i \in 1 .. 21 : /\ Log!Layouts[1][i] = "lat" <=> i = 14
                               /\ Log!Layouts[1][i] = "lon" <=> i = 15
                               /\ Log!Layouts[1][i] = "gps_fix" <=> i = 16
        BY Places
      <4> QED BY <4>1, <4>2
    <3>2. P(3, 11)
      <4>1. DOMAIN Log!Layouts[3] = 1 .. 18
        BY Places
      <4>2. \A i \in 1 .. 18 : /\ Log!Layouts[3][i] = "lat" <=> i = 11
                               /\ Log!Layouts[3][i] = "lon" <=> i = 12
                               /\ Log!Layouts[3][i] = "gps_fix" <=> i = 13
        BY Places
      <4> QED BY <4>1, <4>2
    <3>3. P(4, 11)
      <4>1. DOMAIN Log!Layouts[4] = 1 .. 19
        BY Places
      <4>2. \A i \in 1 .. 19 : /\ Log!Layouts[4][i] = "lat" <=> i = 11
                               /\ Log!Layouts[4][i] = "lon" <=> i = 12
                               /\ Log!Layouts[4][i] = "gps_fix" <=> i = 13
        BY Places
      <4> QED BY <4>1, <4>2
    <3> HIDE DEF P
    <3>4. P(k, q)
      BY <3>1, <3>2, <3>3
    <3> QED BY <3>4 DEF P
  <2>3. q \in DOMAIN l /\ q + 1 \in DOMAIN l /\ q + 2 \in DOMAIN l
    BY <1>1, <2>1
  <2> HIDE DEF q, c
  <2>4. Log!At(c, l, "lat") = l[q]
    BY <2>1, <2>2, <2>3, AtOne
  <2>5. Log!At(c, l, "lon") = l[q + 1]
    <3>1. q + 1 \in Nat
      BY <2>1
    <3> QED BY <3>1, <2>2, <2>3, AtOne
  <2>6. Log!At(c, l, "gps_fix") = l[q + 2]
    <3>1. q + 2 \in Nat
      BY <2>1
    <3> QED BY <3>1, <2>2, <2>3, AtOne
  <2> QED BY <2>1, <2>4, <2>5, <2>6 DEF c
<1>3. PICK n \in 0 .. Len(l) :
        /\ \/ n = Len(l)
           \/ n < Len(l) /\ l[n + 1] = <<"glued", 0>>
           \/ n + 1 = Len(l) /\ l[n + 1] = <<"cut", 0>>
        /\ \/ \A i \in 1 .. n : l[i] # <<"flag", 1>>
           \/ \E j \in 1 .. 4, g \in States :
                /\ n <= Len(Log!Layouts[j]) /\ (n < Len(l) => n < Len(Log!Layouts[j]))
                /\ g.fix = 1 => g.at \in t
                /\ \A i \in 1 .. n : l[i] = CellOf(Log!Layouts[j][i], g)
  BY DEF LineOk
<1>4. CASE n < Len(l) /\ l[n + 1] = <<"glued", 0>>
  <2>1. n + 1 \in DOMAIN l
    BY <1>1, <1>4
  <2> QED BY <1>4, <2>1 DEF Log!Range
<1>5. CASE Len(l) <= n + 1
  <2>1. /\ q \in 1 .. n /\ q + 1 \in 1 .. n /\ q + 2 \in 1 .. n
    BY <1>1, <1>2, <1>5
  <2>2. PICK j \in 1 .. 4, g \in States :
                /\ n <= Len(Log!Layouts[j]) /\ (g.fix = 1 => g.at \in t)
                /\ \A i \in 1 .. n : l[i] = CellOf(Log!Layouts[j][i], g)
    BY <1>2, <1>3, <2>1
  <2>3. /\ CellOf(Log!Layouts[j][q], g)[1] \in Log!Numeric
        /\ CellOf(Log!Layouts[j][q + 2], g) = <<"flag", 1>>
        /\ l[q] = CellOf(Log!Layouts[j][q], g)
        /\ l[q + 1] = CellOf(Log!Layouts[j][q + 1], g)
    BY <1>2, <2>1, <2>2
  <2>4. /\ Log!Layouts[j][q] = "lat" /\ Log!Layouts[j][q + 1] = "lon"
        /\ Log!Layouts[j][q + 2] = "gps_fix"
    <3>1. CASE k = 1
      <4>7. n \in 0 .. Len(l) /\ Len(l) = 21 /\ Len(l) <= n + 1
        BY <1>5, <3>1
      <4>0. n \in {20, 21} /\ q = 14
        BY <3>1, <4>7
      <4>4. j = 1 \/ j = 2 \/ j = 3 \/ j = 4
        OBVIOUS
      <4>5. n <= Len(Log!Layouts[j])
        BY <2>2
      <4>6. Len(Log!Layouts[2]) = 19 /\ Len(Log!Layouts[3]) = 18 /\ Len(Log!Layouts[4]) = 19
        BY Places
      <4>8. j # 2
        <5> SUFFICES ASSUME j = 2 PROVE FALSE
          OBVIOUS
        <5>1. n <= 19
          BY <4>5, <4>6
        <5>2. n \in {20, 21}
          BY <4>0
        <5> QED BY <5>1, <5>2
      <4>9. j # 3
        <5> SUFFICES ASSUME j = 3 PROVE FALSE
          OBVIOUS
        <5>1. n <= 18
          BY <4>5, <4>6
        <5>2. n \in {20, 21}
          BY <4>0
        <5> QED BY <5>1, <5>2
      <4>10. j # 4
        <5> SUFFICES ASSUME j = 4 PROVE FALSE
          OBVIOUS
        <5>1. n <= 19
          BY <4>5, <4>6
        <5>2. n \in {20, 21}
          BY <4>0
        <5> QED BY <5>1, <5>2
      <4>1. j = 1
        BY <4>4, <4>8, <4>9, <4>10
      <4>2. \A i \in 1 .. 21 : /\ Log!Layouts[1][i] = "lat" <=> i = 14
                               /\ Log!Layouts[1][i] = "lon" <=> i = 15
                               /\ Log!Layouts[1][i] = "gps_fix" <=> i = 16
        BY Places
      <4>3. 14 \in 1 .. 21 /\ 15 \in 1 .. 21 /\ 16 \in 1 .. 21
        OBVIOUS
      <4> QED BY <4>0, <4>1, <4>2, <4>3
    <3>2. CASE k # 1
      <4>1. q = 11 /\ CellOf(Log!Layouts[j][13], g) = <<"flag", 1>>
        BY <2>3, <3>2
      <4>2. j # 1
        <5>1. CellOf("uptime_ms", g) = <<"number", Log!NoPlace>>
          BY DEF CellOf, Log!Ones
        <5>2. Log!Layouts[1][13] = "uptime_ms"
          BY Places
        <5> QED BY <4>1, <5>1, <5>2
      <4>3. j # 2
        <5>1. CellOf("lon", g)[1] \in {"empty", "number"}
          BY DEF CellOf
        <5>2. Log!Layouts[2][13] = "lon"
          BY Places
        <5> QED BY <4>1, <5>1, <5>2
      <4>4. j \in {3, 4}
        BY <4>2, <4>3
      <4>5. 11 \in 1 .. 18 /\ 12 \in 1 .. 18 /\ 13 \in 1 .. 18
        OBVIOUS
      <4>6. \A i \in 1 .. 18 : /\ Log!Layouts[3][i] = "lat" <=> i = 11
                               /\ Log!Layouts[3][i] = "lon" <=> i = 12
                               /\ Log!Layouts[3][i] = "gps_fix" <=> i = 13
        BY Places
      <4>7. \A i \in 1 .. 19 : /\ Log!Layouts[4][i] = "lat" <=> i = 11
                               /\ Log!Layouts[4][i] = "lon" <=> i = 12
                               /\ Log!Layouts[4][i] = "gps_fix" <=> i = 13
        BY Places
      <4>8. 11 \in 1 .. 19 /\ 12 \in 1 .. 19 /\ 13 \in 1 .. 19 /\ q + 1 = 12 /\ q + 2 = 13
        BY <4>1
      <4>9. CASE j = 3
        BY <4>1, <4>5, <4>6, <4>8, <4>9
      <4>10. CASE j = 4
        BY <4>1, <4>7, <4>8, <4>10
      <4> QED BY <4>4, <4>9, <4>10
    <3> QED BY <3>1, <3>2
  <2>5. g.fix = 1
    BY <2>3, <2>4 DEF CellOf
  <2>6. g.at # Log!NoPlace /\ l[q] = <<"number", Log!Coarse(g.at)>> /\ l[q + 1] = l[q]
    BY <2>3, <2>4 DEF CellOf, Log!Numeric
  <2> QED BY <1>2, <2>2, <2>5, <2>6
<1>6. n = Len(l) \/ n + 1 = Len(l) => Len(l) <= n + 1
  <2>1. Len(l) \in Nat
    BY <1>1
  <2> QED BY <2>1
<1> QED BY <1>3, <1>4, <1>5, <1>6, ZenonT(30)

-----------------------------------------------------------------------------
LEMMA Replaced ==
  ASSUME NEW S, NEW s \in Seq(S), s # <<>>, NEW x \in S
  PROVE  /\ [s EXCEPT ![Len(s)] = x] \in Seq(S) /\ [s EXCEPT ![Len(s)] = x] # <<>>
         /\ Len([s EXCEPT ![Len(s)] = x]) = Len(s) /\ Len(s) \in 1 .. Len(s)
         /\ [s EXCEPT ![Len(s)] = x][Len(s)] = x
         /\ \A i \in 1 .. Len(s) : i # Len(s) => [s EXCEPT ![Len(s)] = x][i] = s[i]
<1> DEFINE e == Len(s)
           m == [s EXCEPT ![e] = x]
<1>1. e \in Nat \ {0} /\ DOMAIN s = 1 .. e
  BY EmptySeq, LenProperties
<1>2. e \in 1 .. e
  <2> HIDE DEF e
  <2> QED BY <1>1
<1>3. m \in Seq(S) /\ Len(m) = e
  <2>1. \A i \in 1 .. Len(s) : /\ [s EXCEPT ![i] = x] \in Seq(S)
                              /\ Len([s EXCEPT ![i] = x]) = Len(s)
    BY ExceptSeq
  <2> QED BY <1>2, <2>1, ZenonT(30)
<1>4. m[e] = x /\ \A i \in 1 .. e : i # e => m[i] = s[i]
  BY <1>1, <1>2, ZenonT(30)
<1>5. m # <<>>
  BY <1>1, <1>3, EmptySeq
<1> QED BY <1>2, <1>3, <1>4, <1>5, ZenonT(30)

\* The last line of a file comes to be another one, or one is added.
LEMMA LastChanges ==
  ASSUME NEW lines, NEW fixes, NEW open, LinesOk(lines, fixes, open), lines # <<>>,
         NEW l \in Seq(Texts), l # <<>>, NEW now \in BOOLEAN,
         NEW given \in Seq(SUBSET Int), Len(given) = Len(fixes),
         \A i \in 1 .. Len(lines) : i # Len(lines) => given[i] = fixes[i],
         LineOk(l, given[Len(lines)]), NamesOk(l, ~now)
  PROVE  LinesOk([lines EXCEPT ![Len(lines)] = l], given, now)
<1> DEFINE m == [lines EXCEPT ![Len(lines)] = l]
           e == Len(lines)
<1>0. /\ lines \in Seq(Seq(Texts)) /\ Len(fixes) = Len(lines)
      /\ \A i \in 1 .. Len(lines) :
          /\ lines[i] # <<>>
          /\ LineOk(lines[i], fixes[i])
          /\ NamesOk(lines[i], i # Len(lines) \/ ~open)
  BY Zenon DEF LinesOk
<1>1. lines \in Seq(Seq(Texts)) /\ lines # <<>> /\ l \in Seq(Texts)
  BY <1>0, Zenon
<1>3. /\ m \in Seq(Seq(Texts)) /\ Len(m) = e /\ m # <<>> /\ e \in 1 .. e
      /\ m[e] = l /\ \A i \in 1 .. e : i # e => m[i] = lines[i]
  <2>1. /\ [lines EXCEPT ![Len(lines)] = l] \in Seq(Seq(Texts))
        /\ [lines EXCEPT ![Len(lines)] = l] # <<>>
        /\ Len([lines EXCEPT ![Len(lines)] = l]) = Len(lines)
        /\ Len(lines) \in 1 .. Len(lines)
        /\ [lines EXCEPT ![Len(lines)] = l][Len(lines)] = l
        /\ \A i \in 1 .. Len(lines) :
              i # Len(lines) => [lines EXCEPT ![Len(lines)] = l][i] = lines[i]
    BY <1>1, Replaced
  <2> QED BY <2>1, Zenon
<1> HIDE DEF m
<1>5. \A i \in 1 .. Len(m) : /\ m[i] # <<>>
                             /\ LineOk(m[i], given[i])
                             /\ NamesOk(m[i], i # Len(m) \/ ~now)
  <2> SUFFICES ASSUME NEW i \in 1 .. e
               PROVE  m[i] # <<>> /\ LineOk(m[i], given[i]) /\ NamesOk(m[i], i # e \/ ~now)
    BY <1>3, Zenon
  <2>1. CASE i = e
    <3>1. NamesOk(m[i], ~now)
      BY <1>3, <2>1
    <3>2. (i # e \/ ~now) <=> ~now
      BY <2>1
    <3>3. NamesOk(m[i], i # e \/ ~now)
      BY <3>1, <3>2 DEF NamesOk
    <3> QED BY <1>3, <2>1, <3>3
  <2>2. CASE i # e
    <3>1. NamesOk(lines[i], i # e \/ ~open)
      BY <1>0
    <3>2. NamesOk(lines[i], i # e \/ ~now)
      BY <2>2, <3>1 DEF NamesOk
    <3>3. given[i] = fixes[i] /\ m[i] = lines[i]
      BY <1>3, <2>2, Zenon
    <3> QED BY <1>0, <3>2, <3>3, Zenon
  <2> QED BY <2>1, <2>2
<1>7. Len(given) = Len(m)
  BY <1>0, <1>3
<1>8. LinesOk(m, given, now)
  BY <1>3, <1>5, <1>7 DEF LinesOk
<1> QED BY <1>8 DEF m

LEMMA LineAdded ==
  ASSUME NEW lines, NEW fixes, LinesOk(lines, fixes, FALSE),
         NEW l \in Seq(Texts), l # <<>>, NEW t \in SUBSET Int,
         LineOk(l, t), NamesOk(l, TRUE)
  PROVE  LinesOk(Append(lines, l), Append(fixes, t), FALSE)
<1> DEFINE m == Append(lines, l)
           v == Append(fixes, t)
           e == Len(lines)
<1>0. /\ lines \in Seq(Seq(Texts)) /\ fixes \in Seq(SUBSET Int) /\ Len(fixes) = e
      /\ \A i \in 1 .. Len(lines) :
          /\ lines[i] # <<>>
          /\ LineOk(lines[i], fixes[i])
          /\ NamesOk(lines[i], i # Len(lines) \/ ~FALSE)
  BY DEF LinesOk
<1>1. /\ m \in Seq(Seq(Texts)) /\ Len(m) = e + 1 /\ e \in Nat
      /\ m[e + 1] = l /\ \A i \in 1 .. e : m[i] = lines[i]
  BY <1>0, AppendProperties, LenProperties
<1>2. /\ v \in Seq(SUBSET Int) /\ Len(v) = e + 1
      /\ v[e + 1] = t /\ \A i \in 1 .. e : v[i] = fixes[i]
  BY <1>0, AppendProperties, LenProperties
<1> HIDE DEF m, v
<1>3. ASSUME NEW i \in 1 .. e + 1
      PROVE  m[i] # <<>> /\ LineOk(m[i], v[i]) /\ NamesOk(m[i], TRUE)
  <2>1. CASE i = e + 1
    BY <1>1, <1>2, <2>1
  <2>2. CASE i # e + 1
    <3>1. i \in 1 .. e
      BY <1>1, <2>2
    <3>2. NamesOk(lines[i], i # Len(lines) \/ ~FALSE)
      BY <1>0, <3>1
    <3>3. NamesOk(lines[i], TRUE)
      BY <3>2 DEF NamesOk
    <3> QED BY <1>0, <1>1, <1>2, <3>1, <3>3
  <2> QED BY <2>1, <2>2
<1>4. \A i \in 1 .. Len(m) : NamesOk(m[i], i # Len(m) \/ ~FALSE)
  <2> SUFFICES ASSUME NEW i \in 1 .. e + 1
               PROVE  NamesOk(m[i], i # Len(m) \/ ~FALSE)
    BY <1>1
  <2>1. NamesOk(m[i], TRUE)
    BY <1>3
  <2> QED BY <2>1 DEF NamesOk
<1>5. LinesOk(m, v, FALSE)
  BY <1>1, <1>2, <1>3, <1>4 DEF LinesOk
<1> QED BY <1>5 DEF m, v

\* What is written after a line that was cut short.
LEMMA Glued ==
  ASSUME NEW l \in Seq(Texts), l # <<>>, NEW t, LineOk(l, t), NamesOk(l, FALSE),
         NEW r \in Seq(Texts), Len(r) >= 18, \A i \in 1 .. Len(r) : r[i][1] # "gps_fix",
         NEW u, t \subseteq u
  PROVE  LET g == SubSeq(l, 1, Len(l) - 1) \o <<<<"glued", 0>>>> \o Tail(r)
         IN  g \in Seq(Texts) /\ g # <<>> /\ LineOk(g, u) /\ NamesOk(g, TRUE)
<1> DEFINE f == SubSeq(l, 1, Len(l) - 1)
           m == <<<<"glued", 0>>>>
           v == Tail(r)
           d == f \o m
           g == d \o v
           L == Len(l)
           R == Len(r)
<1>0. L \in Nat \ {0} /\ R \in Nat /\ R >= 18 /\ r # <<>> /\ DOMAIN l = 1 .. L
  BY EmptySeq, LenProperties
<1>1. f \in Seq(Texts) /\ Len(f) = L - 1 /\ \A i \in 1 .. L - 1 : f[i] = l[i]
  <2>1. \A i \in 1 .. L - 1 : l[i] \in Texts
    BY <1>0, ElementOfSeq
  <2>2. 1 \in Int /\ L - 1 \in Int
    BY <1>0
  <2> HIDE DEF L
  <2>3. /\ SubSeq(l, 1, L - 1) \in Seq(Texts)
        /\ Len(SubSeq(l, 1, L - 1)) = IF 1 <= L - 1 THEN (L - 1) - 1 + 1 ELSE 0
        /\ \A i \in 1 .. (L - 1) - 1 + 1 : SubSeq(l, 1, L - 1)[i] = l[1 + i - 1]
    BY <2>1, <2>2, SubSeqProperties
  <2>4. f = SubSeq(l, 1, L - 1)
    BY DEF L
  <2> HIDE DEF f
  <2> QED BY <1>0, <2>3, <2>4
<1>2. m \in Seq(Texts) /\ Len(m) = 1 /\ m[1] = <<"glued", 0>>
  BY DEF Texts
<1>3. v \in Seq(Texts) /\ Len(v) = R - 1 /\ \A i \in 1 .. R - 1 : v[i] = r[i + 1]
  BY <1>0, HeadTailProperties
<1> HIDE DEF L, R, f, m, v
<1>4. /\ d \in Seq(Texts) /\ Len(d) = L /\ d[L] = <<"glued", 0>>
      /\ \A i \in 1 .. L - 1 : d[i] = l[i]
  <2>1. /\ d \in Seq(Texts) /\ Len(d) = Len(f) + Len(m)
        /\ \A i \in 1 .. Len(f) + Len(m) : d[i] = IF i <= Len(f) THEN f[i] ELSE m[i - Len(f)]
    <3>1. f \in Seq(Texts) /\ m \in Seq(Texts)
      BY <1>1, <1>2
    <3> QED BY <3>1, ConcatProperties
  <2> HIDE DEF d
  <2>2. Len(f) = L - 1 /\ Len(m) = 1 /\ Len(f) + Len(m) = L
    BY <1>0, <1>1, <1>2
  <2>3. \A i \in 1 .. L : d[i] = IF i <= L - 1 THEN f[i] ELSE m[i - (L - 1)]
    BY <2>1, <2>2
  <2>4. L \in 1 .. L /\ ~(L <= L - 1) /\ L - (L - 1) = 1
    BY <1>0
  <2> QED BY <1>0, <1>1, <1>2, <2>1, <2>2, <2>3, <2>4
<1> HIDE DEF d
<1>5. /\ g \in Seq(Texts) /\ Len(g) = L + R - 1 /\ DOMAIN g = 1 .. L + R - 1
      /\ g[L] = <<"glued", 0>>
      /\ \A i \in 1 .. L - 1 : g[i] = l[i]
      /\ \A i \in L + 1 .. L + R - 1 : \E j \in 1 .. R : g[i] = r[j]
  <2>1. /\ g \in Seq(Texts) /\ Len(g) = Len(d) + Len(v)
        /\ \A i \in 1 .. Len(d) + Len(v) : g[i] = IF i <= Len(d) THEN d[i] ELSE v[i - Len(d)]
    <3>1. d \in Seq(Texts) /\ v \in Seq(Texts)
      BY <1>3, <1>4
    <3> QED BY <3>1, ConcatProperties
  <2> HIDE DEF g
  <2>2. DOMAIN g = 1 .. Len(g)
    BY <2>1, LenProperties
  <2>3. Len(d) = L /\ Len(v) = R - 1 /\ Len(d) + Len(v) = L + R - 1
    BY <1>0, <1>3, <1>4
  <2>4. \A i \in 1 .. L + R - 1 : g[i] = IF i <= L THEN d[i] ELSE v[i - L]
    BY <2>1, <2>3
  <2>5. L \in 1 .. L + R - 1 /\ L <= L /\ \A i \in 1 .. L - 1 : i \in 1 .. L + R - 1 /\ i <= L
    BY <1>0
  <2>6. ASSUME NEW i \in L + 1 .. L + R - 1
        PROVE  \E j \in 1 .. R : g[i] = r[j]
    <3>1. i \in 1 .. L + R - 1 /\ ~(i <= L) /\ i - L \in 1 .. R - 1 /\ i - L + 1 \in 1 .. R
      BY <1>0
    <3>2. g[i] = v[i - L]
      BY <2>4, <3>1
    <3>3. v[i - L] = r[i - L + 1]
      BY <1>3, <3>1
    <3> QED BY <3>1, <3>2, <3>3
  <2> QED BY <1>4, <2>1, <2>2, <2>3, <2>4, <2>5, <2>6
<1> HIDE DEF g
<1>6. LineOk(g, u)
  <2>1. PICK n \in 0 .. L :
        /\ \/ n = L
           \/ n < L /\ l[n + 1] = <<"glued", 0>>
           \/ n + 1 = L /\ l[n + 1] = <<"cut", 0>>
        /\ \/ \A i \in 1 .. n : l[i] # <<"flag", 1>>
           \/ \E k \in 1 .. 4, s \in States :
                /\ n <= Len(Log!Layouts[k]) /\ (n < L => n < Len(Log!Layouts[k]))
                /\ s.fix = 1 => s.at \in t
                /\ \A i \in 1 .. n : l[i] = CellOf(Log!Layouts[k][i], s)
    BY DEF LineOk, L
  <2>2. PICK a \in 0 .. L - 1 : a <= n /\ g[a + 1] = <<"glued", 0>> /\ (n = L => a < n)
    <3>1. CASE n < L /\ n + 1 # L
      <4>1. n \in 0 .. L - 1 /\ n + 1 \in 1 .. L - 1
        BY <1>0, <3>1
      <4>2. l[n + 1] = <<"glued", 0>>
        BY <2>1, <3>1, <1>0
      <4>3. n \in 0 .. L - 1 /\ n <= n /\ n # L
        BY <4>1, <3>1
      <4>4. g[n + 1] = <<"glued", 0>>
        BY <1>5, <4>1, <4>2
      <4> QED BY <4>3, <4>4
    <3>2. CASE ~(n < L /\ n + 1 # L)
      <4>1. L - 1 \in 0 .. L - 1 /\ L - 1 <= n /\ L - 1 + 1 = L /\ (n = L => L - 1 < n)
        BY <1>0, <3>2
      <4> QED BY <1>5, <4>1
    <3> QED BY <3>1, <3>2
  <2>3. \A i \in 1 .. a : i \in 1 .. n /\ g[i] = l[i]
    BY <1>0, <1>5, <2>2
  <2>4. a \in 0 .. Len(g) /\ a < Len(g)
    BY <1>0, <1>5
  <2>5. CASE \A i \in 1 .. n : l[i] # <<"flag", 1>>
    <3>1. \A i \in 1 .. a : g[i] # <<"flag", 1>>
      BY <2>3, <2>5
    <3> QED BY <2>2, <2>4, <3>1 DEF LineOk
  <2>6. CASE ~\A i \in 1 .. n : l[i] # <<"flag", 1>>
    <3>1. PICK k \in 1 .. 4, s \in States :
                /\ n <= Len(Log!Layouts[k]) /\ (n < L => n < Len(Log!Layouts[k]))
                /\ s.fix = 1 => s.at \in t
                /\ \A i \in 1 .. n : l[i] = CellOf(Log!Layouts[k][i], s)
      BY <2>1, <2>6
    <3>2. Len(Log!Layouts[k]) \in Nat
      BY Places, LenProperties
    <3>3. a <= Len(Log!Layouts[k]) /\ a < Len(Log!Layouts[k])
      BY <1>0, <2>2, <3>1, <3>2
    <3>4. \A i \in 1 .. a : g[i] = CellOf(Log!Layouts[k][i], s)
      BY <2>3, <3>1
    <3>5. s.fix = 1 => s.at \in u
      BY <3>1
    <3>6. \E b \in 1 .. 4, o \in States :
             /\ a <= Len(Log!Layouts[b]) /\ (a < Len(g) => a < Len(Log!Layouts[b]))
             /\ o.fix = 1 => o.at \in u
             /\ \A i \in 1 .. a : g[i] = CellOf(Log!Layouts[b][i], o)
      BY <3>3, <3>4, <3>5
    <3> QED BY <2>2, <2>4, <3>6 DEF LineOk
  <2> QED BY <2>5, <2>6
<1>7. NamesOk(g, TRUE)
  <2> SUFFICES ASSUME NEW p \in 1 .. L + R - 1, g[p][1] = "gps_fix"
               PROVE  13 <= p /\ Length(Len(g))
    BY <1>5 DEF NamesOk
  <2>1. p # L
    BY <1>5
  <2>2. ~(p \in L + 1 .. L + R - 1)
    <3>1. \A j \in 1 .. R : r[j][1] # "gps_fix"
      BY DEF R
    <3> QED BY <1>5, <3>1
  <2>3. p \in 1 .. L - 1
    <3>1. \A a, b, c \in Nat : /\ a \in 1 .. b + c - 1 /\ a # b
                               /\ ~(a \in b + 1 .. b + c - 1)
                               => a \in 1 .. b - 1
      OBVIOUS
    <3> QED BY <1>0, <2>1, <2>2, <3>1
  <2>4. l[p][1] = "gps_fix" /\ p \in DOMAIN l
    BY <1>0, <1>5, <2>3
  <2>5. 13 <= p
    BY <2>4 DEF NamesOk
  <2>6. Len(g) >= 21
    BY <1>0, <1>5, <2>3, <2>5
  <2> QED BY <2>5, <2>6 DEF Length
<1>8. g # <<>>
  BY <1>0, <1>5, EmptySeq
<1> QED BY <1>5, <1>6, <1>7, <1>8 DEF g, d, f, m, v

\* What a power cut leaves of a line.
LEMMA CutShort ==
  ASSUME NEW l \in Seq(Texts), NEW t, LineOk(l, t), NamesOk(l, TRUE),
         NEW kept \in 1 .. Len(l)
  PROVE  LET g == SubSeq(l, 1, kept - 1)
                    \o <<IF kept = Len(l) THEN l[kept] ELSE <<"cut", 0>>>>
         IN  g \in Seq(Texts) /\ g # <<>> /\ LineOk(g, t) /\ NamesOk(g, FALSE)
<1> DEFINE f == SubSeq(l, 1, kept - 1)
           x == IF kept = Len(l) THEN l[kept] ELSE <<"cut", 0>>
           m == <<x>>
           g == f \o m
           L == Len(l)
<1>0. L \in Nat /\ kept \in Nat /\ 1 <= kept /\ kept <= L /\ DOMAIN l = 1 .. L
  BY LenProperties
<1>1. f \in Seq(Texts) /\ Len(f) = kept - 1 /\ \A i \in 1 .. kept - 1 : f[i] = l[i]
  <2>0. \A i \in 1 .. kept - 1 : i \in 1 .. L
    BY <1>0
  <2>1. \A i \in 1 .. kept - 1 : l[i] \in Texts
    BY <2>0, ElementOfSeq
  <2>2. 1 \in Int /\ kept - 1 \in Int
    BY <1>0
  <2>3. /\ SubSeq(l, 1, kept - 1) \in Seq(Texts)
        /\ Len(SubSeq(l, 1, kept - 1)) = IF 1 <= kept - 1 THEN (kept - 1) - 1 + 1 ELSE 0
        /\ \A i \in 1 .. (kept - 1) - 1 + 1 : SubSeq(l, 1, kept - 1)[i] = l[1 + i - 1]
    BY <2>1, <2>2, SubSeqProperties
  <2> HIDE DEF L
  <2>4. f = SubSeq(l, 1, kept - 1)
    OBVIOUS
  <2> HIDE DEF f
  <2> QED BY <1>0, <2>3, <2>4
<1>2. x \in Texts /\ (kept = L => x = l[kept]) /\ (kept # L => x = <<"cut", 0>>)
  <2>1. l[kept] \in Texts
    BY ElementOfSeq
  <2>2. <<"cut", 0>> \in Texts
    BY DEF Texts
  <2> QED BY <2>1, <2>2
<1> HIDE DEF x
<1>3. m \in Seq(Texts) /\ Len(m) = 1 /\ m[1] = x
  BY <1>2
<1> HIDE DEF L, f, m
<1>4. /\ g \in Seq(Texts) /\ Len(g) = kept /\ DOMAIN g = 1 .. kept /\ g[kept] = x
      /\ \A i \in 1 .. kept - 1 : g[i] = l[i]
  <2>1. /\ g \in Seq(Texts) /\ Len(g) = Len(f) + Len(m)
        /\ \A i \in 1 .. Len(f) + Len(m) : g[i] = IF i <= Len(f) THEN f[i] ELSE m[i - Len(f)]
    <3>1. f \in Seq(Texts) /\ m \in Seq(Texts)
      BY <1>1, <1>3
    <3> QED BY <3>1, ConcatProperties
  <2> HIDE DEF g
  <2>2. Len(f) = kept - 1 /\ Len(m) = 1 /\ Len(f) + Len(m) = kept
    BY <1>0, <1>1, <1>3
  <2>3. \A i \in 1 .. kept : g[i] = IF i <= kept - 1 THEN f[i] ELSE m[i - (kept - 1)]
    BY <2>1, <2>2
  <2>4. kept \in 1 .. kept /\ ~(kept <= kept - 1) /\ kept - (kept - 1) = 1
    BY <1>0
  <2>5. DOMAIN g = 1 .. Len(g)
    BY <2>1, LenProperties
  <2> QED BY <1>0, <1>1, <1>3, <2>1, <2>2, <2>3, <2>4, <2>5
<1> HIDE DEF g
<1>5. \A i \in 1 .. kept : i \in 1 .. kept - 1 \/ i = kept
  BY <1>0
<1>6. LineOk(g, t)
  <2>1. PICK n \in 0 .. L :
        /\ \/ n = L
           \/ n < L /\ l[n + 1] = <<"glued", 0>>
           \/ n + 1 = L /\ l[n + 1] = <<"cut", 0>>
        /\ \/ \A i \in 1 .. n : l[i] # <<"flag", 1>>
           \/ \E k \in 1 .. 4, s \in States :
                /\ n <= Len(Log!Layouts[k]) /\ (n < L => n < Len(Log!Layouts[k]))
                /\ s.fix = 1 => s.at \in t
                /\ \A i \in 1 .. n : l[i] = CellOf(Log!Layouts[k][i], s)
    BY DEF LineOk, L
  <2>2. PICK a \in 0 .. kept :
          /\ a <= n /\ (a < kept => a < n \/ n < L)
          /\ \A i \in 1 .. a : g[i] = l[i]
          /\ \/ a = kept
             \/ a < kept /\ g[a + 1] = <<"glued", 0>>
             \/ a + 1 = kept /\ g[a + 1] = <<"cut", 0>>
    <3>0. n \in Nat /\ n <= L
      BY <1>0
    <3>1. CASE kept = L
      <4>1. \A i \in 1 .. kept : g[i] = l[i]
        BY <1>2, <1>4, <1>5, <3>1
      <4>2. n < L => g[n + 1] = l[n + 1]
        <5>1. n < L => n + 1 \in 1 .. kept
          BY <1>0, <3>0, <3>1
        <5> QED BY <4>1, <5>1
      <4>3. n \in 0 .. kept /\ n <= n /\ (n < kept => n < L) /\ (n + 1 = L => n < L)
        BY <1>0, <3>0, <3>1
      <4>4. \A i \in 1 .. n : i \in 1 .. kept
        BY <1>0, <3>0, <3>1
      <4> QED BY <2>1, <3>1, <4>1, <4>2, <4>3, <4>4
    <3>2. CASE kept # L /\ n < kept - 1
      <4>1. n \in 0 .. kept /\ n <= n /\ n < kept /\ n < L /\ n + 1 # L /\ n # L
            /\ n + 1 \in 1 .. kept - 1
        BY <1>0, <3>0, <3>2
      <4>2. g[n + 1] = <<"glued", 0>>
        BY <1>4, <2>1, <4>1
      <4>3. \A i \in 1 .. n : i \in 1 .. kept - 1
        BY <1>0, <3>0, <3>2
      <4> QED BY <1>4, <4>1, <4>2, <4>3
    <3>3. CASE kept # L /\ ~(n < kept - 1)
      <4>1. /\ kept - 1 \in 0 .. kept /\ kept - 1 <= n /\ kept - 1 + 1 = kept
            /\ (kept - 1 < n \/ n < L)
        BY <1>0, <3>0, <3>3
      <4> QED BY <1>2, <1>4, <3>3, <4>1
    <3> QED BY <3>1, <3>2, <3>3
  <2>3. \A i \in 1 .. a : i \in 1 .. n
    BY <1>0, <2>2
  <2>4. a \in 0 .. Len(g)
    BY <1>4
  <2>5. CASE \A i \in 1 .. n : l[i] # <<"flag", 1>>
    <3>1. \A i \in 1 .. a : g[i] # <<"flag", 1>>
      BY <2>2, <2>3, <2>5
    <3> QED BY <1>4, <2>2, <2>4, <3>1 DEF LineOk
  <2>6. CASE ~\A i \in 1 .. n : l[i] # <<"flag", 1>>
    <3>1. PICK k \in 1 .. 4, s \in States :
                /\ n <= Len(Log!Layouts[k]) /\ (n < L => n < Len(Log!Layouts[k]))
                /\ s.fix = 1 => s.at \in t
                /\ \A i \in 1 .. n : l[i] = CellOf(Log!Layouts[k][i], s)
      BY <2>1, <2>6
    <3>2. Len(Log!Layouts[k]) \in Nat
      BY Places, LenProperties
    <3>3. a <= Len(Log!Layouts[k]) /\ (a < kept => a < Len(Log!Layouts[k]))
      <4>1. n <= Len(Log!Layouts[k]) /\ (n < L => n < Len(Log!Layouts[k])) /\ n \in Nat /\ a \in Nat
            /\ a <= n /\ (a < kept => a < n \/ n < L)
        BY <1>0, <2>2, <3>1
      <4> QED BY <3>2, <4>1
    <3>4. \A i \in 1 .. a : g[i] = CellOf(Log!Layouts[k][i], s)
      BY <2>2, <2>3, <3>1
    <3>6. \E b \in 1 .. 4, o \in States :
             /\ a <= Len(Log!Layouts[b]) /\ (a < Len(g) => a < Len(Log!Layouts[b]))
             /\ o.fix = 1 => o.at \in t
             /\ \A i \in 1 .. a : g[i] = CellOf(Log!Layouts[b][i], o)
      BY <1>4, <3>1, <3>3, <3>4
    <3> QED BY <1>4, <2>2, <2>4, <3>6 DEF LineOk
  <2> QED BY <2>5, <2>6
<1>7. NamesOk(g, FALSE)
  <2> SUFFICES ASSUME NEW p \in 1 .. kept, g[p][1] = "gps_fix"
               PROVE  13 <= p
    BY <1>4 DEF NamesOk
  <2>1. g[p] = l[p] \/ (p = kept /\ g[p] = <<"cut", 0>>)
    BY <1>2, <1>4, <1>5
  <2>2. l[p][1] = "gps_fix" /\ p \in DOMAIN l
    BY <1>0, <2>1
  <2> QED BY <2>2 DEF NamesOk
<1>8. g # <<>>
  BY <1>0, <1>4, EmptySeq
<1> QED BY <1>4, <1>6, <1>7, <1>8 DEF g, f, m, x

\* A row and a header, before anything happens to them.
LEMMA LayoutTypes ==
  ASSUME NEW k \in 1 .. 4
  PROVE  /\ Log!Layouts[k] \in Seq(Names) /\ DOMAIN Log!Layouts[k] = 1 .. Len(Log!Layouts[k])
         /\ Len(Log!Layouts[k]) \in {18, 19, 21}
         /\ \A i \in 1 .. Len(Log!Layouts[k]) : Log!Layouts[k][i] \in Names
         /\ \A i \in 1 .. Len(Log!Layouts[k]) : Log!Layouts[k][i] = "gps_fix" => 13 <= i
<1>1. k = 1 \/ k = 2 \/ k = 3 \/ k = 4
  OBVIOUS
<1>2. Log!Layouts[k] \in Seq(Names)
  BY Places
<1>3. DOMAIN Log!Layouts[k] = 1 .. Len(Log!Layouts[k])
  BY <1>2, LenProperties
<1>4. \A i \in 1 .. Len(Log!Layouts[k]) : Log!Layouts[k][i] \in Names
  BY <1>2, ElementOfSeq
<1> DEFINE P(j) == /\ Len(Log!Layouts[j]) \in {18, 19, 21}
                   /\ \A i \in 1 .. Len(Log!Layouts[j]) : Log!Layouts[j][i] = "gps_fix" => 13 <= i
<1>5. P(1)
  <2>1. Len(Log!Layouts[1]) = 21 /\ \A i \in 1 .. 21 : Log!Layouts[1][i] = "gps_fix" <=> i = 16
    BY Places
  <2> QED BY <2>1
<1>6. P(2)
  <2>1. Len(Log!Layouts[2]) = 19 /\ \A i \in 1 .. 19 : Log!Layouts[2][i] = "gps_fix" <=> i = 14
    BY Places
  <2> QED BY <2>1
<1>7. P(3)
  <2>1. Len(Log!Layouts[3]) = 18 /\ \A i \in 1 .. 18 : Log!Layouts[3][i] = "gps_fix" <=> i = 13
    BY Places
  <2> QED BY <2>1
<1>8. P(4)
  <2>1. Len(Log!Layouts[4]) = 19 /\ \A i \in 1 .. 19 : Log!Layouts[4][i] = "gps_fix" <=> i = 13
    BY Places
  <2> QED BY <2>1
<1> HIDE DEF P
<1>9. P(k)
  BY <1>1, <1>5, <1>6, <1>7, <1>8
<1> QED BY <1>2, <1>3, <1>4, <1>9 DEF P

LEMMA RowGood ==
  ASSUME Log!RecordsAssumption, gps \in States, layout \in 1 .. 4
  PROVE  /\ Log!Row \in Seq(Texts) /\ Log!Row # <<>> /\ Len(Log!Row) >= 18
         /\ \A i \in 1 .. Len(Log!Row) : Log!Row[i][1] # "gps_fix"
         /\ LineOk(Log!Row, Log!Told) /\ NamesOk(Log!Row, TRUE)
         /\ Log!Told \in SUBSET Int
<1> DEFINE c == Log!Layouts[layout]
           L == Len(c)
           r == Log!Row
<1>1. /\ L \in {18, 19, 21} /\ DOMAIN c = 1 .. L
      /\ \A i \in 1 .. L : c[i] \in Names
  BY LayoutTypes
<1>2. \A i \in 1 .. L : r[i] = Log!Cell(c[i])
  BY <1>1 DEF Log!Row
<1>3. DOMAIN r = 1 .. L /\ r = [i \in 1 .. L |-> r[i]]
  BY <1>1 DEF Log!Row
<1>4. gps.fix \in {0, 1} /\ gps.at \in Place \cup {Log!NoPlace} /\ gps.at \in Int
  <2>1. gps.fix \in {0, 1} /\ gps.at \in Place \cup {Log!NoPlace}
    BY DEF States
  <2>2. Log!NoPlace \in Int
    BY DEF Log!NoPlace
  <2>3. Place \subseteq Int
    BY DEF Log!RecordsAssumption
  <2> QED BY <2>1, <2>2, <2>3
<1>5. Log!Coarse(gps.at) \in Int
  <2>1. Grid \in Nat \ {0} /\ gps.at \in Int
    BY <1>4 DEF Log!RecordsAssumption
  <2> QED BY <2>1 DEF Log!Coarse
<1>6. \A x \in Names : Log!Cell(x) = CellOf(x, gps) /\ Log!Cell(x) \in Kinds \X Int
  <2> SUFFICES ASSUME NEW x \in Names
               PROVE  Log!Cell(x) = CellOf(x, gps) /\ Log!Cell(x) \in Kinds \X Int
    OBVIOUS
  <2>1. Log!Cell(x) = CellOf(x, gps)
    BY DEF Log!Cell, CellOf
  <2>2. Log!Cell(x) \in Kinds \X Int
    BY <1>4, <1>5 DEF Log!Cell, Kinds, Log!NoPlace
  <2> QED BY <2>1, <2>2
<1> HIDE DEF r, c, L
<1>7. \A i \in 1 .. L : r[i] = CellOf(c[i], gps) /\ r[i] \in Kinds \X Int
  BY <1>1, <1>2, <1>6
<1>8. r \in Seq(Texts) /\ Len(r) = L
  <2>1. \A i \in 1 .. L : r[i] \in Texts
    BY <1>7 DEF Texts
  <2>2. L \in Nat
    BY <1>1
  <2> QED BY <1>3, <2>1, <2>2
<1>9. r # <<>> /\ L >= 18
  BY <1>1, <1>8, EmptySeq
<1>10. \A i \in 1 .. L : r[i][1] # "gps_fix"
  <2>1. "gps_fix" \notin Kinds
    BY DEF Kinds
  <2> QED BY <1>7, <2>1
<1>11. Log!Told \in SUBSET Int /\ (gps.fix = 1 => gps.at \in Log!Told)
  BY <1>4 DEF Log!Told
<1>12. LineOk(r, Log!Told)
  <2>1. L \in 0 .. Len(r) /\ L = Len(r) /\ ~(L < Len(r))
    BY <1>1, <1>8
  <2>2. \E k \in 1 .. 4, g \in States :
           /\ L <= Len(Log!Layouts[k]) /\ (L < Len(r) => L < Len(Log!Layouts[k]))
           /\ g.fix = 1 => g.at \in Log!Told
           /\ \A i \in 1 .. L : r[i] = CellOf(Log!Layouts[k][i], g)
    <3>1. L <= Len(Log!Layouts[layout])
      BY <1>1 DEF L, c
    <3>2. \A i \in 1 .. L : r[i] = CellOf(Log!Layouts[layout][i], gps)
      BY <1>7 DEF c
    <3> QED BY <1>11, <2>1, <3>1, <3>2
  <2> QED BY <2>1, <2>2 DEF LineOk
<1>13. NamesOk(r, TRUE)
  BY <1>3, <1>10 DEF NamesOk
<1> QED BY <1>8, <1>9, <1>10, <1>11, <1>12, <1>13 DEF r

LEMMA HeaderGood ==
  ASSUME layout \in 1 .. 4, NEW t
  PROVE  /\ Log!Header \in Seq(Texts) /\ Log!Header # <<>>
         /\ LineOk(Log!Header, t) /\ NamesOk(Log!Header, TRUE)
<1> DEFINE c == Log!Layouts[layout]
           L == Len(c)
           h == Log!Header
<1>1. /\ L \in {18, 19, 21} /\ DOMAIN c = 1 .. L
      /\ \A i \in 1 .. L : c[i] \in Names
      /\ \A i \in 1 .. L : c[i] = "gps_fix" => 13 <= i
  BY LayoutTypes
<1>2. DOMAIN h = 1 .. L /\ h = [i \in 1 .. L |-> h[i]] /\ \A i \in 1 .. L : h[i] = <<c[i], 0>>
  BY <1>1 DEF Log!Header
<1> HIDE DEF h, c, L
<1>3. h \in Seq(Texts) /\ Len(h) = L
  <2>1. ASSUME NEW i \in 1 .. L
        PROVE  h[i] \in Texts
    <3>1. h[i] = <<c[i], 0>> /\ c[i] \in Names
      BY <1>1, <1>2
    <3> QED BY <3>1 DEF Texts
  <2>2. L \in Nat
    BY <1>1
  <2> QED BY <1>2, <2>1, <2>2
<1>4. h # <<>>
  BY <1>1, <1>3, EmptySeq
<1>5. LineOk(h, t)
  <2>1. "flag" \notin Names
    BY DEF Names
  <2>2. \A i \in 1 .. L : h[i] # <<"flag", 1>>
    BY <1>1, <1>2, <2>1
  <2>3. L \in 0 .. Len(h) /\ L = Len(h)
    BY <1>1, <1>3
  <2> QED BY <2>2, <2>3 DEF LineOk
<1>6. NamesOk(h, TRUE)
  BY <1>1, <1>2, <1>3 DEF NamesOk, Length
<1> QED BY <1>3, <1>4, <1>5, <1>6 DEF h

-----------------------------------------------------------------------------
LEMMA NoLines == LinesOk(<<>>, <<>>, FALSE)
<1>1. <<>> \in Seq(Seq(Texts)) /\ <<>> \in Seq(SUBSET Int)
  BY EmptySeq
<1>2. Len(<<>>) = 0
  BY EmptySeq
<1>3. \A i \in 1 .. 0 : FALSE
  OBVIOUS
<1>4. \A i \in 1 .. Len(<<>>) : FALSE
  BY <1>2, <1>3
<1> QED BY <1>1, <1>4 DEF LinesOk

LEMMA LogInit == Log!Init => LogInv
<1> SUFFICES ASSUME Log!Init PROVE LogInv
  OBVIOUS
<1>1. gps \in States
  BY DEF Log!Init, States
<1>2. layout \in 1 .. 4
  BY Places DEF Log!Init
<1>3. file = <<>> /\ truth = <<>> /\ torn = FALSE
  BY DEF Log!Init
<1>4. file \in Seq(Seq(Texts)) /\ truth \in Seq(SUBSET Int) /\ Len(file) = 0 /\ Len(truth) = 0
  BY <1>3, EmptySeq
<1>5. LinesOk(file, truth, torn)
  BY <1>3, <1>4, NoLines
<1> QED BY <1>1, <1>2, <1>5 DEF LogInv

LEMMA LogStep == Log!RecordsAssumption /\ LogInv /\ [Log!Next]_(Log!vars) => LogInv'
<1> SUFFICES ASSUME Log!RecordsAssumption, LogInv, [Log!Next]_(Log!vars) PROVE LogInv'
  OBVIOUS
<1>0. gps \in States /\ layout \in 1 .. 4 /\ LinesOk(file, truth, torn)
  BY DEF LogInv
<1>1. /\ file \in Seq(Seq(Texts)) /\ truth \in Seq(SUBSET Int)
      /\ torn \in BOOLEAN /\ (torn => file # <<>>)
      /\ Len(truth) = Len(file)
      /\ \A i \in 1 .. Len(file) :
          /\ file[i] # <<>>
          /\ LineOk(file[i], truth[i])
          /\ NamesOk(file[i], i # Len(file) \/ ~torn)
  BY <1>0 DEF LinesOk
<1>2. Len(file) \in Nat
  BY <1>1, LenProperties
<1>3. file # <<>> =>
        /\ Len(file) \in 1 .. Len(file) /\ Len(file) \in 1 .. Len(truth)
        /\ file[Len(file)] \in Seq(Texts) /\ file[Len(file)] # <<>>
        /\ truth[Len(file)] \in SUBSET Int
        /\ LineOk(file[Len(file)], truth[Len(file)]) /\ NamesOk(file[Len(file)], ~torn)
  <2> SUFFICES ASSUME file # <<>>
               PROVE  /\ Len(file) \in 1 .. Len(file) /\ Len(file) \in 1 .. Len(truth)
                      /\ file[Len(file)] \in Seq(Texts) /\ file[Len(file)] # <<>>
                      /\ truth[Len(file)] \in SUBSET Int
                      /\ LineOk(file[Len(file)], truth[Len(file)]) /\ NamesOk(file[Len(file)], ~torn)
    OBVIOUS
  <2> DEFINE e == Len(file)
  <2>1. e \in Nat \ {0}
    BY <1>1, EmptySeq
  <2> HIDE DEF e
  <2>2. e \in 1 .. e
    BY <2>1
  <2>3. Len(file) \in 1 .. Len(file) /\ Len(file) \in 1 .. Len(truth)
    BY <1>1, <2>2 DEF e
  <2>4. file[Len(file)] \in Seq(Texts)
    BY <1>1, <2>3, ElementOfSeq
  <2>5. truth[Len(file)] \in SUBSET Int
    BY <1>1, <2>3, ElementOfSeq
  <2>6. /\ file[Len(file)] # <<>> /\ LineOk(file[Len(file)], truth[Len(file)])
        /\ NamesOk(file[Len(file)], Len(file) # Len(file) \/ ~torn)
    BY <1>1, <2>3
  <2>7. NamesOk(file[Len(file)], ~torn)
    BY <2>6 DEF NamesOk
  <2> QED BY <2>3, <2>4, <2>5, <2>6, <2>7
<1>4. ASSUME ~torn, NEW l \in Seq(Texts), l # <<>>, LineOk(l, Log!Told), NamesOk(l, TRUE),
             Log!Write(l)
      PROVE  LinesOk(file', truth', torn')
  <2>1. LinesOk(file, truth, FALSE)
    <3>1. torn = FALSE
      BY <1>1, <1>4
    <3> QED BY <1>0, <3>1
  <2>2. Log!Told \in SUBSET Int
    BY <1>0, RowGood
  <2>3. file' = Append(file, l) /\ truth' = Append(truth, Log!Told) /\ torn' = FALSE
    BY <1>4 DEF Log!Write
  <2> QED BY <1>4, <2>1, <2>2, <2>3, LineAdded
<1>5. CASE Log!RowComes
  <2>1. gps' = gps /\ layout' = layout
    BY <1>5 DEF Log!RowComes
  <2>2. LinesOk(file', truth', torn')
    <3>1. CASE file = <<>>
      <4>1. ~torn /\ Log!Write(Log!Header)
        BY <1>1, <1>5, <3>1 DEF Log!RowComes
      <4>2. /\ Log!Header \in Seq(Texts) /\ Log!Header # <<>>
            /\ LineOk(Log!Header, Log!Told) /\ NamesOk(Log!Header, TRUE)
        BY <1>0, HeaderGood
      <4> QED BY <1>4, <4>1, <4>2
    <3>2. CASE file # <<>>
      <4>1. file' = file /\ truth' = truth /\ torn' = torn
        BY <1>5, <3>2 DEF Log!RowComes
      <4> QED BY <1>0, <4>1
    <3> QED BY <3>1, <3>2
  <2> QED BY <1>0, <2>1, <2>2 DEF LogInv
<1>6. CASE Log!WriteRow
  <2>1. gps' = gps /\ layout' = layout /\ Log!Write(Log!Row)
    BY <1>6 DEF Log!WriteRow
  <2>2. /\ Log!Row \in Seq(Texts) /\ Log!Row # <<>> /\ Len(Log!Row) >= 18
        /\ \A i \in 1 .. Len(Log!Row) : Log!Row[i][1] # "gps_fix"
        /\ LineOk(Log!Row, Log!Told) /\ NamesOk(Log!Row, TRUE)
        /\ Log!Told \in SUBSET Int
    BY <1>0, RowGood
  <2>3. LinesOk(file', truth', torn')
    <3>1. CASE ~torn
      BY <1>4, <2>1, <2>2, <3>1
    <3>2. CASE torn
      <4> DEFINE w == file[Len(file)]
                 g == SubSeq(w, 1, Len(w) - 1) \o <<<<"glued", 0>>>> \o Tail(Log!Row)
                 u == truth[Len(file)] \cup Log!Told
                 given == [truth EXCEPT ![Len(file)] = u]
      <4>1. file # <<>> /\ torn = TRUE
        BY <1>1, <3>2
      <4>2. /\ file[Len(file)] \in Seq(Texts) /\ file[Len(file)] # <<>>
            /\ LineOk(file[Len(file)], truth[Len(file)]) /\ NamesOk(file[Len(file)], FALSE)
            /\ truth[Len(file)] \in SUBSET Int /\ Len(file) \in 1 .. Len(truth)
        <5>1. NamesOk(file[Len(file)], ~torn)
          BY <1>3, <4>1
        <5>2. NamesOk(file[Len(file)], FALSE)
          BY <4>1, <5>1
        <5> QED BY <1>3, <4>1, <5>2
      <4>3. g \in Seq(Texts) /\ g # <<>> /\ LineOk(g, u) /\ NamesOk(g, TRUE)
        <5>1. truth[Len(file)] \subseteq u
          OBVIOUS
        <5> HIDE DEF u
        <5> QED BY <2>2, <4>2, <5>1, Glued
      <4>4. u \in SUBSET Int
        BY <2>2, <4>2
      <4>5. file' = [file EXCEPT ![Len(file)] = g] /\ truth' = given /\ torn' = FALSE
        BY <2>1, <3>2 DEF Log!Write
      <4> HIDE DEF g, u
      <4>6. /\ given \in Seq(SUBSET Int) /\ Len(given) = Len(truth)
            /\ \A j \in 1 .. Len(truth) : given[j] = IF j = Len(file) THEN u ELSE truth[j]
        BY <1>1, <4>2, <4>4, ExceptSeq
      <4> HIDE DEF given
      <4>7. given[Len(file)] = u /\ \A j \in 1 .. Len(file) : j # Len(file) => given[j] = truth[j]
        BY <1>1, <4>2, <4>6
      <4>8. LineOk(g, given[Len(file)]) /\ NamesOk(g, ~FALSE)
        <5>1. NamesOk(g, ~FALSE)
          BY <4>3 DEF NamesOk
        <5> QED BY <4>3, <4>7, <5>1
      <4>9. LinesOk([file EXCEPT ![Len(file)] = g], given, FALSE)
        BY <1>0, <4>1, <4>3, <4>6, <4>7, <4>8, LastChanges
      <4> QED BY <4>5, <4>9
    <3> QED BY <3>1, <3>2
  <2> QED BY <1>0, <2>1, <2>3 DEF LogInv
<1>7. CASE Log!Rotate
  <2>1. gps' = gps /\ layout' = layout /\ file' = <<>> /\ truth' = <<>> /\ torn' = FALSE
    BY <1>7 DEF Log!Rotate
  <2>2. /\ file' \in Seq(Seq(Texts)) /\ truth' \in Seq(SUBSET Int)
        /\ Len(file') = 0 /\ Len(truth') = 0
    BY <2>1, EmptySeq
  <2>3. LinesOk(file', truth', torn')
    BY <2>1, <2>2, NoLines
  <2> QED BY <1>0, <2>1, <2>3 DEF LogInv
<1>8. CASE Log!PowerCut
  <2>0. file # <<>> /\ torn = FALSE /\ torn' = TRUE /\ layout' = layout /\ truth' = truth
    BY <1>1, <1>8 DEF Log!PowerCut, Log!Booted
  <2>1. gps' \in States
    BY <1>8 DEF Log!PowerCut, Log!Booted, States
  <2>2. /\ file[Len(file)] \in Seq(Texts) /\ file[Len(file)] # <<>>
        /\ LineOk(file[Len(file)], truth[Len(file)]) /\ NamesOk(file[Len(file)], TRUE)
    <3>1. NamesOk(file[Len(file)], ~torn)
      BY <1>3, <2>0
    <3>2. NamesOk(file[Len(file)], TRUE)
      BY <2>0, <3>1 DEF NamesOk
    <3> QED BY <1>3, <2>0, <3>2
  <2>3. PICK kept \in 1 .. Len(file[Len(file)]) :
          file' = [file EXCEPT ![Len(file)] =
                     SubSeq(@, 1, kept - 1) \o <<IF kept = Len(@) THEN @[kept] ELSE <<"cut", 0>>>>]
    BY <1>8 DEF Log!PowerCut
  <2> DEFINE l == file[Len(file)]
             g == SubSeq(l, 1, kept - 1)
                    \o <<IF kept = Len(l) THEN l[kept] ELSE <<"cut", 0>>>>
  <2>4. g \in Seq(Texts) /\ g # <<>> /\ LineOk(g, truth[Len(file)]) /\ NamesOk(g, FALSE)
    <3> HIDE DEF l
    <3>1. /\ l \in Seq(Texts) /\ LineOk(l, truth[Len(file)]) /\ NamesOk(l, TRUE)
          /\ kept \in 1 .. Len(l)
      BY <2>2, <2>3 DEF l
    <3> QED BY <3>1, CutShort
  <2>5. file' = [file EXCEPT ![Len(file)] = g]
    BY <2>2, <2>3
  <2> HIDE DEF g
  <2>6. NamesOk(g, ~TRUE)
    BY <2>4 DEF NamesOk
  <2>7. LinesOk([file EXCEPT ![Len(file)] = g], truth, TRUE)
    BY <1>0, <1>1, <2>0, <2>4, <2>6, LastChanges
  <2> QED BY <1>0, <2>0, <2>1, <2>5, <2>7 DEF LogInv
<1>9. CASE Log!Upgrade
  <2>1. file' = file /\ torn' = torn /\ truth' = truth
    BY <1>9 DEF Log!Upgrade, Log!Booted
  <2>2. gps' \in States
    BY <1>9 DEF Log!Upgrade, Log!Booted, States
  <2>3. layout' \in 1 .. 4
    <3>1. layout < 4 /\ layout' = layout + 1
      BY <1>9, Places DEF Log!Upgrade
    <3> QED BY <1>0, <3>1
  <2> QED BY <1>0, <2>1, <2>2, <2>3 DEF LogInv
<1>10. ASSUME NEW s \in States, Log!Publish(s) PROVE LogInv'
  <2>1. gps' = s /\ layout' = layout /\ file' = file /\ torn' = torn /\ truth' = truth
    BY <1>10 DEF Log!Publish
  <2> QED BY <1>0, <1>10, <2>1 DEF LogInv
<1>11. CASE Log!Sentence
  <2>1. PICK s \in Log!Parsed : Log!Publish(s)
    BY <1>11 DEF Log!Sentence
  <2>2. s \in States
    BY <1>0 DEF Log!Parsed, States
  <2> QED BY <1>10, <2>1, <2>2
<1>12. CASE Log!PortFails
  <2>1. Log!Publish([gps EXCEPT !.fix = 0])
    BY <1>12 DEF Log!PortFails
  <2>2. [gps EXCEPT !.fix = 0] \in States
    BY <1>0 DEF States
  <2> QED BY <1>10, <2>1, <2>2
<1>13. CASE UNCHANGED Log!vars
  BY <1>0, <1>13 DEF Log!vars, LogInv
<1> QED BY <1>5, <1>6, <1>7, <1>8, <1>9, <1>11, <1>12, <1>13 DEF Log!Next

LEMMA LogCorrect == ASSUME Log!RecordsAssumption PROVE Log!Spec => []LogInv
<1>1. Log!Init => LogInv
  BY LogInit
<1>2. LogInv /\ [Log!Next]_(Log!vars) => LogInv'
  BY LogStep
<1> QED BY <1>1, <1>2, PTL DEF Log!Spec

-----------------------------------------------------------------------------
\* What is read is one of the cells, if it is not empty.
LEMMA AtSome ==
  ASSUME NEW cols, NEW cells, NEW n \in Nat, DOMAIN cells = 1 .. n, NEW c,
         Log!At(cols, cells, c) # <<"empty", 0>>
  PROVE  \E p \in 1 .. n : p \in DOMAIN cols /\ cols[p] = c /\ Log!At(cols, cells, c) = cells[p]
<1> DEFINE places == {i \in DOMAIN cols \cap DOMAIN cells : cols[i] = c}
           T == {m \in Nat : \A j \in places : j <= m}
<1>1. places # {}
  BY DEF Log!At
<1>2. places \subseteq 1 .. n /\ places \subseteq Nat
  OBVIOUS
<1>3. n \in T
  BY <1>2
<1>4. PICK m \in T : \A y \in T : m <= y
  BY <1>3, Least
<1>5. m \in places
  <2> SUFFICES ASSUME m \notin places PROVE FALSE
    OBVIOUS
  <2>1. PICK j \in places : TRUE
    BY <1>1
  <2>2. m \in Nat /\ \A a \in places : a <= m /\ a # m /\ a \in 1 .. n
    BY <1>2, <1>4
  <2> HIDE DEF places
  <2>3. m - 1 \in Nat /\ \A a \in places : a <= m - 1
    BY <2>1, <2>2
  <2>4. m - 1 \in T
    BY <2>3
  <2> QED BY <1>4, <2>2, <2>4
<1>6. \A j \in places : j <= m
  BY <1>4
<1> HIDE DEF T
<1> DEFINE x == CHOOSE i \in places : \A j \in places : j <= i
<1>7. x \in places
  BY <1>5, <1>6
<1>8. Log!At(cols, cells, c) = cells[x]
  BY <1>1 DEF Log!At
<1> HIDE DEF x
<1> QED BY <1>7, <1>8

\* The columns a reader gives to a line.
LEMMA Given ==
  ASSUME NEW l, NEW cols \in {Log!Columns(l), Log!PlainColumns(l)}, Len(l) \in Nat
  PROVE  \/ Len(l) = 21 /\ cols = Log!Layouts[1]
         \/ Len(l) \in {18, 19} /\ cols \in {Log!Layouts[3], Log!Layouts[4]}
         \/ /\ Len(l) \notin {18, 19, 21} /\ Len(file[1]) = Len(l)
            /\ cols = [i \in DOMAIN file[1] |-> file[1][i][1]]
         \/ cols = <<>>
<1> DEFINE fitting == {i \in DOMAIN Log!Layouts : Len(Log!Layouts[i]) = Len(l)}
<1>1. CASE cols = Log!PlainColumns(l)
  BY <1>1 DEF Log!PlainColumns
<1>2. CASE cols = Log!Columns(l)
  <2>1. /\ DOMAIN Log!Layouts = 1 .. 4
        /\ Len(Log!Layouts[1]) = 21 /\ Len(Log!Layouts[2]) = 19
        /\ Len(Log!Layouts[3]) = 18 /\ Len(Log!Layouts[4]) = 19
    BY Places
  <2>2. \A i \in 1 .. 4 : i = 1 \/ i = 2 \/ i = 3 \/ i = 4
    OBVIOUS
  <2>3. /\ 1 \in fitting <=> Len(l) = 21
        /\ 2 \in fitting <=> Len(l) = 19
        /\ 3 \in fitting <=> Len(l) = 18
        /\ 4 \in fitting <=> Len(l) = 19
        /\ \A i \in fitting : i = 1 \/ i = 2 \/ i = 3 \/ i = 4
    BY <2>1, <2>2
  <2>4. Log!Columns(l) = IF fitting # {}
                     THEN Log!Layouts[IF 4 \in fitting THEN 4 ELSE CHOOSE i \in fitting : TRUE]
                     ELSE IF Len(file[1]) = Len(l) THEN [i \in DOMAIN file[1] |-> file[1][i][1]]
                     ELSE <<>>
    BY DEF Log!Columns
  <2> HIDE DEF fitting
  <2>5. CASE Len(l) = 21
    <3>1. fitting = {1}
      BY <2>3, <2>5
    <3>2. (CHOOSE i \in fitting : TRUE) = 1 /\ 4 \notin fitting /\ fitting # {}
      BY <3>1
    <3> QED BY <1>2, <2>4, <2>5, <3>2
  <2>6. CASE Len(l) = 18
    <3>1. fitting = {3}
      BY <2>3, <2>6
    <3>2. (CHOOSE i \in fitting : TRUE) = 3 /\ 4 \notin fitting /\ fitting # {}
      BY <3>1
    <3> QED BY <1>2, <2>4, <2>6, <3>2
  <2>7. CASE Len(l) = 19
    BY <1>2, <2>3, <2>4, <2>7
  <2>8. CASE Len(l) \notin {18, 19, 21}
    <3>1. fitting = {}
      BY <2>3, <2>8
    <3> QED BY <1>2, <2>4, <2>8, <3>1
  <2> QED BY <2>5, <2>6, <2>7, <2>8
<1> QED BY <1>1, <1>2

\* So what a reader takes for a fix is one, or from a line that others follow on.
LEMMA OneReads ==
  ASSUME LogInv, NEW i \in 2 .. Len(file), NEW cols \in {Log!Columns(file[i]), Log!PlainColumns(file[i])},
         Log!At(cols, file[i], "gps_fix") = <<"flag", 1>>,
         Log!At(cols, file[i], "lat")[1] \in Log!Numeric
  PROVE  \/ <<"glued", 0>> \in Log!Range(file[i])
         \/ /\ Log!At(cols, file[i], "lon") = Log!At(cols, file[i], "lat")
            /\ \E p \in truth[i] : Log!At(cols, file[i], "lat") = <<"number", Log!Coarse(p)>>
<1> DEFINE l == file[i]
           h == file[1]
           L == Len(l)
<1>1. /\ file \in Seq(Seq(Texts)) /\ Len(file) \in Nat /\ i \in 1 .. Len(file)
      /\ 1 \in 1 .. Len(file) /\ 1 # Len(file)
      /\ \A j \in 1 .. Len(file) : /\ LineOk(file[j], truth[j])
                                   /\ NamesOk(file[j], j # Len(file) \/ ~torn)
  <2>1. file \in Seq(Seq(Texts))
    BY DEF LogInv, LinesOk
  <2>2. Len(file) \in Nat
    BY <2>1, LenProperties
  <2>3. i \in 1 .. Len(file) /\ 1 \in 1 .. Len(file) /\ 1 # Len(file)
    BY <2>2
  <2> QED BY <2>1, <2>2, <2>3 DEF LogInv, LinesOk
<1>2. l \in Seq(Texts) /\ h \in Seq(Texts)
  BY <1>1, ElementOfSeq
<1>3. L \in Nat /\ DOMAIN l = 1 .. L /\ Len(h) \in Nat /\ DOMAIN h = 1 .. Len(h)
  BY <1>2, LenProperties
<1>4. LineOk(l, truth[i]) /\ NamesOk(h, TRUE)
  <2>1. NamesOk(h, 1 # Len(file) \/ ~torn)
    BY <1>1
  <2> QED BY <1>1, <2>1 DEF NamesOk
<1>5. /\ Log!At(cols, l, "gps_fix") = <<"flag", 1>>
      /\ Log!At(cols, l, "lat")[1] \in Log!Numeric
  OBVIOUS
<1>6. ASSUME NEW k \in {1, 3, 4}, cols = Log!Layouts[k],
             IF k = 1 THEN Len(l) = 21 ELSE Len(l) \in {18, 19}
      PROVE  \/ <<"glued", 0>> \in Log!Range(l)
             \/ /\ Log!At(cols, l, "lon") = Log!At(cols, l, "lat")
                /\ \E p \in truth[i] : Log!At(cols, l, "lat") = <<"number", Log!Coarse(p)>>
  <2> HIDE DEF l
  <2> QED BY <1>2, <1>4, <1>5, <1>6, Reading, ZenonT(30)
<1> HIDE DEF l, h, L
<1>7. PICK p \in 1 .. L : p \in DOMAIN cols /\ cols[p] = "gps_fix" /\ l[p] = <<"flag", 1>>
  <2>1. Log!At(cols, l, "gps_fix") # <<"empty", 0>>
    BY <1>5
  <2>2. \E p \in 1 .. L : p \in DOMAIN cols /\ cols[p] = "gps_fix"
                         /\ Log!At(cols, l, "gps_fix") = l[p]
    BY <1>3, <2>1, AtSome
  <2> QED BY <1>5, <2>2
<1>8. CASE L = 21 /\ cols = Log!Layouts[1]
  BY <1>6, <1>8 DEF l, L
<1>9. CASE L \in {18, 19} /\ cols \in {Log!Layouts[3], Log!Layouts[4]}
  BY <1>6, <1>9 DEF l, L
<1>10. CASE /\ L \notin {18, 19, 21} /\ Len(h) = L
            /\ cols = [j \in DOMAIN h |-> h[j][1]]
  <2>1. p \in DOMAIN h /\ h[p][1] = "gps_fix"
    BY <1>7, <1>10
  <2>2. L >= 22
    <3>1. Length(L)
      BY <1>4, <1>10, <2>1 DEF NamesOk
    <3> QED BY <1>3, <1>10, <3>1 DEF Length
  <2>3. PICK n \in 0 .. L :
        /\ \/ n = L
           \/ n < L /\ l[n + 1] = <<"glued", 0>>
           \/ n + 1 = L /\ l[n + 1] = <<"cut", 0>>
        /\ \/ \A j \in 1 .. n : l[j] # <<"flag", 1>>
           \/ \E k \in 1 .. 4, g \in States :
                /\ n <= Len(Log!Layouts[k]) /\ (n < L => n < Len(Log!Layouts[k]))
                /\ g.fix = 1 => g.at \in truth[i]
                /\ \A j \in 1 .. n : l[j] = CellOf(Log!Layouts[k][j], g)
    BY <1>4 DEF LineOk, L
  <2>4. CASE n < L /\ l[n + 1] = <<"glued", 0>>
    <3>1. n + 1 \in DOMAIN l
      BY <1>3, <2>4
    <3>2. <<"glued", 0>> \in Log!Range(l)
      BY <2>4, <3>1 DEF Log!Range
    <3> QED BY <3>2 DEF l
  <2>5. CASE ~(n < L /\ l[n + 1] = <<"glued", 0>>)
    <3>1. n = L \/ (n + 1 = L /\ l[n + 1] = <<"cut", 0>>)
      BY <1>3, <2>3, <2>5
    <3>2. \A j \in 1 .. n : l[j] # <<"flag", 1>>
      <4> SUFFICES ASSUME NEW k \in 1 .. 4,
                          n <= Len(Log!Layouts[k]) /\ (n < L => n < Len(Log!Layouts[k]))
                   PROVE  FALSE
        BY <2>3
      <4>1. Len(Log!Layouts[k]) \in {18, 19, 21}
        BY LayoutTypes
      <4>2. \A x \in {18, 19, 21}, a, b \in Nat :
               ~((b = a \/ b + 1 = a) /\ a >= 22 /\ b <= x /\ (b < a => b < x))
        OBVIOUS
      <4>3. n \in Nat /\ L \in Nat /\ (n = L \/ n + 1 = L)
        BY <1>3, <3>1
      <4> QED BY <2>2, <4>1, <4>2, <4>3
    <3>3. p \in 1 .. n \/ (p = L /\ n + 1 = L)
      <4>1. n \in Nat /\ L \in Nat /\ (n = L \/ n + 1 = L)
        BY <1>3, <3>1
      <4> QED BY <4>1
    <3> QED BY <1>7, <3>1, <3>2, <3>3
  <2> QED BY <2>4, <2>5
<1>11. CASE cols = <<>>
  BY <1>7, <1>11
<1>12. \/ L = 21 /\ cols = Log!Layouts[1]
       \/ L \in {18, 19} /\ cols \in {Log!Layouts[3], Log!Layouts[4]}
       \/ /\ L \notin {18, 19, 21} /\ Len(h) = L
          /\ cols = [j \in DOMAIN h |-> h[j][1]]
       \/ cols = <<>>
  <2>1. cols \in {Log!Columns(l), Log!PlainColumns(l)}
    BY DEF l
  <2> QED BY <1>3, <2>1, Given DEF h, L
<1> QED BY <1>8, <1>9, <1>10, <1>11, <1>12

LEMMA LogReads == ASSUME LogInv PROVE Log!FixesRight
<1> DEFINE Good(f) == \/ <<"glued", 0>> \in Log!Range(file[f[1]])
                      \/ f[3] = f[2] /\ \E p \in truth[f[1]] : f[2] = <<"number", Log!Coarse(p)>>
<1>1. DOMAIN file = 1 .. Len(file) /\ Len(file) \in Nat
  BY LenProperties DEF LogInv, LinesOk
<1>2. ASSUME NEW f \in Log!DriftFixes PROVE Good(f)
  <2> DEFINE named == [i \in DOMAIN file |-> Log!Columns(file[i])]
  <2>1. PICK j \in 2 .. Len(file) :
          /\ f = <<j, Log!At(named[j], file[j], "lat"), Log!At(named[j], file[j], "lon")>>
          /\ Log!At(named[j], file[j], "gps_fix") = <<"flag", 1>>
          /\ Log!At(named[j], file[j], "lat")[1] \in Log!Numeric
    BY DEF Log!DriftFixes, Log!Taken
  <2> DEFINE cols == Log!Columns(file[j])
  <2>2. j \in DOMAIN file
    BY <1>1
  <2>3. named[j] = Log!Columns(file[j])
    BY <2>2
  <2> HIDE DEF named
  <2>4. /\ f[1] = j
        /\ f[2] = Log!At(cols, file[j], "lat") /\ f[3] = Log!At(cols, file[j], "lon")
        /\ Log!At(cols, file[j], "gps_fix") = <<"flag", 1>>
        /\ Log!At(cols, file[j], "lat")[1] \in Log!Numeric
    BY <2>1, <2>3
  <2> QED BY <2>4, OneReads
<1>3. ASSUME NEW f \in Log!Section5Fixes PROVE Good(f)
  <2> DEFINE named == [i \in DOMAIN file |-> Log!PlainColumns(file[i])]
  <2>1. PICK j \in 2 .. Len(file) :
          /\ f = <<j, Log!At(named[j], file[j], "lat"), Log!At(named[j], file[j], "lon")>>
          /\ Log!At(named[j], file[j], "gps_fix") = <<"flag", 1>>
          /\ Log!At(named[j], file[j], "lat")[1] \in Log!Numeric
    BY DEF Log!Section5Fixes, Log!Taken
  <2> DEFINE cols == Log!PlainColumns(file[j])
  <2>2. j \in DOMAIN file
    BY <1>1
  <2>3. named[j] = Log!PlainColumns(file[j])
    BY <2>2
  <2> HIDE DEF named
  <2>4. /\ f[1] = j
        /\ f[2] = Log!At(cols, file[j], "lat") /\ f[3] = Log!At(cols, file[j], "lon")
        /\ Log!At(cols, file[j], "gps_fix") = <<"flag", 1>>
        /\ Log!At(cols, file[j], "lat")[1] \in Log!Numeric
    BY <2>1, <2>3
  <2> QED BY <2>4, OneReads
<1> QED BY <1>2, <1>3 DEF Log!FixesRight

\* What the evaluation tools take for a fix out of a line written in one piece is
\* the fix the program had, through rotations, upgrades and power cuts
\* (row_mapper, load_fixes, fixes).
THEOREM FixesOfTheirRows == Spec => []FixesRight
<1>1. Log!Spec => []LogInv
  BY PartsAssumption, LogCorrect
<1>2. LogInv => FixesRight
  BY LogReads DEF FixesRight
<1> QED BY <1>1, <1>2, LogPart, PTL

-----------------------------------------------------------------------------
(***************************************************************************)
(* Bench: what the board does follows the commands that are under way, in  *)
(* RigInv; and the frames a probe reads come in the order its trial made   *)
(* them, phase by phase, in RowsInv.                                       *)
(***************************************************************************)

LEMMA RigPart == Spec => Rig!Spec
<1>1. Init => Rig!Init
  BY DEF Init
<1>2. [Next]_vars => [Rig!Next]_(Rig!vars)
  BY DEF Next, vars, OnlyGate, OnlyFollow, OnlyCap, OnlyAudio, OnlyBack,
         OnlyLog, OnlyRig, OnlyFaults, OnlySheets, OnlyBoxed, Rig!vars,
         benchVars, Rig!program, Rig!read, Rig!board
<1> QED BY <1>1, <1>2, PTL DEF Spec, Rig!Spec

Mode == {"ARMED", "DRIVING", "STOPPED"}
Command == {"drive", "stop", "beat"}

RigTypes ==
    /\ fw \in Mode /\ obeyed \in BOOLEAN
    /\ latest \in [fw : Mode, obeyed : BOOLEAN]
    /\ down \in Seq([fw : Mode, obeyed : BOOLEAN])
    /\ up \in Seq(Command)
    /\ age \in Nat /\ wait \in Nat /\ panic \in Int

\* While the robot drives its timer runs; each motion command under way has its
\* reason, or a stop behind it.
MotionInv ==
    /\ session \in {"open", "cut", "closed"}
    /\ session = "closed" => up = <<>> /\ fw # "DRIVING"
    /\ pc \in {"hush", "silent"} => tool = "deadman"
    /\ fw = "DRIVING" => ~tripped /\ age < Deadman
    /\ session = "open" => \A i \in DOMAIN up :
         up[i] = "drive" =>
           \/ pc = "drive"
           \/ tool = "deadman" /\ pc # "end"
           \/ \E j \in DOMAIN up : i < j /\ up[j] = "stop"
    /\ Rig!MotionIsTrial

RigInv == RigTypes /\ MotionInv

\* What was sent to the board, seen from its end.
LEMMA Received ==
  ASSUME up # <<>>, up \in Seq(Command), up' = Tail(up)
  PROVE  /\ up' \in Seq(Command) /\ Len(up) \in Nat \ {0} /\ Len(up') = Len(up) - 1
         /\ DOMAIN up = 1 .. Len(up) /\ DOMAIN up' = 1 .. Len(up')
         /\ Head(up) = up[1] /\ Head(up) \in Command
         /\ \A i \in DOMAIN up' : i + 1 \in DOMAIN up /\ up'[i] = up[i + 1]
         /\ \A i \in DOMAIN up : i # 1 => i - 1 \in DOMAIN up' /\ up'[i - 1] = up[i]
<1> QED BY HeadTailProperties, LenProperties, EmptySeq

LEMMA Sent ==
  ASSUME NEW c \in Command, up \in Seq(Command), Rig!Send(c)
  PROVE  /\ up' \in Seq(Command) /\ Len(up) \in Nat /\ Len(up') = Len(up) + 1
         /\ DOMAIN up = 1 .. Len(up) /\ DOMAIN up' = 1 .. (Len(up) + 1)
         /\ \A i \in DOMAIN up : up'[i] = up[i]
         /\ up'[Len(up) + 1] = c
<1> QED BY AppendProperties, LenProperties DEF Rig!Send

LEMMA Popped ==
  ASSUME down # <<>>, down' = Tail(down), RigTypes
  PROVE  /\ down' \in Seq([fw : Mode, obeyed : BOOLEAN])
         /\ Head(down) = down[1] /\ 1 \in DOMAIN down /\ Len(down) \in Nat
         /\ DOMAIN down = 1 .. Len(down) /\ DOMAIN down' = 1 .. (Len(down) - 1)
         /\ \A i \in DOMAIN down' : down'[i] = down[i + 1]
<1> QED BY HeadTailProperties, LenProperties, EmptySeq DEF RigTypes

LEMMA Drained ==
  ASSUME Rig!Drain, RigTypes
  PROVE  /\ down' \in Seq([fw : Mode, obeyed : BOOLEAN])
         /\ DOMAIN down = 1 .. Len(down) /\ Len(down) \in Nat
         /\ \E n \in 0 .. Len(down) : /\ DOMAIN down' = 1 .. (Len(down) - n)
                                      /\ \A i \in DOMAIN down' : down'[i] = down[i + n]
<1> DEFINE F == [fw : Mode, obeyed : BOOLEAN]
<1>1. PICK n \in 0 .. Len(down) : down' = SubSeq(down, n + 1, Len(down))
  BY DEF Rig!Drain
<1>2. down \in Seq(F) /\ Len(down) \in Nat /\ DOMAIN down = 1 .. Len(down)
  BY LenProperties DEF RigTypes
<1>3. /\ down' \in Seq(F) /\ Len(down') = Len(down) - n
      /\ \A i \in 1 .. Len(down') : down'[i] = down[i + n]
  <2> HIDE DEF F
  <2> DEFINE m == n + 1
             k == Len(down)
  <2>1. \A i \in m .. k : down[i] \in F
    BY <1>2, ElementOfSeq
  <2>2. m \in Int /\ k \in Int /\ n \in Nat /\ n <= k /\ m = n + 1 /\ k = Len(down)
    BY <1>2
  <2>3. down' = SubSeq(down, m, k)
    BY <1>1
  <2> HIDE DEF m, k
  <2>4. /\ down' \in Seq(F) /\ Len(down') = (IF m <= k THEN k - m + 1 ELSE 0)
        /\ \A i \in 1 .. k - m + 1 : down'[i] = down[m + i - 1]
    BY <2>1, <2>2, <2>3, SubSeqProperties
  <2>5. Len(down') = k - n
    BY <2>2, <2>4
  <2>6. \A i \in 1 .. k - n : i \in 1 .. k - m + 1 /\ m + i - 1 = i + n
    BY <2>2
  <2>7. \A i \in 1 .. k - n : down'[i] = down[i + n]
    BY <2>4, <2>6
  <2> QED BY <2>2, <2>4, <2>5, <2>7
<1>4. DOMAIN down' = 1 .. (Len(down) - n)
  BY <1>3, LenProperties
<1> QED BY <1>2, <1>3, <1>4

\* What a tick does to what comes from the board.
LEMMA Ticked ==
  ASSUME Rig!Tick, RigTypes
  PROVE  /\ down' \in Seq([fw : Mode, obeyed : BOOLEAN])
         /\ DOMAIN down = 1 .. Len(down) /\ Len(down) \in Nat
         /\ \/ down' = down
            \/ /\ DOMAIN down' = 1 .. (Len(down) + 1)
               /\ \A i \in DOMAIN down : down'[i] = down[i]
               /\ down'[Len(down) + 1] = latest
<1> DEFINE F == [fw : Mode, obeyed : BOOLEAN]
<1>1. down \in Seq(F) /\ latest \in F /\ Len(down) \in Nat /\ DOMAIN down = 1 .. Len(down)
  BY LenProperties DEF RigTypes
<1>2. down' = down \/ down' = Append(down, latest)
  BY DEF Rig!Tick
<1> HIDE DEF F
<1>3. CASE down' = Append(down, latest)
  <2>1. down' \in Seq(F) /\ Len(down') = Len(down) + 1
        /\ (\A i \in 1 .. Len(down) : down'[i] = down[i]) /\ down'[Len(down) + 1] = latest
    BY <1>1, <1>3, AppendProperties
  <2>2. DOMAIN down' = 1 .. Len(down')
    BY <2>1, LenProperties
  <2> QED BY <1>1, <2>1, <2>2 DEF F
<1> QED BY <1>1, <1>2, <1>3 DEF F

LEMMA RigInit == ASSUME Rig!BenchAssumption, Rig!Init PROVE RigInv
<1>1. up = <<>> /\ down = <<>> /\ up \in Seq(Command)
      /\ down \in Seq([fw : Mode, obeyed : BOOLEAN]) /\ DOMAIN up = {}
  BY EmptySeq DEF Rig!Init
<1> QED BY <1>1 DEF Rig!Init, RigInv, RigTypes, MotionInv, Rig!MotionIsTrial,
               Rig!Frame, Mode, Rig!None, Rig!BenchAssumption

LEMMA RigStep == ASSUME Rig!BenchAssumption, RigInv, [Rig!Next]_(Rig!vars) PROVE RigInv'
<1> USE DEF Rig!Alone, Rig!board, Rig!read, Rig!program
<1>0. /\ RigTypes /\ MotionInv /\ Deadman \in Nat \ {0} /\ Drive \in Nat
      /\ Len(up) \in Nat /\ DOMAIN up = 1 .. Len(up)
  BY LenProperties DEF RigInv, RigTypes, Rig!BenchAssumption
<1>t. ASSUME Rig!Send("drive") \/ Rig!Send("stop") \/ Rig!Send("beat")
      PROVE  up' \in Seq(Command)
  BY <1>0, <1>t, Sent DEF RigTypes, Command
<1>1. CASE Rig!Receive
  <2> DEFINE c == Head(up)
  <2>1. /\ up' \in Seq(Command) /\ Len(up') = Len(up) - 1
        /\ DOMAIN up = 1 .. Len(up) /\ DOMAIN up' = 1 .. Len(up')
        /\ c = up[1] /\ c \in Command /\ 1 \in DOMAIN up
        /\ \A i \in DOMAIN up' : i + 1 \in DOMAIN up /\ up'[i] = up[i + 1]
        /\ \A i \in DOMAIN up : i # 1 => i - 1 \in DOMAIN up' /\ up'[i - 1] = up[i]
    BY <1>0, <1>1, Received DEF Rig!Receive, RigTypes
  <2>2. /\ fw' = CASE c = "drive" -> IF fw = "STOPPED" THEN fw ELSE "DRIVING"
               [] c = "stop"  -> IF fw = "STOPPED" THEN fw ELSE "ARMED"
               [] OTHER       -> fw
        /\ age' = 0 /\ tripped' = FALSE
        /\ UNCHANGED <<Rig!program, Rig!read, latest, session>>
        /\ obeyed' \in BOOLEAN
    BY <1>0, <1>1 DEF Rig!Receive, Rig!Obey, RigTypes
  <2> HIDE DEF c
  <2>3. RigTypes'
    BY <1>0, <2>1, <2>2 DEF RigTypes, Mode
  <2>4. session # "closed"
    BY <1>0, <1>1 DEF MotionInv, Rig!Receive
  <2>5. session = "open" => \A i \in DOMAIN up' :
         up'[i] = "drive" =>
           \/ pc = "drive"
           \/ tool = "deadman" /\ pc # "end"
           \/ \E j \in DOMAIN up' : i < j /\ up'[j] = "stop"
    <3> SUFFICES ASSUME session = "open", NEW i \in DOMAIN up', up'[i] = "drive",
                        pc # "drive", ~(tool = "deadman" /\ pc # "end")
                 PROVE  \E j \in DOMAIN up' : i < j /\ up'[j] = "stop"
      OBVIOUS
    <3>1. PICK k \in DOMAIN up : i + 1 < k /\ up[k] = "stop"
      BY <1>0, <2>1 DEF MotionInv
    <3> QED BY <1>0, <2>1, <3>1
  <2>6. Rig!MotionIsTrial'
    <3>1. CASE c = "drive"
      <4>1. CASE session = "cut"
        BY <1>0, <2>2, <4>1 DEF Rig!MotionIsTrial
      <4>2. CASE session = "open" /\ pc # "drive" /\ ~(tool = "deadman" /\ pc # "end")
        <5>1. PICK k \in DOMAIN up : 1 < k /\ up[k] = "stop"
          BY <2>1, <3>1, <4>2, <1>0 DEF MotionInv
        <5>2. k - 1 \in 1 .. Len(up') /\ up'[k - 1] = "stop"
          BY <2>1, <5>1
        <5> QED BY <5>2 DEF Rig!MotionIsTrial, Rig!Range
      <4> QED BY <1>0, <2>2, <2>4, <4>1, <4>2 DEF MotionInv, Rig!MotionIsTrial
    <3>2. CASE c = "stop"
      BY <1>0, <2>1, <2>2, <3>2 DEF Rig!MotionIsTrial
    <3>3. CASE c = "beat"
      <4>1. "stop" \in Rig!Range(up) => "stop" \in Rig!Range(up')
        BY <1>0, <2>1, <3>3 DEF Rig!Range
      <4> QED BY <1>0, <2>2, <3>3, <4>1 DEF MotionInv, Rig!MotionIsTrial
    <3> QED BY <2>1, <3>1, <3>2, <3>3 DEF Command
  <2> QED BY <1>0, <2>2, <2>3, <2>4, <2>5, <2>6 DEF RigInv, MotionInv
<1>2. CASE Rig!Recover
  BY <1>0, <1>2 DEF Rig!Recover, RigInv, RigTypes, MotionInv, Rig!MotionIsTrial, Mode
<1>3. CASE Rig!Notice
  <2>1. up' = <<>> /\ down' = <<>> /\ up' \in Seq(Command)
        /\ down' \in Seq([fw : Mode, obeyed : BOOLEAN])
    BY <1>3, EmptySeq DEF Rig!Notice
  <2>2. fw' # "DRIVING" /\ fw' \in Mode
    BY <1>0, <1>3 DEF Rig!Notice, RigTypes, Mode
  <2> QED BY <1>0, <1>3, <2>1, <2>2 DEF Rig!Notice, RigInv, RigTypes,
                 MotionInv, Rig!MotionIsTrial
<1>4. CASE Rig!Tick
  <2>1. /\ down' \in Seq([fw : Mode, obeyed : BOOLEAN])
        /\ UNCHANGED <<tool, pc, up, session, obeyed>>
        /\ age' \in Nat /\ wait' \in Nat
        /\ latest' \in [fw : Mode, obeyed : BOOLEAN]
    BY <1>0, <1>4, Ticked DEF Rig!Tick, RigTypes, Rig!Frame
  <2>2. Rig!Checked(age')
    BY <1>4 DEF Rig!Tick
  <2>3. panic' \in Int /\ fw' \in Mode
    BY <1>0, <2>1, <2>2 DEF Rig!Checked, RigTypes, Mode
  <2>4. fw' = "DRIVING" => fw = "DRIVING" /\ ~tripped' /\ age' < Deadman
    BY <1>0, <2>1, <2>2 DEF Rig!Checked, MotionInv
  <2> QED BY <1>0, <2>1, <2>3, <2>4 DEF RigInv, RigTypes, MotionInv, Rig!MotionIsTrial
<1>s. ASSUME NEW c \in Command, Rig!Send(c), session = "open",
             UNCHANGED <<latest, session, Rig!board, obeyed>> \/ UNCHANGED <<latest, session, Rig!board>>,
             RigTypes', tool' = tool,
             \/ c = "stop"
             \/ c = "drive" /\ pc' # "end" /\ (pc' = "drive" \/ tool = "deadman")
             \/ c = "beat" /\ pc' = pc,
             pc' \in {"hush", "silent"} => tool = "deadman"
      PROVE  RigInv'
  <2> DEFINE n == Len(up) + 1
  <2>1. /\ n \in 1 .. Len(up') /\ DOMAIN up' = 1 .. Len(up')
        /\ up'[n] = c
        /\ \A i \in DOMAIN up' : i = n \/ (i \in DOMAIN up /\ i < n)
        /\ \A i \in DOMAIN up : i \in DOMAIN up' /\ i < n /\ up'[i] = up[i]
    <3>1. /\ Len(up') = Len(up) + 1 /\ DOMAIN up' = 1 .. (Len(up) + 1)
          /\ up'[Len(up) + 1] = c
          /\ \A i \in DOMAIN up : up'[i] = up[i]
      BY <1>0, <1>s, Sent DEF RigTypes
    <3> QED BY <1>0, <3>1
  <2> HIDE DEF n
  <2>2. "stop" \in Rig!Range(up) => "stop" \in Rig!Range(up')
    BY <1>0, <2>1 DEF Rig!Range
  <2>3. c = "stop" => "stop" \in Rig!Range(up')
    BY <2>1 DEF Rig!Range
  <2>4. Rig!MotionIsTrial'
    BY <1>0, <1>s, <2>2, <2>3 DEF Rig!MotionIsTrial, MotionInv
  <2>5. \A i \in DOMAIN up' : up'[i] = "drive" =>
           \/ pc' = "drive"
           \/ tool' = "deadman" /\ pc' # "end"
           \/ \E j \in DOMAIN up' : i < j /\ up'[j] = "stop"
    <3>1. CASE c = "stop"
      <4> QED BY <2>1, <3>1
    <3>2. CASE c = "drive"
      BY <1>0, <1>s, <2>1, <3>2
    <3>3. CASE c = "beat"
      <4>1. pc' = pc
        BY <1>s, <3>3
      <4>2. session = "open" /\ tool' = tool
        BY <1>s
      <4>3. \A i \in DOMAIN up' : up'[i] = "drive" => i \in DOMAIN up /\ up[i] = "drive"
        BY <2>1, <3>3
      <4>5. \A i \in DOMAIN up : up[i] = "drive" =>
           \/ pc = "drive"
           \/ tool = "deadman" /\ pc # "end"
           \/ \E j \in DOMAIN up : i < j /\ up[j] = "stop"
        BY <1>0, <4>2 DEF MotionInv
      <4> QED BY <4>1, <4>2, <4>3, <4>5, <2>1
    <3> QED BY <1>s, <3>1, <3>2, <3>3
  <2> QED BY <1>0, <1>s, <2>4, <2>5 DEF RigInv, MotionInv
<1>d. down = down' \/ Rig!Drain \/ (down # <<>> /\ down' = Tail(down))
        => down' \in Seq([fw : Mode, obeyed : BOOLEAN])
  BY <1>0, Popped, Drained DEF RigTypes
<1>5. CASE Rig!Beat
  BY <1>0, <1>5, <1>s, <1>t DEF Rig!Beat, Rig!Room, RigTypes, Command
<1>6. CASE Rig!BeginTrial
  BY <1>0, <1>6, <1>s, <1>t DEF Rig!BeginTrial, Rig!Room, Rig!Go, RigTypes, Command
<1>7. CASE Rig!Settle
  BY <1>0, <1>7, <1>s, <1>t, <1>d DEF Rig!Settle, Rig!Room, Rig!Go, RigTypes, Command
<1>8. CASE Rig!Settled
  BY <1>0, <1>8, <1>s, <1>t, <1>d DEF Rig!Settled, Rig!Seen, Rig!Room, Rig!Go,
         RigTypes, Command
<1>9. CASE Rig!Refresh
  BY <1>0, <1>9, <1>s, <1>t DEF Rig!Refresh, Rig!Room, RigTypes, Command
<1>10. CASE Rig!StopTrial
  BY <1>0, <1>10, <1>s, <1>t DEF Rig!StopTrial, Rig!Room, Rig!Go, RigTypes, Command
<1>11. CASE Rig!StopProbe
  BY <1>0, <1>11, <1>s, <1>t, <1>d DEF Rig!StopProbe, Rig!Room, Rig!Go,
         RigTypes, Command
<1>12. CASE Rig!LastDrive
  BY <1>0, <1>12, <1>s, <1>t, <1>d DEF MotionInv, Rig!LastDrive, Rig!Room,
         Rig!Go, RigTypes, Command
<1>13. ASSUME NEW t, Rig!Finish(t), UNCHANGED Rig!read PROVE RigInv'
  BY <1>0, <1>13, <1>s, <1>t DEF Rig!Finish, Rig!Room, Rig!Go, RigTypes, Command
<1>14. CASE Rig!EndProbes
  BY <1>0, <1>14, <1>s, <1>t, <1>d DEF Rig!EndProbes, Rig!Finish, Rig!Room,
         Rig!Go, RigTypes, Command
<1>15. CASE Rig!Skip
  BY <1>0, <1>15, <1>d DEF Rig!Skip, RigInv, RigTypes, MotionInv, Rig!MotionIsTrial
<1>22. CASE Rig!Started
  BY <1>0, <1>22, <1>d DEF Rig!Started, Rig!Seen, RigInv, RigTypes, MotionInv,
         Rig!MotionIsTrial
<1>23. CASE Rig!Interrupt
  BY <1>0, <1>23 DEF Rig!Interrupt, RigInv, RigTypes, MotionInv, Rig!MotionIsTrial
<1>16. CASE Rig!FallSilent
  BY <1>0, <1>16 DEF Rig!FallSilent, Rig!Go, RigInv, RigTypes, MotionInv,
         Rig!MotionIsTrial, Rig!None
<1>17. CASE Rig!RecordStop
  BY <1>0, <1>17, <1>d DEF Rig!RecordStop, Rig!Seen, Rig!Go, RigInv, RigTypes,
         MotionInv, Rig!MotionIsTrial
<1>21. CASE Rig!RecordTrip
  BY <1>0, <1>21, <1>d DEF Rig!RecordTrip, Rig!Seen, Rig!Go, RigInv, RigTypes,
         MotionInv, Rig!MotionIsTrial, Rig!None
<1>18. CASE Rig!GiveUp
  BY <1>0, <1>18 DEF Rig!GiveUp, Rig!Go, RigInv, RigTypes, MotionInv,
         Rig!MotionIsTrial, Rig!None
<1>19. CASE Rig!Cut
  <2>1. PICK n \in 0 .. Len(up) : up' = SubSeq(up, 1, n)
    BY <1>19 DEF Rig!Cut
  <2>2. \A i \in 1 .. n : up[i] \in Command
    BY <1>0, ElementOfSeq DEF RigTypes
  <2>3. up' \in Seq(Command)
    BY <1>0, <2>1, <2>2, SubSeqProperties
  <2>4. down' \in Seq([fw : Mode, obeyed : BOOLEAN])
    BY <1>19, EmptySeq DEF Rig!Cut
  <2> QED BY <1>0, <1>19, <2>3, <2>4 DEF Rig!Cut, RigInv, RigTypes, MotionInv,
                 Rig!MotionIsTrial
<1>20. CASE UNCHANGED Rig!vars
  BY <1>0, <1>20 DEF Rig!vars, RigInv, RigTypes, MotionInv, Rig!MotionIsTrial
<1> QED BY <1>1, <1>2, <1>3, <1>4, <1>5, <1>6, <1>7, <1>8, <1>9, <1>10, <1>11, <1>12,
           <1>13, <1>14, <1>15, <1>16, <1>17, <1>18, <1>19, <1>20,
           <1>21, <1>22, <1>23 DEF Rig!Next, Rig!EndDry, Rig!EndBench

LEMMA RigCorrect == ASSUME Rig!BenchAssumption PROVE Rig!Spec => []RigInv
<1>1. Rig!Init => RigInv
  BY RigInit
<1>2. RigInv /\ [Rig!Next]_(Rig!vars) => RigInv'
  BY RigStep
<1> QED BY <1>1, <1>2, PTL DEF Rig!Spec

-----------------------------------------------------------------------------
\* The frames from the board on, the oldest first: all read one of S; once one
\* reads m, so do all that follow.
Modes(S) ==
    /\ \A i \in DOMAIN down : down[i].fw \in S
    /\ latest.fw \in S /\ fw \in S
Once(m) ==
    /\ \A i, j \in DOMAIN down : i <= j /\ down[i].fw = m => down[j].fw = m
    /\ \A i \in DOMAIN down : down[i].fw = m => latest.fw = m
    /\ latest.fw = m => fw = m

\* The commands under way are of S; behind c there are only heartbeats.
Coming(S) == \A i \in DOMAIN up : up[i] \in S
Final(c) == \A i, j \in DOMAIN up : i < j /\ up[i] = c => up[j] = "beat"

\* A probe between two trials, and until the last one has settled: the board
\* may be stopped from that one's trip, and is armed from some frame on.
Resting ==
    /\ Modes({"STOPPED", "ARMED"}) /\ Once("ARMED")
    /\ Coming({"stop", "beat"})
    /\ obeyed => Coming({"beat"})
    /\ pc = "rest" => obeyed
    /\ pc = "settle" => ~started

\* It drives: armed until the command arrives.
Driving ==
    /\ Modes({"ARMED", "DRIVING"}) /\ Once("DRIVING") /\ Final("drive")
    /\ fw = "DRIVING" => Coming({"beat"})
    /\ started => Modes({"DRIVING"})

Hushed == started /\ Modes({"DRIVING"}) /\ Coming({"beat"}) /\ panic = Rig!None

\* It has sent the stop and waits for a frame that shows it.
Stopping ==
    /\ started /\ Modes({"ARMED", "DRIVING"}) /\ Once("ARMED")
    /\ Coming({"stop", "beat"}) /\ Final("stop")
    /\ IF obeyed THEN Coming({"beat"}) ELSE Modes({"DRIVING"})
    /\ \A i \in DOMAIN down : down[i].fw = "ARMED" => down[i].obeyed
    /\ latest.fw = "ARMED" => latest.obeyed

\* It has sent its last command and waits for the timer.
Silent ==
    /\ started /\ Once("STOPPED")
    /\ IF obeyed THEN up = <<>> /\ age <= wait
       ELSE /\ Coming({"drive", "beat"}) /\ up # <<>> /\ fw = "DRIVING"
            /\ \A i \in DOMAIN up : up[i] = "drive" <=> i = Len(up)
    /\ IF panic = Rig!None THEN fw # "STOPPED"
       ELSE fw = "STOPPED" /\ tripped /\ obeyed /\ Deadman <= panic /\ panic <= wait

Probing == tool \in {"motor", "deadman"} /\ ~slow

PhaseInv ==
    /\ Probing /\ pc \in {"rest", "settle"} => Resting
    /\ Probing /\ pc = "drive" => Driving
    /\ Probing /\ pc = "hush" => Hushed
    /\ Probing /\ pc = "stopped" => Stopping
    /\ Probing /\ pc = "silent" => Silent

BaseInv ==
    /\ session # "open" => pc = "end"
    /\ pc = "stopped" => tool # "deadman"
    /\ pc \in {"settle", "drive", "stopped", "hush", "silent"} => row = Rig!Empty

RowsInv == BaseInv /\ PhaseInv /\ Rig!RowsReal

\* Frames are read from the front.
LEMMA Shifted ==
  ASSUME NEW n \in Nat, RigTypes, UNCHANGED <<latest, fw>>,
         DOMAIN down = 1 .. Len(down), Len(down) \in Nat,
         DOMAIN down' = 1 .. (Len(down) - n),
         \A i \in DOMAIN down' : down'[i] = down[i + n]
  PROVE  /\ \A S : Modes(S) => Modes(S)'
         /\ \A m : Once(m) => Once(m)'
         /\ (\A i \in DOMAIN down : down[i].fw = "ARMED" => down[i].obeyed)
              => (\A i \in DOMAIN down' : down'[i].fw = "ARMED" => down'[i].obeyed)
<1>1. \A i \in DOMAIN down' : i + n \in DOMAIN down
  OBVIOUS
<1>2. \A i, j \in DOMAIN down' : i <= j => i + n <= j + n
  OBVIOUS
<1> QED BY <1>1, <1>2 DEF Modes, Once

LEMMA BaseStep == ASSUME BaseInv, [Rig!Next]_(Rig!vars) PROVE BaseInv'
<1> USE DEF BaseInv, Rig!Room, Rig!Go, Rig!Alone, Rig!program, Rig!read, Rig!board
<1>1. CASE Rig!Receive \/ Rig!Recover \/ Rig!Notice \/ Rig!Tick
  BY <1>1 DEF Rig!Receive, Rig!Recover, Rig!Notice, Rig!Tick
<1>2. CASE Rig!Beat \/ Rig!Skip \/ Rig!Refresh \/ Rig!Started \/ Rig!Interrupt
  BY <1>2 DEF Rig!Beat, Rig!Skip, Rig!Refresh, Rig!Started, Rig!Interrupt
<1>3. CASE Rig!BeginTrial \/ Rig!Settle \/ Rig!Settled
  BY <1>3 DEF Rig!BeginTrial, Rig!Settle, Rig!Settled
<1>4. CASE Rig!StopTrial \/ Rig!StopProbe \/ Rig!FallSilent \/ Rig!LastDrive
  BY <1>4 DEF Rig!StopTrial, Rig!StopProbe, Rig!FallSilent, Rig!LastDrive
<1>5. CASE Rig!RecordStop \/ Rig!RecordTrip \/ Rig!GiveUp
  BY <1>5 DEF Rig!RecordStop, Rig!RecordTrip, Rig!GiveUp
<1>6. CASE Rig!EndDry \/ Rig!EndBench \/ Rig!EndProbes \/ Rig!Cut
  BY <1>6 DEF Rig!EndDry, Rig!EndBench, Rig!EndProbes, Rig!Finish, Rig!Cut
<1>7. CASE UNCHANGED Rig!vars
  BY <1>7 DEF Rig!vars
<1> QED BY <1>1, <1>2, <1>3, <1>4, <1>5, <1>6, <1>7 DEF Rig!Next

LEMMA RowStep ==
  ASSUME RigInv, BaseInv, PhaseInv, Rig!RowsReal, [Rig!Next]_(Rig!vars) PROVE Rig!RowsReal'
<1> USE DEF Rig!RowsReal, Rig!Go, Rig!Alone, Rig!program, Rig!read, Rig!board
<1>1. CASE Rig!Receive \/ Rig!Recover \/ Rig!Notice
  BY <1>1 DEF Rig!Receive, Rig!Recover, Rig!Notice
<1>2. CASE Rig!Tick
  <2>1. UNCHANGED <<row, started, tool>> /\ (slow => slow')
    BY <1>2 DEF Rig!Tick, Rig!Checked
  <2> QED BY <2>1
<1>3. CASE Rig!Beat \/ Rig!Skip \/ Rig!Refresh \/ Rig!Interrupt
  BY <1>3 DEF Rig!Beat, Rig!Skip, Rig!Refresh, Rig!Interrupt
<1>4. CASE Rig!BeginTrial \/ Rig!Settle
  BY <1>4 DEF Rig!BeginTrial, Rig!Settle
<1>5. CASE Rig!Settled \/ Rig!StopTrial \/ Rig!FallSilent \/ Rig!LastDrive
  BY <1>5 DEF Rig!Settled, Rig!StopTrial, Rig!FallSilent, Rig!LastDrive
<1>6. CASE Rig!StopProbe
  BY <1>6 DEF Rig!StopProbe
<1>7. CASE Rig!Started
  BY <1>7 DEF Rig!Started, BaseInv
<1>8. CASE Rig!RecordStop
  <2>1. /\ pc = "stopped" /\ Head(down) = down[1] /\ 1 \in DOMAIN down
        /\ down[1].fw = "ARMED" /\ UNCHANGED <<tool, started, slow>>
        /\ row'.real = down[1].obeyed
    BY <1>8, Popped DEF RigInv, Rig!RecordStop, Rig!Seen
  <2>2. tool = "motor" /\ ~slow => down[1].obeyed
    BY <2>1 DEF PhaseInv, Probing, Stopping
  <2>3. tool # "deadman"
    BY <2>1 DEF BaseInv
  <2> QED BY <2>1, <2>2, <2>3
<1>9. CASE Rig!RecordTrip
  <2>1. /\ pc = "silent" /\ Head(down) = down[1] /\ 1 \in DOMAIN down
        /\ down[1].fw = "STOPPED" /\ UNCHANGED <<tool, started, slow>>
        /\ row'.ms = wait /\ row'.panic = panic
    BY <1>9, Popped DEF RigInv, Rig!RecordTrip, Rig!Seen
  <2>2. tool = "deadman"
    BY <2>1 DEF RigInv, MotionInv
  <2>3. ~slow => fw = "STOPPED" /\ panic # Rig!None
    BY <2>1, <2>2 DEF PhaseInv, Probing, Silent, Once
  <2>4. ~slow => Deadman <= panic /\ panic <= wait
    BY <2>1, <2>2, <2>3 DEF PhaseInv, Probing, Silent
  <2> QED BY <2>1, <2>2, <2>4
<1>10. CASE Rig!GiveUp
  BY <1>10 DEF Rig!GiveUp
<1>11. CASE Rig!EndDry \/ Rig!EndBench \/ Rig!EndProbes \/ Rig!Cut
  BY <1>11 DEF Rig!EndDry, Rig!EndBench, Rig!EndProbes, Rig!Finish, Rig!Cut
<1>12. CASE UNCHANGED Rig!vars
  BY <1>12 DEF Rig!vars
<1> QED BY <1>1, <1>2, <1>3, <1>4, <1>5, <1>6, <1>7, <1>8, <1>9, <1>10, <1>11,
           <1>12 DEF Rig!Next

LEMMA PhaseStep ==
  ASSUME Rig!BenchAssumption, RigInv, RigInv', BaseInv, PhaseInv, [Rig!Next]_(Rig!vars) PROVE PhaseInv'
<1> USE DEF Rig!Alone, Rig!program, Rig!read, Rig!board
<1>0. /\ RigTypes /\ RigTypes' /\ Deadman \in Nat \ {0} /\ Drive \in Nat
      /\ Len(up) \in Nat /\ DOMAIN up = 1 .. Len(up)
      /\ Len(down) \in Nat /\ DOMAIN down = 1 .. Len(down)
  BY LenProperties DEF RigInv, RigTypes, Rig!BenchAssumption
<1> SUFFICES ASSUME Probing' PROVE PhaseInv'
  BY DEF PhaseInv
<1>b. /\ pc \in {"hush", "silent"} => tool = "deadman"
      /\ pc = "stopped" => tool # "deadman"
      /\ session # "open" => pc = "end"
  BY DEF RigInv, MotionInv, BaseInv
<1>e. ASSUME pc' = "end" PROVE PhaseInv'
  BY <1>e DEF PhaseInv
<1>p. ASSUME tool' = tool, slow => slow'
      PROVE  /\ Probing
             /\ pc \in {"rest", "settle"} => Resting
             /\ pc = "drive" => Driving
             /\ pc = "hush" => Hushed
             /\ pc = "stopped" => Stopping
             /\ pc = "silent" => Silent
  BY <1>p DEF PhaseInv, Probing
\* What the program reads.
<1>r. ASSUME Rig!Drain \/ (down # <<>> /\ down' = Tail(down)), UNCHANGED <<latest, fw>>
      PROVE  /\ \A S : Modes(S) => Modes(S)'
             /\ \A m : Once(m) => Once(m)'
             /\ (\A i \in DOMAIN down : down[i].fw = "ARMED" => down[i].obeyed)
                  => (\A i \in DOMAIN down' : down'[i].fw = "ARMED" => down'[i].obeyed)
  <2>1. \E n \in Nat : /\ DOMAIN down' = 1 .. (Len(down) - n)
                       /\ \A i \in DOMAIN down' : down'[i] = down[i + n]
    <3>1. CASE Rig!Drain
      BY <1>0, <3>1, Drained
    <3>2. CASE down # <<>> /\ down' = Tail(down)
      BY <1>0, <3>2, Popped
    <3> QED BY <1>r, <3>1, <3>2
  <2> QED BY <1>0, <1>r, <2>1, Shifted
<1>m. ASSUME NEW m, Rig!Seen(m), Once(m), UNCHANGED <<latest, fw>>
      PROVE  Modes({m})'
  <2>1. /\ down[1].fw = m /\ 1 \in DOMAIN down
        /\ DOMAIN down' = 1 .. (Len(down) - 1)
        /\ \A i \in DOMAIN down' : down'[i] = down[i + 1]
    BY <1>0, <1>m, Popped DEF Rig!Seen
  <2>2. \A i \in DOMAIN down' : i + 1 \in DOMAIN down /\ 1 <= i + 1
    BY <1>0, <2>1
  <2> QED BY <1>m, <2>1, <2>2 DEF Modes, Once
\* What the program sends.
<1>s. ASSUME NEW c \in Command, Rig!Send(c)
      PROVE  /\ \A S : Coming(S) /\ c \in S => Coming(S)'
             /\ c = "beat" => \A d : Final(d) => Final(d)'
             /\ (\A i \in DOMAIN up : up[i] # c) => Final(c)'
             /\ Coming({"beat"}) => \A i \in DOMAIN up' : c # "beat" => (up'[i] = c <=> i = Len(up'))
             /\ up' # <<>>
  <2> DEFINE n == Len(up) + 1
  <2>1. /\ n = Len(up') /\ n \in DOMAIN up'
        /\ up'[n] = c
        /\ \A i \in DOMAIN up' : i \in Nat /\ (i = n \/ (i \in DOMAIN up /\ i < n))
        /\ \A i \in DOMAIN up : i \in DOMAIN up' /\ i < n /\ up'[i] = up[i]
    <3>1. /\ Len(up') = Len(up) + 1 /\ DOMAIN up' = 1 .. (Len(up) + 1)
          /\ up'[Len(up) + 1] = c
          /\ \A i \in DOMAIN up : up'[i] = up[i]
      BY <1>0, <1>s, Sent DEF RigTypes
    <3> QED BY <1>0, <3>1
  <2> HIDE DEF n
  <2>2. n \in Nat
    BY <2>1
  <2>3. \A S : Coming(S) /\ c \in S => Coming(S)'
    BY <2>1 DEF Coming
  <2>4. c = "beat" => \A d : Final(d) => Final(d)'
    BY <2>1, <2>2 DEF Final
  <2>5. (\A i \in DOMAIN up : up[i] # c) => Final(c)'
    BY <2>1, <2>2 DEF Final
  <2>6. Coming({"beat"}) => \A i \in DOMAIN up' : c # "beat" => (up'[i] = c <=> i = Len(up'))
    BY <2>1, <2>2 DEF Coming
  <2>7. up' # <<>>
    BY <2>1
  <2> QED BY <2>3, <2>4, <2>5, <2>6, <2>7
<1>c. \A S, T : Coming(S) /\ S \subseteq T => Coming(T)
  BY DEF Coming
<1>k. \A S, T : Modes(S) /\ S \subseteq T => Modes(T)
  BY DEF Modes

<1>5. CASE Rig!Beat
  <2>1. /\ UNCHANGED <<tool, pc, wait, started, panic, down, latest, fw, age, tripped, obeyed, slow>>
        /\ pc \notin {"hush", "silent", "end"} /\ Rig!Send("beat")
    BY <1>5 DEF Rig!Beat
  <2>2. Resting => Resting'
    BY <1>s, <2>1 DEF Resting, Modes, Once, Command
  <2>3. Driving => Driving'
    BY <1>s, <2>1 DEF Driving, Modes, Once, Command
  <2>4. Stopping => Stopping'
    BY <1>s, <2>1 DEF Stopping, Modes, Once, Command
  <2> QED BY <1>p, <2>1, <2>2, <2>3, <2>4 DEF PhaseInv
<1>6. CASE Rig!BeginTrial \/ Rig!Refresh \/ Rig!StopTrial \/ Rig!Interrupt \/ Rig!EndDry \/ Rig!EndBench
  BY <1>6 DEF Rig!BeginTrial, Rig!Refresh, Rig!StopTrial, Rig!Interrupt,
         Rig!EndDry, Rig!EndBench, Rig!Finish, Probing
<1>7. CASE Rig!Settle
  <2>1. /\ UNCHANGED <<tool, slow, latest, fw>> /\ pc = "rest" /\ pc' = "settle"
        /\ Rig!Send("stop") /\ Rig!Drain /\ ~obeyed' /\ ~started'
    BY <1>0, <1>7 DEF Rig!Settle, Rig!Go
  <2>2. Resting
    BY <1>p, <2>1
  <2>3. Modes({"STOPPED", "ARMED"})' /\ Once("ARMED")'
    BY <1>r, <2>1, <2>2 DEF Resting
  <2>4. Coming({"stop", "beat"})'
    BY <1>s, <2>1, <2>2 DEF Resting, Command
  <2> QED BY <2>1, <2>3, <2>4 DEF PhaseInv, Resting
<1>8. CASE Rig!Settled
  <2>1. /\ UNCHANGED <<tool, slow, latest, fw, started>> /\ pc = "settle" /\ pc' = "drive"
        /\ Rig!Send("drive") /\ Rig!Seen("ARMED") /\ ~obeyed'
    BY <1>0, <1>8 DEF Rig!Settled, Rig!Go
  <2>2. Resting
    BY <1>p, <2>1
  <2>3. Modes({"ARMED"})'
    BY <1>m, <2>1, <2>2 DEF Resting
  <2>4. Final("drive")'
    BY <1>s, <2>1, <2>2 DEF Resting, Coming, Command
  <2>5. ~started
    BY <2>1, <2>2 DEF Resting
  <2> QED BY <1>k, <2>1, <2>3, <2>4, <2>5 DEF PhaseInv, Driving, Modes, Once

<1>9. CASE Rig!Skip
  <2>1. /\ UNCHANGED <<tool, pc, wait, started, panic, up, latest, fw, age, tripped, obeyed, slow>>
        /\ down # <<>> /\ down' = Tail(down)
    BY <1>9 DEF Rig!Skip
  <2>2. Resting => Resting'
    BY <1>r, <2>1 DEF Resting, Coming
  <2>3. Driving => Driving'
    BY <1>r, <2>1 DEF Driving, Coming, Final
  <2>4. Stopping => Stopping'
    BY <1>r, <2>1 DEF Stopping, Coming, Final
  <2>5. Hushed => Hushed'
    BY <1>r, <2>1 DEF Hushed, Coming
  <2>6. Silent => Silent'
    BY <1>r, <2>1 DEF Silent, Coming
  <2> QED BY <1>p, <2>1, <2>2, <2>3, <2>4, <2>5, <2>6 DEF PhaseInv
<1>10. CASE Rig!Started
  <2>1. /\ UNCHANGED <<tool, pc, up, latest, fw, slow>>
        /\ pc = "drive" /\ Rig!Seen("DRIVING")
    BY <1>10 DEF Rig!Started
  <2>2. Driving
    BY <1>p, <2>1
  <2>3. Modes({"DRIVING"})'
    BY <1>m, <2>1, <2>2 DEF Driving
  <2>4. Modes({"ARMED", "DRIVING"})' /\ Once("DRIVING")'
    BY <2>3 DEF Modes, Once
  <2>5. Final("drive")' /\ (fw' = "DRIVING" => Coming({"beat"})')
    BY <2>1, <2>2 DEF Driving, Coming, Final
  <2> QED BY <2>1, <2>3, <2>4, <2>5 DEF PhaseInv, Driving
<1>11. CASE Rig!StopProbe
  <2>1. /\ UNCHANGED <<tool, latest, fw, started>> /\ pc = "drive" /\ pc' = "stopped"
        /\ Rig!Send("stop") /\ Rig!Drain /\ ~obeyed' /\ slow' = (slow \/ ~started)
    BY <1>0, <1>11 DEF Rig!StopProbe, Rig!Go
  <2>2. started
    BY <2>1 DEF Probing
  <2>3. Driving /\ Modes({"DRIVING"}) /\ Coming({"beat"})
    BY <1>p, <2>1, <2>2 DEF Driving, Modes
  <2>4. Modes({"DRIVING"})'
    BY <1>r, <2>1, <2>3
  <2>5. Coming({"stop", "beat"})' /\ Final("stop")'
    BY <1>s, <1>c, <2>1, <2>3 DEF Coming, Command
  <2> QED BY <2>1, <2>2, <2>4, <2>5 DEF PhaseInv, Stopping, Modes, Once
<1>12. CASE Rig!FallSilent
  <2>1. /\ UNCHANGED <<tool, latest, fw, started, up, down, slow>> /\ pc = "drive" /\ pc' = "hush"
        /\ started /\ panic' = Rig!None
    BY <1>0, <1>12 DEF Rig!FallSilent, Rig!Go
  <2>2. Driving
    BY <1>p, <2>1
  <2> QED BY <2>1, <2>2 DEF PhaseInv, Driving, Hushed, Modes, Coming
<1>13. CASE Rig!LastDrive
  <2>1. /\ UNCHANGED <<tool, latest, fw, started, slow, panic>> /\ pc = "hush" /\ pc' = "silent"
        /\ Rig!Send("drive") /\ Rig!Drain /\ ~obeyed'
    BY <1>0, <1>13 DEF Rig!LastDrive, Rig!Go
  <2>2. Hushed
    BY <1>p, <2>1
  <2>3. Modes({"DRIVING"})'
    BY <1>r, <2>1, <2>2 DEF Hushed
  <2>4. /\ Coming({"drive", "beat"})' /\ up' # <<>>
        /\ \A i \in DOMAIN up' : up'[i] = "drive" <=> i = Len(up')
    BY <1>s, <1>c, <2>1, <2>2 DEF Hushed, Coming, Command
  <2>5. panic' = Rig!None
    BY <2>1, <2>2 DEF Hushed
  <2> QED BY <2>1, <2>2, <2>3, <2>4, <2>5 DEF PhaseInv, Silent, Hushed, Modes, Once
<1>14. CASE Rig!RecordStop
  <2>1. /\ UNCHANGED <<tool, latest, fw, up, obeyed, slow>> /\ pc = "stopped" /\ pc' = "rest"
        /\ Rig!Seen("ARMED")
    BY <1>0, <1>14 DEF Rig!RecordStop, Rig!Go
  <2>2. Stopping
    BY <1>p, <2>1
  <2>3. Modes({"ARMED"})'
    BY <1>m, <2>1, <2>2 DEF Stopping
  <2>4. obeyed
    <3>1. down[1].fw = "ARMED" /\ 1 \in DOMAIN down
      BY <1>0, <2>1, Popped DEF Rig!Seen
    <3> QED BY <2>2, <3>1 DEF Stopping, Modes
  <2>5. Coming({"beat"})' /\ Coming({"stop", "beat"})'
    BY <2>1, <2>2, <2>4 DEF Stopping, Coming
  <2> QED BY <2>1, <2>3, <2>4, <2>5 DEF PhaseInv, Resting, Modes, Once
<1>15. CASE Rig!RecordTrip
  <2>1. /\ UNCHANGED <<tool, latest, fw, up, obeyed, slow>> /\ pc = "silent" /\ pc' = "rest"
        /\ Rig!Seen("STOPPED")
    BY <1>0, <1>15 DEF Rig!RecordTrip, Rig!Go
  <2>2. Silent
    BY <1>p, <2>1
  <2>3. Modes({"STOPPED"})'
    BY <1>m, <2>1, <2>2 DEF Silent
  <2>4. obeyed /\ up = <<>>
    <3>1. fw = "STOPPED"
      BY <2>1, <2>3 DEF Modes
    <3> QED BY <2>2, <3>1 DEF Silent
  <2>5. Coming({"beat"})' /\ Coming({"stop", "beat"})'
    BY <2>1, <2>4 DEF Coming
  <2> QED BY <2>1, <2>3, <2>4, <2>5 DEF PhaseInv, Resting, Modes, Once
<1>16. CASE Rig!GiveUp
  BY <1>16 DEF Rig!GiveUp, Probing
<1>17. CASE Rig!EndProbes \/ Rig!Cut
  BY <1>e, <1>17 DEF Rig!EndProbes, Rig!Finish, Rig!Go, Rig!Cut
<1>18. CASE Rig!Notice
  BY <1>b, <1>e, <1>18 DEF Rig!Notice
<1>19. CASE UNCHANGED Rig!vars
  <2>1. UNCHANGED <<tool, pc, wait, started, panic, up, down, latest, fw, age, tripped, obeyed, slow>>
    BY <1>19 DEF Rig!vars
  <2>2. /\ (Resting => Resting') /\ (Driving => Driving') /\ (Hushed => Hushed')
        /\ (Stopping => Stopping') /\ (Silent => Silent')
    BY <2>1 DEF Resting, Driving, Hushed, Stopping, Silent, Modes, Once, Coming, Final
  <2> QED BY <1>p, <2>1, <2>2 DEF PhaseInv
<1>20. CASE Rig!Recover
  <2>1. /\ UNCHANGED <<tool, pc, wait, started, panic, up, down, latest, age, tripped, obeyed, slow>>
        /\ fw = "STOPPED" /\ ~tripped /\ fw' = "ARMED"
    BY <1>20 DEF Rig!Recover
  <2>2. Resting => Resting'
    BY <2>1 DEF Resting, Modes, Once, Coming
  <2>3. ~Driving /\ ~Hushed /\ ~Stopping /\ ~Silent
    BY <2>1 DEF Driving, Hushed, Stopping, Silent, Modes
  <2> QED BY <1>p, <2>1, <2>2, <2>3 DEF PhaseInv
<1>21. CASE Rig!Receive
  <2> DEFINE c == Head(up)
  <2>1. /\ Len(up') = Len(up) - 1 /\ DOMAIN up' = 1 .. Len(up')
        /\ c = up[1] /\ c \in Command /\ 1 \in DOMAIN up
        /\ \A i \in DOMAIN up' : i + 1 \in DOMAIN up /\ up'[i] = up[i + 1]
    BY <1>0, <1>21, Received DEF Rig!Receive, RigTypes
  <2>2. /\ fw' = CASE c = "drive" -> IF fw = "STOPPED" THEN fw ELSE "DRIVING"
               [] c = "stop"  -> IF fw = "STOPPED" THEN fw ELSE "ARMED"
               [] OTHER       -> fw
        /\ age' = 0 /\ tripped' = FALSE
        /\ UNCHANGED <<tool, pc, wait, started, panic, down, latest, slow>>
        /\ obeyed' = (obeyed \/ Rig!Range(up') \subseteq {"beat"})
    BY <1>21 DEF Rig!Receive, Rig!Obey
  <2> HIDE DEF c
  <2>3. obeyed' <=> obeyed \/ Coming({"beat"})'
    BY <1>0, <2>2 DEF Rig!Range, Coming, RigTypes
  <2>4. \A S : Coming(S) => Coming(S)' /\ c \in S
    BY <2>1 DEF Coming
  <2>5. \A d : Final(d) => Final(d)' /\ (c = d => Coming({"beat"})')
    <3> SUFFICES ASSUME NEW d, Final(d) PROVE Final(d)' /\ (c = d => Coming({"beat"})')
      OBVIOUS
    <3>1. Final(d)'
      BY <1>0, <2>1 DEF Final
    <3>2. c = d => Coming({"beat"})'
      <4>1. \A i \in DOMAIN up' : 1 < i + 1 /\ i + 1 \in DOMAIN up
        BY <1>0, <2>1
      <4> QED BY <2>1, <4>1 DEF Final, Coming
    <3> QED BY <3>1, <3>2
  <2>6. CASE pc \in {"rest", "settle"}
    <3>1. Resting /\ c \in {"stop", "beat"}
      BY <1>p, <2>2, <2>4, <2>6 DEF Resting
    <3>2. fw' = fw
      BY <2>2, <3>1 DEF Resting, Modes
    <3>3. Modes({"STOPPED", "ARMED"})' /\ Once("ARMED")'
      BY <2>2, <3>1, <3>2 DEF Resting, Modes, Once
    <3> QED BY <2>2, <2>3, <2>4, <2>6, <3>1, <3>3 DEF PhaseInv, Resting
  <2>7. CASE pc = "drive"
    <3>1. Driving /\ fw \in {"ARMED", "DRIVING"}
      BY <1>p, <2>2, <2>7 DEF Driving, Modes
    <3>2. Final("drive")'
      BY <2>5, <3>1 DEF Driving
    <3>3. CASE fw = "DRIVING"
      <4>1. c = "beat" /\ fw' = "DRIVING" /\ Coming({"beat"})'
        BY <2>2, <2>4, <3>1, <3>3 DEF Driving
      <4>2. Driving'
        BY <2>2, <3>1, <3>2, <3>3, <4>1 DEF Driving, Modes, Once
      <4> QED BY <2>2, <2>7, <4>2 DEF PhaseInv
    <3>4. CASE fw = "ARMED"
      <4>1. fw' \in {"ARMED", "DRIVING"} /\ (fw' = "DRIVING" => c = "drive")
        BY <2>1, <2>2, <3>4 DEF Command
      <4>2. ~started /\ latest.fw = "ARMED" /\ \A i \in DOMAIN down : down[i].fw = "ARMED"
        BY <3>1, <3>4 DEF Driving, Modes, Once
      <4>3. fw' = "DRIVING" => Coming({"beat"})'
        BY <2>5, <3>1, <4>1 DEF Driving
      <4>4. Driving'
        BY <2>2, <3>2, <4>1, <4>2, <4>3 DEF Driving, Modes, Once
      <4> QED BY <2>2, <2>7, <4>4 DEF PhaseInv
    <3> QED BY <3>1, <3>3, <3>4
  <2>8. CASE pc = "hush"
    <3>1. Hushed /\ c = "beat"
      BY <1>p, <2>2, <2>4, <2>8 DEF Hushed
    <3>2. Hushed'
      BY <2>2, <2>4, <3>1 DEF Hushed, Modes
    <3> QED BY <2>2, <2>8, <3>2 DEF PhaseInv
  <2>9. CASE pc = "stopped"
    <3>1. Stopping /\ c \in {"stop", "beat"} /\ fw \in {"ARMED", "DRIVING"}
      BY <1>p, <2>2, <2>4, <2>9 DEF Stopping, Modes
    <3>2. Coming({"stop", "beat"})' /\ Final("stop")' /\ (c = "stop" => Coming({"beat"})')
      BY <2>4, <2>5, <3>1 DEF Stopping
    <3>3. CASE obeyed
      <4>1. c = "beat" /\ fw' = fw /\ obeyed' /\ Coming({"beat"})'
        BY <2>2, <2>3, <2>4, <3>1, <3>3 DEF Stopping
      <4>2. Stopping'
        BY <2>2, <3>1, <3>2, <4>1 DEF Stopping, Modes, Once
      <4> QED BY <2>2, <2>9, <4>2 DEF PhaseInv
    <3>4. CASE ~obeyed /\ c = "stop"
      <4>1. fw = "DRIVING" /\ fw' = "ARMED" /\ obeyed' /\ Coming({"beat"})'
        BY <2>2, <2>3, <3>1, <3>2, <3>4 DEF Stopping, Modes
      <4>2. latest.fw = "DRIVING" /\ \A i \in DOMAIN down : down[i].fw = "DRIVING"
        BY <3>1, <3>4 DEF Stopping, Modes
      <4>3. Stopping'
        BY <2>2, <3>1, <3>2, <4>1, <4>2 DEF Stopping, Modes, Once
      <4> QED BY <2>2, <2>9, <4>3 DEF PhaseInv
    <3>5. CASE ~obeyed /\ c = "beat"
      <4>1. fw' = fw /\ Modes({"DRIVING"})'
        BY <2>2, <3>1, <3>5 DEF Stopping, Modes
      <4>2. Modes({"ARMED", "DRIVING"})' /\ Once("ARMED")'
        BY <4>1 DEF Modes, Once
      <4>3. obeyed' => Coming({"beat"})'
        BY <2>3, <3>5
      <4>4. \A i \in DOMAIN down' : down'[i].fw # "ARMED"
        BY <4>1 DEF Modes
      <4>5. latest'.fw # "ARMED"
        BY <4>1 DEF Modes
      <4>6. Stopping'
        BY <2>2, <3>1, <3>2, <4>1, <4>2, <4>3, <4>4, <4>5 DEF Stopping
      <4> QED BY <2>2, <2>9, <4>6 DEF PhaseInv
    <3> QED BY <3>1, <3>3, <3>4, <3>5
  <2>10. CASE pc = "silent"
    <3>1. Silent /\ ~obeyed
      BY <1>0, <1>p, <2>1, <2>2, <2>10 DEF Silent
    <3>2. /\ Coming({"drive", "beat"})' /\ c \in {"drive", "beat"}
          /\ fw = "DRIVING" /\ fw' = "DRIVING"
          /\ panic' = Rig!None
      BY <2>2, <2>4, <3>1 DEF Silent
    <3>3. Once("STOPPED")'
      BY <2>2, <3>1, <3>2 DEF Silent, Once
    <3>4. CASE Len(up) = 1
      <4>1. up' = <<>>
        BY <1>0, <2>1, <3>4, EmptySeq DEF RigTypes
      <4>2. obeyed'
        BY <2>1, <2>3, <3>4 DEF Coming
      <4>3. Silent'
        BY <1>0, <2>2, <3>1, <3>2, <3>3, <4>1, <4>2 DEF Silent, RigTypes
      <4> QED BY <2>2, <2>10, <4>3 DEF PhaseInv
    <3>5. CASE Len(up) # 1
      <4>1. /\ Len(up') \in DOMAIN up'
            /\ \A i \in DOMAIN up' : up'[i] = "drive" <=> i = Len(up')
        BY <1>0, <2>1, <3>1, <3>5 DEF Silent
      <4>2. ~obeyed' /\ up' # <<>>
        BY <2>3, <3>1, <4>1 DEF Coming
      <4>3. Silent'
        BY <2>2, <3>1, <3>2, <3>3, <4>1, <4>2 DEF Silent
      <4> QED BY <2>2, <2>10, <4>3 DEF PhaseInv
    <3> QED BY <3>4, <3>5
  <2> QED BY <2>2, <2>6, <2>7, <2>8, <2>9, <2>10 DEF PhaseInv
<1>22. CASE Rig!Tick
  <2>1. /\ UNCHANGED <<tool, pc, started, up, obeyed>>
        /\ age' = IF age <= Deadman THEN age + 1 ELSE age
        /\ wait' = IF pc \in {"drive", "silent"} /\ wait <= Deadman + Drive THEN wait + 1 ELSE wait
        /\ Rig!Checked(age')
        /\ latest' \in {latest, Rig!Frame}
    BY <1>22 DEF Rig!Tick
  <2>2. \/ down' = down
        \/ /\ DOMAIN down' = 1 .. (Len(down) + 1)
           /\ \A i \in DOMAIN down : down'[i] = down[i]
           /\ down'[Len(down) + 1] = latest
    BY <1>0, <1>22, Ticked
  <2>3. slow => slow'
    BY <2>1 DEF Rig!Checked
  <2>4. latest'.fw = latest.fw \/ latest'.fw = fw
    BY <2>1 DEF Rig!Frame
  <2>5. \A i \in DOMAIN down' : \/ i \in DOMAIN down /\ down'[i] = down[i]
                                \/ i = Len(down) + 1 /\ down'[i] = latest
    BY <1>0, <2>2
  <2>6. \A i, j \in DOMAIN down' : i <= j /\ i \notin DOMAIN down => j \notin DOMAIN down
    BY <1>0, <2>2
  \* The frames with what the board reads now at their end.
  <2>7. ASSUME fw' = fw
        PROVE  /\ \A S : Modes(S) => Modes(S)'
               /\ \A m : Once(m) => Once(m)'
    <3>1. \A S : Modes(S) => Modes(S)'
      BY <2>4, <2>5, <2>7 DEF Modes
    <3>2. ASSUME NEW m, Once(m) PROVE Once(m)'
      <4>1. \A i, j \in DOMAIN down' : i <= j /\ down'[i].fw = m => down'[j].fw = m
        BY <2>5, <2>6, <3>2 DEF Once
      <4> QED BY <2>4, <2>5, <2>7, <3>2, <4>1 DEF Once
    <3> QED BY <3>1, <3>2
  <2>8. CASE ~(age' >= Deadman /\ ~tripped)
    <3>1. UNCHANGED <<tripped, fw, panic, slow>>
      BY <2>1, <2>8 DEF Rig!Checked
    <3>2. /\ \A S : Modes(S) => Modes(S)'
          /\ \A m : Once(m) => Once(m)'
      BY <2>7, <3>1
    <3>3. /\ \A S : Coming(S) => Coming(S)'
          /\ \A d : Final(d) => Final(d)'
      BY <2>1 DEF Coming, Final
    <3>4. Resting => Resting'
      BY <2>1, <3>2, <3>3 DEF Resting
    <3>5. Driving => Driving'
      BY <2>1, <3>1, <3>2, <3>3 DEF Driving
    <3>6. Hushed => Hushed'
      BY <2>1, <3>1, <3>2, <3>3 DEF Hushed
    <3>7. Stopping => Stopping'
      <4> SUFFICES ASSUME Stopping PROVE Stopping'
        OBVIOUS
      <4>1. latest'.fw = "ARMED" => latest'.obeyed
        <5>1. CASE latest' = latest
          BY <5>1 DEF Stopping
        <5>2. CASE latest' = Rig!Frame
          BY <5>2 DEF Rig!Frame, Stopping, Modes
        <5> QED BY <2>1, <5>1, <5>2
      <4>2. \A i \in DOMAIN down' : down'[i].fw = "ARMED" => down'[i].obeyed
        BY <2>5 DEF Stopping
      <4> QED BY <2>1, <3>2, <3>3, <4>1, <4>2 DEF Stopping
    <3>8. Silent /\ pc = "silent" => Silent'
      <4>1. age \in Nat /\ wait \in Nat /\ panic \in Int
        BY <1>0 DEF RigTypes
      <4>2. Silent /\ pc = "silent" /\ age <= wait => age' <= wait'
        BY <1>0, <2>1, <4>1
      <4>3. wait <= wait'
        BY <1>0, <2>1, <4>1
      <4> QED BY <1>0, <2>1, <3>1, <3>2, <3>3, <4>1, <4>2, <4>3 DEF Silent
    <3> QED BY <1>p, <2>1, <2>3, <3>4, <3>5, <3>6, <3>7, <3>8 DEF PhaseInv
  <2>9. CASE age' >= Deadman /\ ~tripped
    <3>1. /\ obeyed /\ pc = "silent" /\ tripped'
          /\ fw' = IF emulated THEN "ARMED" ELSE "STOPPED"
          /\ panic' = IF ~emulated /\ panic = Rig!None THEN wait' ELSE panic
      BY <2>1, <2>9 DEF Rig!Checked, Probing
    <3>2. Silent
      BY <1>p, <2>1, <2>3, <3>1
    <3>3. /\ panic = Rig!None /\ fw # "STOPPED" /\ up = <<>> /\ age <= wait
          /\ started /\ Once("STOPPED")
      BY <2>9, <3>1, <3>2 DEF Silent
    <3>4. latest.fw # "STOPPED" /\ \A i \in DOMAIN down : down[i].fw # "STOPPED"
      BY <3>3 DEF Once
    <3>5. latest'.fw # "STOPPED" /\ \A i \in DOMAIN down' : down'[i].fw # "STOPPED"
      BY <2>4, <2>5, <3>3, <3>4
    <3>6. Once("STOPPED")'
      BY <3>5 DEF Once
    <3>7. age' <= wait' /\ age' \in Nat /\ wait' \in Nat
      BY <1>0, <2>1, <3>1, <3>3 DEF RigTypes
    <3>8. Silent'
      <4>1. CASE emulated
        BY <2>1, <3>1, <3>3, <3>6, <3>7, <4>1 DEF Silent
      <4>2. CASE ~emulated
        BY <1>0, <2>1, <2>9, <3>1, <3>3, <3>6, <3>7, <4>2 DEF Silent, Rig!None
      <4> QED BY <4>1, <4>2
    <3> QED BY <2>1, <3>1, <3>8 DEF PhaseInv
  <2> QED BY <2>8, <2>9
<1> QED BY <1>5, <1>6, <1>7, <1>8, <1>9, <1>10, <1>11, <1>12, <1>13, <1>14,
               <1>15, <1>16,
           <1>17, <1>18, <1>19, <1>20, <1>21, <1>22 DEF Rig!Next

LEMMA RowsInit == ASSUME Rig!BenchAssumption, Rig!Init PROVE RowsInv
<1>1. DOMAIN up = {} /\ DOMAIN down = {}
  BY EmptySeq DEF Rig!Init
<1>2. Resting
  BY <1>1 DEF Rig!Init, Resting, Modes, Once, Coming, Rig!Frame
<1> QED BY <1>2 DEF Rig!Init, RowsInv, BaseInv, PhaseInv, Rig!RowsReal

LEMMA RowsCorrect == ASSUME Rig!BenchAssumption PROVE Rig!Spec => [](RigInv /\ RowsInv)
<1>1. Rig!Init => RigInv /\ RowsInv
  BY RigInit, RowsInit
<1>2. RigInv /\ RowsInv /\ [Rig!Next]_(Rig!vars) => (RigInv /\ RowsInv)'
  BY RigStep, PhaseStep, BaseStep, RowStep DEF RowsInv
<1> QED BY <1>1, <1>2, PTL DEF Rig!Spec

\* The wheels turn only while a trial drives them, its stop is on the way, or
\* the dead-man timer of a session that was cut has not run out, whatever order
\* commands, ticks, interrupts and the end of the program come in
\* (bench_motor.run_live, wslatency.probe_motor and probe_deadman).
THEOREM WheelsOnlyInTrials == Spec => []MotionIsTrial
<1>1. Rig!Spec => []RigInv
  BY PartsAssumption, RigCorrect
<1>2. RigInv => MotionIsTrial
  BY DEF RigInv, MotionInv, MotionIsTrial
<1> QED BY <1>1, <1>2, RigPart, PTL

\* The row of a probe times the stop, or the trip, of its own trial, however
\* stale the frames are that it reads (wslatency.await_frame, settle_ready,
\* drain, PanicLog).
THEOREM RowsOfTheirTrial == Spec => []RowsReal
<1>1. Rig!Spec => [](RigInv /\ RowsInv)
  BY PartsAssumption, RowsCorrect
<1>2. RowsInv => RowsReal
  BY DEF RowsInv, RowsReal
<1> QED BY <1>1, <1>2, RigPart, PTL

-----------------------------------------------------------------------------
(***************************************************************************)
(* FaultInject: a pid that differs from the one of the fault is a later    *)
(* one, in FaultInv.                                                       *)
(***************************************************************************)

LEMMA FaultsPart == Spec => Faults!Spec
<1>1. Init => Faults!Init
  BY DEF Init
<1>2. [Next]_vars => [Faults!Next]_(Faults!vars)
  BY DEF Next, vars, OnlyGate, OnlyFollow, OnlyCap, OnlyAudio, OnlyBack,
         OnlyLog, OnlyRig, OnlyFaults, OnlySheets, OnlyBoxed, Faults!vars,
         faultVars, Faults!robot, Faults!harness
<1> QED BY <1>1, <1>2, PTL DEF Spec, Faults!Spec

\* A signal sent to a program that is not there: it strikes the next one.
Phantom(p) == p \in dying /\ pid[p] = Faults!Gone

\* The fault is injected, into the process whose pid was read.
Injected == old # Faults!Gone /\ before[fault] = old

FaultType ==
    /\ pid \in [Faults!Process -> Nat] /\ starts \in [Faults!Process -> Nat]
    /\ before \in [Faults!Process -> Nat]
    /\ \A p \in Faults!Process : pid[p] \in {Faults!Gone, starts[p]} /\ before[p] <= starts[p]
    /\ \A p \in answering : p \in Faults!Process /\ pid[p] # Faults!Gone
    /\ dying \subseteq Faults!Process
    /\ fault \in Faults!Process /\ old \in Nat
    /\ step \in {"pid", "ask", "settle"}
    /\ step = "ask" => /\ got \in Nat \ {Faults!Gone} /\ got <= starts[fault]
                       /\ left = Faults!Pages[fault] \/ (fault = "p3" /\ left = <<"p2">>)
    /\ outcome = "recovered" => step = "settle" /\ old # Faults!Gone

\* The pids of the target only grow, so the one that is back is a later one.
TrialInv ==
    /\ step = "ask" /\ fault = "p3" /\ left = <<"p2">> /\ old = Faults!Gone => ~Phantom("p1")
    /\ Injected => old <= starts[fault]
    /\ Injected /\ step = "ask" => got >= old
    /\ Injected /\ outcome = "recovered" => starts[fault] > old

\* With P3 the whole stack goes before P3 comes back; then nobody is dying, and
\* what has answered since stays.
StackInv ==
    fault = "p3" /\ Injected =>
        /\ \A p \in Faults!Process : ~Phantom(p)
        /\ starts["p3"] > old =>
              /\ dying = {} /\ pid["p3"] # Faults!Gone
              /\ \A p \in {"p1", "p2"} : pid[p] = Faults!Gone \/ pid[p] # before[p]
              /\ step = "ask" /\ left = <<"p2">> /\ got # old => pid["p1"] # Faults!Gone
              /\ outcome = "recovered" => pid["p1"] # Faults!Gone /\ pid["p2"] # Faults!Gone

FaultInv == FaultType /\ TrialInv /\ StackInv

LEMMA FaultInit == ASSUME Faults!FaultAssumption, Faults!Init PROVE FaultInv
  BY DEF Faults!Init, FaultInv, FaultType, TrialInv, StackInv, Injected,
         Phantom, Faults!Process, Faults!Gone, Faults!Nothing

\* A process, or what is left of several, goes.
LEMMA FaultLeaves ==
  ASSUME FaultInv, NEW gone \in SUBSET Faults!Process, Faults!Leaves(gone),
         (\E p \in gone : p \in dying) \/ pid["p3"] = Faults!Gone
  PROVE  FaultInv'
<1> USE DEF FaultInv, FaultType, Faults!Process, Faults!Gone
<1>1. /\ \A p \in Faults!Process : pid'[p] = IF p \in gone THEN Faults!Gone ELSE pid[p]
      /\ pid' \in [Faults!Process -> Nat]
      /\ answering' = answering \ gone /\ dying' = dying \ gone
      /\ UNCHANGED <<starts, fault, step, got, left, old, downSeen, outcome, before>>
  BY DEF Faults!Leaves, Faults!harness
<1>2. FaultType'
  BY <1>1
<1>3. TrialInv'
  BY <1>1 DEF TrialInv, Injected, Phantom
<1>4. StackInv'
  BY <1>1 DEF StackInv, Injected, Phantom
<1> QED BY <1>2, <1>3, <1>4

\* Systemd or the watchdog starts a program, once everybody is gone or while
\* P3 is there.
LEMMA FaultStarts ==
  ASSUME FaultInv, NEW p \in Faults!Process, Faults!Starts(p),
         (\A q \in Faults!Process : pid[q] = Faults!Gone) \/ (pid["p3"] # Faults!Gone /\ p # "p3")
  PROVE  FaultInv'
<1> USE DEF FaultInv, FaultType, Faults!Process, Faults!Gone
<1>1. /\ pid[p] = Faults!Gone /\ p \notin answering
      /\ \A q \in Faults!Process : starts'[q] = IF q = p THEN starts[p] + 1 ELSE starts[q]
      /\ \A q \in Faults!Process : pid'[q] = IF q = p THEN starts[p] + 1 ELSE pid[q]
      /\ pid' \in [Faults!Process -> Nat] /\ starts' \in [Faults!Process -> Nat]
      /\ UNCHANGED <<answering, dying, fault, step, got, left, old, downSeen, outcome, before>>
  BY DEF Faults!Starts, Faults!harness
<1>2. FaultType'
  BY <1>1
<1>3. TrialInv'
  BY <1>1 DEF TrialInv, Injected, Phantom
<1>4. StackInv'
  <2> SUFFICES ASSUME fault = "p3", Injected PROVE StackInv'
    BY <1>1 DEF StackInv, Injected
  <2>1. \A q \in Faults!Process : ~Phantom(q)
    BY DEF StackInv
  <2>2. \A q \in Faults!Process : ~Phantom(q)'
    BY <1>1, <2>1 DEF Phantom
  <2>3. CASE p = "p3"
    <3>1. \A q \in Faults!Process : pid[q] = Faults!Gone
      BY <2>3
    <3>2. dying = {}
      BY <2>1, <3>1 DEF Phantom
    <3> QED BY <1>1, <2>2, <2>3, <3>1, <3>2 DEF StackInv, TrialInv, Injected
  <2>4. CASE p # "p3"
    BY <1>1, <2>2, <2>4 DEF StackInv, Injected
  <2> QED BY <2>3, <2>4
<1> QED BY <1>2, <1>3, <1>4

\* The injection, or a trial that is skipped.
LEMMA FaultBegin ==
  ASSUME FaultInv, NEW ready \in BOOLEAN, Faults!Begin(ready), old = Faults!Gone,
         UNCHANGED <<pid, starts, answering, fault>>,
         step # "settle", ready => step = "ask" /\ Len(left) = 1 /\ Head(left) \in answering
  PROVE  FaultInv'
<1> USE DEF FaultInv, FaultType, Faults!Process, Faults!Gone
<1>1. CASE ready
  <2>1. /\ dying' = dying \cup {fault} /\ old' = got /\ before' = pid
        /\ step' = "pid" /\ outcome' = outcome /\ outcome # "recovered"
    BY <1>1 DEF Faults!Begin, Faults!NextPoll
  <2>2. FaultType'
    <3>1. \A p \in Faults!Process : before'[p] = pid[p] /\ pid[p] \in Nat /\ pid[p] <= starts[p]
      BY <2>1
    <3> QED BY <1>1, <2>1, <3>1
  <2>3. TrialInv'
    BY <1>1, <2>1 DEF TrialInv, Injected, Phantom
  <2>4. ASSUME fault = "p3"
        PROVE  "p2" \in answering /\ ~Phantom("p1")
    <3>1. left = <<"p2">>
      BY <1>1, <2>4 DEF Faults!Pages
    <3> QED BY <1>1, <2>4, <3>1 DEF TrialInv
  <2>5. StackInv'
    BY <1>1, <2>1, <2>4 DEF StackInv, Injected, Phantom
  <2> QED BY <2>2, <2>3, <2>5
<1>2. CASE ~ready
  BY <1>2 DEF Faults!Begin, Faults!Row, TrialInv, StackInv, Injected
<1> QED BY <1>1, <1>2

\* A poll after the injection.
LEMMA FaultFollow ==
  ASSUME FaultInv, NEW ready \in BOOLEAN, Faults!Follow(ready), old # Faults!Gone,
         UNCHANGED <<pid, starts, answering, fault>>,
         step # "settle", ready => step = "ask" /\ Len(left) = 1 /\ Head(left) \in answering
  PROVE  FaultInv'
<1> USE DEF FaultInv, FaultType, Faults!Process, Faults!Gone
<1>1. UNCHANGED <<dying, old, before>>
  BY DEF Faults!Follow
<1>2. CASE Faults!Recovered(ready)
  <2>1. step' = "settle" /\ outcome' = "recovered" /\ ready /\ got # old
    BY <1>2 DEF Faults!Follow, Faults!Row, Faults!Recovered
  <2>2. FaultType'
    BY <1>1, <2>1
  <2>3. Injected => starts[fault] > old
    BY <2>1 DEF TrialInv
  <2>4. TrialInv'
    BY <1>1, <2>1, <2>3 DEF TrialInv, Injected, Phantom
  <2>5. ASSUME fault = "p3"
        PROVE  left = <<"p2">> /\ pid["p2"] # Faults!Gone
    <3>1. left = <<"p2">>
      BY <2>1, <2>5 DEF Faults!Pages
    <3> QED BY <2>1, <3>1
  <2>6. StackInv'
    BY <1>1, <2>1, <2>3, <2>5 DEF StackInv, Injected, Phantom
  <2> QED BY <2>2, <2>4, <2>6
<1>3. CASE ~Faults!Recovered(ready)
  <2>1. step' = "pid" /\ outcome' = outcome
    BY <1>3 DEF Faults!Follow, Faults!NextPoll
  <2>2. FaultType'
    BY <1>1, <2>1
  <2>3. TrialInv' /\ StackInv'
    BY <1>1, <2>1 DEF TrialInv, StackInv, Injected, Phantom
  <2> QED BY <2>2, <2>3
<1> QED BY <1>2, <1>3

LEMMA FaultJudge ==
  ASSUME FaultInv, NEW ready \in BOOLEAN, Faults!Judge(ready),
         UNCHANGED <<pid, starts, answering, fault>>,
         step # "settle", ready => step = "ask" /\ Len(left) = 1 /\ Head(left) \in answering
  PROVE  FaultInv'
  BY FaultBegin, FaultFollow DEF Faults!Judge

\* The injector reads a pid, asks for the next page, gives up, goes on.
LEMMA FaultPoll ==
  ASSUME FaultInv, Faults!ReadPid \/ Faults!Ask \/ Faults!TimesOut \/ Faults!NextTrial PROVE FaultInv'
<1>1. CASE Faults!ReadPid
  <2>1. CASE pid[fault] = Faults!Gone
    BY <1>1, <2>1, FaultJudge DEF Faults!ReadPid
  <2>2. CASE pid[fault] # Faults!Gone
    <3>1. /\ step = "pid" /\ step' = "ask" /\ got' = pid[fault] /\ left' = Faults!Pages[fault]
          /\ UNCHANGED <<pid, starts, answering, fault, dying, old, outcome, before>>
      BY <1>1, <2>2 DEF Faults!ReadPid
    <3>2. fault = "p3" => Faults!Pages[fault] # <<"p2">>
      <4>1. Faults!Pages["p3"] = <<"p1", "p2">> /\ <<"p1", "p2">> # <<"p2">>
        BY DEF Faults!Pages
      <4> QED BY <4>1
    <3> QED BY <2>2, <3>1, <3>2 DEF FaultInv, FaultType, TrialInv, StackInv,
                   Injected, Phantom, Faults!Gone
  <2> QED BY <2>1, <2>2
<1>2. CASE Faults!Ask
  <2>1. PICK answer \in BOOLEAN :
           /\ answer => Head(left) \in answering
           /\ IF answer /\ Len(left) > 1
              THEN /\ left' = Tail(left)
                   /\ UNCHANGED <<step, got, dying, old, downSeen, outcome, before>>
              ELSE Faults!Judge(answer)
    BY <1>2 DEF Faults!Ask
  <2>2. step = "ask" /\ UNCHANGED <<pid, starts, answering, fault>>
    BY <1>2 DEF Faults!Ask
  <2>3. \/ left = <<"p1", "p2">> /\ fault = "p3"
        \/ Len(left) = 1
    BY <2>2 DEF FaultInv, FaultType, Faults!Pages, Faults!Process
  <2>4. CASE answer /\ Len(left) > 1
    <3>1. /\ left = <<"p1", "p2">> /\ fault = "p3" /\ "p1" \in answering
          /\ left' = Tail(left)
          /\ UNCHANGED <<step, got, dying, old, downSeen, outcome, before>>
      <4>0. Len(left) # 1
        <5>1. Len(left) > 1
          BY <2>4, Zenon
        <5>2. ~(1 > 1)
          OBVIOUS
        <5> QED BY <5>1, <5>2, Zenon
      <4>1. left = <<"p1", "p2">> /\ fault = "p3"
        BY <2>3, <4>0, Zenon
      <4>2. Head(left) = "p1"
        BY <4>1
      <4> QED BY <2>1, <2>4, <4>1, <4>2
    <3>3. left' = <<"p2">>
      BY <3>1
    <3>2. pid["p1"] # Faults!Gone
      BY <3>1 DEF FaultInv, FaultType
    <3> QED BY <2>2, <3>1, <3>2, <3>3 DEF FaultInv, FaultType, TrialInv,
                   StackInv, Injected, Phantom
  <2>5. CASE ~(answer /\ Len(left) > 1)
    BY <2>1, <2>2, <2>3, <2>5, FaultJudge
  <2> QED BY <2>4, <2>5
<1>3. CASE Faults!TimesOut
  BY <1>3 DEF Faults!TimesOut, Faults!Row, Faults!robot, FaultInv, FaultType,
         TrialInv, StackInv, Injected, Phantom
<1>4. CASE Faults!NextTrial
  BY <1>4 DEF Faults!NextTrial, Faults!NextPoll, Faults!robot, FaultInv,
         FaultType, TrialInv, StackInv, Injected, Faults!Nothing, Faults!Gone,
         Faults!Process
<1> QED BY <1>1, <1>2, <1>3, <1>4

LEMMA FaultStep == ASSUME FaultInv, [Faults!Next]_(Faults!vars) PROVE FaultInv'
<1>1. CASE Faults!Dies
  BY <1>1, FaultLeaves DEF Faults!Dies, FaultInv, FaultType
<1>2. CASE Faults!SystemdClears
  BY <1>2, FaultLeaves DEF Faults!SystemdClears, Faults!Process
<1>3. CASE Faults!SystemdStarts \/ Faults!WatchdogStarts
  BY <1>3, FaultStarts DEF Faults!SystemdStarts, Faults!WatchdogStarts, Faults!Process
<1>4. CASE Faults!Readiness
  BY <1>4 DEF Faults!Readiness, Faults!harness, FaultInv, FaultType, TrialInv,
         StackInv, Injected, Phantom, Faults!Process
<1>5. CASE UNCHANGED Faults!vars
  BY <1>5 DEF Faults!vars, Faults!robot, Faults!harness, FaultInv, FaultType,
         TrialInv, StackInv, Injected, Phantom
<1> QED BY <1>1, <1>2, <1>3, <1>4, <1>5, FaultPoll DEF Faults!Next

LEMMA FaultCorrect == ASSUME Faults!FaultAssumption PROVE Faults!Spec => []FaultInv
<1>1. Faults!Init => FaultInv
  BY FaultInit
<1>2. FaultInv /\ [Faults!Next]_(Faults!vars) => FaultInv'
  BY FaultStep
<1> QED BY <1>1, <1>2, PTL DEF Faults!Spec

LEMMA FaultReal == ASSUME FaultInv PROVE Faults!RecoveryReal
<1> USE DEF FaultInv, FaultType, TrialInv, StackInv, Injected, Faults!Gone,
           Faults!Process
<1> SUFFICES ASSUME step = "settle", outcome = "recovered", before[fault] = old,
                    NEW p \in Faults!Struck(fault)
             PROVE  pid[p] # before[p]
  BY DEF Faults!RecoveryReal
<1>1. CASE fault = "p3"
  <2>1. Faults!Pages[fault] = <<"p1", "p2">>
    BY <1>1 DEF Faults!Pages
  <2>2. p \in Faults!Process
    BY <1>1, <2>1 DEF Faults!Struck, Faults!Range
  <2> QED BY <1>1, <2>2
<1>2. CASE fault # "p3"
  <2>1. Faults!Pages[fault] = <<fault>>
    BY <1>2 DEF Faults!Pages
  <2>2. p = fault
    BY <2>1 DEF Faults!Struck, Faults!Range
  <2> QED BY <2>2
<1> QED BY <1>1, <1>2

\* A recovery the harness records is one: the process it injected the fault into
\* went down and another answers, for any number of restarts (faultinject.py).
THEOREM RecoveriesReal == Spec => []RecoveryReal
<1>1. Faults!Spec => []FaultInv
  BY PartsAssumption, FaultCorrect
<1>2. FaultInv => RecoveryReal
  BY PartsAssumption, FaultReal DEF RecoveryReal
<1> QED BY <1>1, <1>2, FaultsPart, PTL

-----------------------------------------------------------------------------
(***************************************************************************)
(* TestSet: the boxes an import has yet to write, and those on the sheet,  *)
(* are numbered as its record says, in SheetInv.                           *)
(***************************************************************************)

LEMMA SheetsPart == Spec => Sheets!Spec
<1>1. Init => Sheets!Init
  BY DEF Init
<1>2. [Next]_vars => [Sheets!Next]_(Sheets!vars)
  BY DEF Next, vars, OnlyGate, OnlyFollow, OnlyCap, OnlyAudio, OnlyBack,
         OnlyLog, OnlyRig, OnlyFaults, OnlySheets, OnlyBoxed, Sheets!vars,
         testsetVars, Sheets!sheets
<1> QED BY <1>1, <1>2, PTL DEF Spec, Sheets!Spec

\* Predicted boxes are numbered from one to the number of their record's boxes,
\* on the sheet and in the import that is at one.
Numbered(f, n) == f \in Exported /\ n \in 1 .. boxes[f]

SheetInv ==
    /\ boxes \in [Exported -> Nat \cup {Sheets!Refused}]
    /\ predRows \in Seq(Exported \X Int)
    /\ \A i \in DOMAIN predRows : Numbered(predRows[i][1], predRows[i][2])
    /\ work \in [Importer -> {Sheets!Idle, Sheets!Ready}
                     \cup [at : {"run"}, frame : Exported]
                     \cup [at : {"pred"}, frame : Exported, n : Int]]
    /\ \A p \in Importer : /\ work[p].at = "run" => boxes[work[p].frame] >= 0
                           /\ work[p].at = "pred" => Numbered(work[p].frame, work[p].n)

LEMMA SheetInit == ASSUME Sheets!TestSetAssumption, Sheets!Init PROVE SheetInv
<1>1. boxes \in [Exported -> Nat \cup {Sheets!Refused}]
  BY DEF Sheets!Init, Sheets!Refused, Sheets!TestSetAssumption
<1>2. predRows \in Seq(Exported \X Int) /\ DOMAIN predRows = {}
  BY EmptySeq DEF Sheets!Init
<1>3. \A p \in Importer : work[p] = Sheets!Idle /\ Sheets!Idle.at = "idle"
  BY DEF Sheets!Init, Sheets!Idle
<1>4. work \in [Importer -> {Sheets!Idle, Sheets!Ready}
                     \cup [at : {"run"}, frame : Exported]
                     \cup [at : {"pred"}, frame : Exported, n : Int]]
  BY DEF Sheets!Init
<1> QED BY <1>1, <1>2, <1>3, <1>4 DEF SheetInv

LEMMA SheetStep == ASSUME SheetInv, [Sheets!Next]_(Sheets!vars) PROVE SheetInv'
<1> USE DEF SheetInv, Numbered
<1>1. CASE UNCHANGED <<boxes, predRows, work>>
  BY <1>1
<1>2. ASSUME NEW p \in Importer, Sheets!StartImport(p) PROVE SheetInv'
  BY <1>2 DEF Sheets!StartImport, Sheets!sheets, Sheets!Ready
<1>3. ASSUME NEW p \in Importer, Sheets!TakeRecord(p) PROVE SheetInv'
  <2>1. PICK f \in Exported : /\ Sheets!Usable(f)
                              /\ work' = [work EXCEPT ![p] = [at |-> "run", frame |-> f]]
    BY <1>3 DEF Sheets!TakeRecord
  <2>2. UNCHANGED <<boxes, predRows>>
    BY <1>3 DEF Sheets!TakeRecord
  <2>3. boxes[f] >= 0
    BY <2>1 DEF Sheets!Usable, Sheets!Refused
  <2> QED BY <2>1, <2>2, <2>3
<1>4. ASSUME NEW p \in Importer, Sheets!WriteRun(p) PROVE SheetInv'
  <2> DEFINE f == work[p].frame
             w == IF boxes[f] = 0 THEN Sheets!Ready ELSE Sheets!Pred(f, 1)
  <2>1. /\ UNCHANGED <<boxes, predRows>> /\ work' = [work EXCEPT ![p] = w]
        /\ f \in Exported /\ boxes[f] >= 0 /\ boxes[f] \in Int
    BY <1>4 DEF Sheets!WriteRun, Sheets!Idle, Sheets!Ready, Sheets!Refused
  <2>2. w = Sheets!Ready \/ (w = Sheets!Pred(f, 1) /\ 1 \in 1 .. boxes[f])
    BY <2>1
  <2> HIDE DEF w, f
  <2> QED BY <2>1, <2>2 DEF Sheets!Pred, Sheets!Ready
<1>5. ASSUME NEW p \in Importer, Sheets!WritePred(p) PROVE SheetInv'
  <2> DEFINE f == work[p].frame
             n == work[p].n
             w == IF n = boxes[f] THEN Sheets!Ready ELSE Sheets!Pred(f, n + 1)
  <2>1. /\ UNCHANGED boxes /\ work' = [work EXCEPT ![p] = w]
        /\ predRows' = Append(predRows, <<f, n>>)
        /\ f \in Exported /\ n \in 1 .. boxes[f] /\ boxes[f] \in Int
    BY <1>5 DEF Sheets!WritePred, Sheets!Refused
  <2>2. w = Sheets!Ready \/ (w = Sheets!Pred(f, n + 1) /\ n + 1 \in 1 .. boxes[f])
    BY <2>1
  <2> HIDE DEF w, f, n
  <2>3. /\ predRows' \in Seq(Exported \X Int)
        /\ \A i \in DOMAIN predRows' : Numbered(predRows'[i][1], predRows'[i][2])
    BY <2>1, LenProperties
  <2>4. /\ work' \in [Importer -> {Sheets!Idle, Sheets!Ready}
                     \cup [at : {"run"}, frame : Exported]
                     \cup [at : {"pred"}, frame : Exported, n : Int]]
        /\ \A q \in Importer : /\ work'[q].at = "run" => boxes[work'[q].frame] >= 0
                               /\ work'[q].at = "pred" => Numbered(work'[q].frame, work'[q].n)
    BY <2>1, <2>2 DEF Sheets!Pred, Sheets!Ready
  <2> QED BY <2>1, <2>3, <2>4
<1>6. ASSUME NEW p \in Importer, Sheets!EndImport(p) PROVE SheetInv'
  BY <1>6 DEF Sheets!EndImport, Sheets!sheets, Sheets!Idle
<1>7. ASSUME NEW a \in Annotator, Sheets!Decide(a) \/ Sheets!Draw(a) PROVE SheetInv'
  BY <1>1, <1>7 DEF Sheets!Decide, Sheets!Draw, Sheets!sheets
<1>8. CASE UNCHANGED Sheets!vars
  BY <1>1, <1>8 DEF Sheets!vars, Sheets!sheets
<1> QED BY <1>2, <1>3, <1>4, <1>5, <1>6, <1>7, <1>8 DEF Sheets!Next

LEMMA SheetCorrect == ASSUME Sheets!TestSetAssumption PROVE Sheets!Spec => []SheetInv
<1>1. Sheets!Init => SheetInv
  BY SheetInit
<1>2. SheetInv /\ [Sheets!Next]_(Sheets!vars) => SheetInv'
  BY SheetStep
<1> QED BY <1>1, <1>2, PTL DEF Sheets!Spec

LEMMA SheetScored == ASSUME SheetInv PROVE Sheets!Scored
<1> SUFFICES ASSUME NEW f \in Exported, Sheets!Scorable(f), ~Sheets!Warned(f)
             PROVE  Sheets!Preds(f) = 1 .. boxes[f]
  BY DEF Sheets!Scored
<1>1. PICK i \in Sheets!Runs(f) : Cardinality(Sheets!Preds(f)) = boxes[f]
  BY DEF Sheets!Warned, Sheets!Cardinality, Cardinality, Sheets!Scorable, Sheets!Ran
<1>2. Sheets!Preds(f) \subseteq 1 .. boxes[f]
  <2>1. Sheets!Preds(f) = {r[2] : r \in {r \in Sheets!Range(predRows) : r[1] = f}}
    BY DEF Sheets!Scorable, Sheets!Preds
  <2>2. \A r \in Sheets!Range(predRows) : Numbered(r[1], r[2])
    BY DEF Sheets!Range, SheetInv
  <2> QED BY <2>1, <2>2 DEF Numbered
<1>6. boxes[f] \in Int
  BY DEF SheetInv, Sheets!Refused
<1>3. IsFiniteSet(1 .. boxes[f]) /\ boxes[f] \in Int
  <2> DEFINE b == boxes[f]
  <2>1. 1 \in Int /\ b \in Int
    BY <1>6
  <2> HIDE DEF b
  <2>2. IsFiniteSet(1 .. b)
    BY <2>1, FS_Interval
  <2> QED BY <2>1, <2>2 DEF b
<1>4. IsFiniteSet(Sheets!Preds(f)) /\ Cardinality(Sheets!Preds(f)) \in Nat
  BY <1>2, <1>3, FS_Subset, FS_CardinalityType
<1>5. Cardinality(1 .. boxes[f]) = boxes[f]
  BY <1>1, <1>3, <1>4, FS_Interval
<1> QED BY <1>1, <1>2, <1>3, <1>5, FS_Subset

\* A frame that the reports count, and of which no warning tells, has each box
\* its detector predicted, and no other, whoever imported it and whichever
\* program died in between (detector_import.py, detector_data.load_dataset).
THEOREM ScoredWhole == Spec => []Scored
<1>1. Sheets!Spec => []SheetInv
  BY PartsAssumption, SheetCorrect
<1>2. SheetInv => Scored
  BY PartsAssumption, SheetScored DEF Scored
<1> QED BY <1>1, <1>2, SheetsPart, PTL

-----------------------------------------------------------------------------
(***************************************************************************)
(* DetectorMatch: the order of the predictions, and a prediction's order of *)
(* the boxes, are total, so that a loop has one matching to make: what each *)
(* prediction takes of those before it (Greedy).  MatchInv is that both     *)
(* loops make it.                                                           *)
(***************************************************************************)

LEMMA BoxedPart == Spec => Boxed!Spec
<1>1. Init => Boxed!Init
  BY DEF Init
<1>2. [Next]_vars => [Boxed!Next]_(Boxed!vars)
  BY DEF Next, vars, OnlyGate, OnlyFollow, OnlyCap, OnlyAudio, OnlyBack, OnlyLog,
         OnlyRig, OnlyFaults, OnlySheets, OnlyBoxed, Boxed!vars, matchVars
<1> QED BY <1>1, <1>2, PTL DEF Spec, Boxed!Spec

\* The order of the overlaps.

LEMMA Products ==
  /\ \A a, b \in Nat : a * b \in Nat
  /\ \A a, b, c \in Nat : a <= b => a * c <= b * c
  /\ \A a, b, c \in Nat : a < b /\ c > 0 => a * c < b * c
  /\ \A a, b, c \in Int : (a * b) * c = (a * c) * b
<1>1. \A a, b \in Nat : a * b \in Nat
  OBVIOUS
<1>2. \A a, b, c \in Nat : a <= b => a * c <= b * c
  OBVIOUS
<1>3. \A a, b, c \in Nat : a < b /\ c > 0 => a * c < b * c
  OBVIOUS
<1>4. \A a, b, c \in Int : (a * b) * c = (a * c) * b
  OBVIOUS
<1> QED BY <1>1, <1>2, <1>3, <1>4

\* Two boxes have a positive union, however little of them they share.
LEMMA BoxSizes ==
  ASSUME Boxed!MatchAssumption
  PROVE  \A a, b \in Boxed!Boxes : /\ Boxed!Inter(a, b) \in Nat
                             /\ Boxed!Union(a, b) \in Nat \ {0}
<1> SUFFICES ASSUME NEW a \in Boxed!Boxes, NEW b \in Boxed!Boxes
             PROVE  Boxed!Inter(a, b) \in Nat /\ Boxed!Union(a, b) \in Nat \ {0}
  OBVIOUS
<1>1. /\ a[1] \in Nat /\ a[2] \in Nat /\ a[3] \in Nat /\ a[4] \in Nat
      /\ a[1] < a[3] /\ a[2] < a[4]
  BY DEF Boxed!Boxes, Boxed!Valid, Boxed!MatchAssumption
<1>2. /\ b[1] \in Nat /\ b[2] \in Nat /\ b[3] \in Nat /\ b[4] \in Nat
      /\ b[1] < b[3] /\ b[2] < b[4]
  BY DEF Boxed!Boxes, Boxed!Valid, Boxed!MatchAssumption
<1> DEFINE w == Boxed!Lower(a[3], b[3]) - Boxed!Upper(a[1], b[1])
           h == Boxed!Lower(a[4], b[4]) - Boxed!Upper(a[2], b[2])
<1>3. w \in Int /\ h \in Int /\ w <= a[3] - a[1] /\ h <= a[4] - a[2]
  BY <1>1, <1>2 DEF Boxed!Lower, Boxed!Upper
<1>4. Boxed!Inter(a, b) = IF w <= 0 \/ h <= 0 THEN 0 ELSE w * h
  BY DEF Boxed!Inter
<1> HIDE DEF w, h
<1> DEFINE x == a[3] - a[1]
           y == a[4] - a[2]
           p == b[3] - b[1]
           q == b[4] - b[2]
<1>5. x \in Nat \ {0} /\ y \in Nat \ {0} /\ p \in Nat \ {0} /\ q \in Nat \ {0}
  BY <1>1, <1>2
<1>6. Boxed!Area(a) = x * y /\ Boxed!Area(b) = p * q
  BY DEF Boxed!Area
<1>7. w <= x /\ h <= y
  BY <1>3
<1> HIDE DEF x, y, p, q
<1>8. p * q > 0 /\ x * y > 0 /\ p * q \in Int /\ x * y \in Int
  BY <1>5
<1>9. Boxed!Inter(a, b) \in Nat /\ Boxed!Inter(a, b) <= x * y
  <2>1. CASE w <= 0 \/ h <= 0
    BY <2>1, <1>4, <1>8
  <2>2. CASE ~(w <= 0 \/ h <= 0)
    <3>1. w \in Nat /\ h \in Nat /\ Boxed!Inter(a, b) = w * h
      BY <2>2, <1>3, <1>4
    <3>2. w * h <= x * h
      BY <3>1, <1>5, <1>7, Products
    <3>3. h * x <= y * x
      BY <3>1, <1>5, <1>7, Products
    <3>4. x * h = h * x /\ x * y = y * x /\ w * h \in Nat /\ x * h \in Nat
      BY <3>1, <1>5
    <3> QED BY <3>1, <3>2, <3>3, <3>4, <1>8
  <2> QED BY <2>1, <2>2
<1> QED BY <1>6, <1>8, <1>9 DEF Boxed!Union

\* Of three fractions the first is at least the third when each is at least the
\* next, and is equal to it only if all are.
LEMMA Fractions ==
  ASSUME NEW i \in Nat, NEW j \in Nat, NEW k \in Nat,
         NEW u \in Nat \ {0}, NEW v \in Nat \ {0}, NEW w \in Nat \ {0},
         i * v >= j * u, j * w >= k * v
  PROVE  /\ i * w >= k * u
         /\ i * w = k * u => i * v = j * u /\ j * w = k * v
<1> DEFINE iv == i * v  ju == j * u  jw == j * w  kv == k * v  iw == i * w  ku == k * u
<1>1. iv \in Nat /\ ju \in Nat /\ jw \in Nat /\ kv \in Nat /\ iw \in Nat /\ ku \in Nat
  OBVIOUS
<1>2. iv * w = iw * v /\ ju * w = jw * u /\ kv * u = ku * v
  BY Products
<1> HIDE DEF iv, ju, jw, kv, iw, ku
<1>3. iv >= ju /\ jw >= kv
  BY DEF iv, ju, jw, kv
<1>4. iv * w >= ju * w /\ jw * u >= kv * u
  BY <1>1, <1>3, Products
<1>5. iw * v >= ku * v
  BY <1>1, <1>2, <1>4
<1>6. iw >= ku
  <2>1. iw < ku => iw * v < ku * v
    BY <1>1, Products
  <2> QED BY <1>1, <1>5, <2>1
<1>7. iw = ku => iv * w = ju * w /\ jw * u = kv * u
  <2>1. iw * v \in Int /\ ju * w \in Int /\ jw * u \in Int
    BY <1>1
  <2> QED BY <1>1, <1>2, <1>4, <2>1
<1>8. iw = ku => iv = ju /\ jw = kv
  <2>1. ju < iv => ju * w < iv * w
    BY <1>1, Products
  <2>2. kv < jw => kv * u < jw * u
    BY <1>1, Products
  <2> QED BY <1>1, <1>3, <1>7, <2>1, <2>2
<1> QED BY <1>6, <1>8 DEF iv, ju, jw, kv, iw, ku

LEMMA IouTransitive ==
  ASSUME Boxed!MatchAssumption, NEW p \in Boxed!Boxes, NEW a \in Boxed!Boxes, NEW b \in Boxed!Boxes, NEW c \in Boxed!Boxes,
         Boxed!IouCompared(p, a, b) >= 0, Boxed!IouCompared(p, b, c) >= 0
  PROVE  /\ Boxed!IouCompared(p, a, c) >= 0
         /\ Boxed!IouCompared(p, a, c) = 0 => Boxed!IouCompared(p, a, b) = 0 /\ Boxed!IouCompared(p, b, c) = 0
<1> DEFINE i == Boxed!Inter(p, a)  j == Boxed!Inter(p, b)  k == Boxed!Inter(p, c)
           u == Boxed!Union(p, a)  v == Boxed!Union(p, b)  w == Boxed!Union(p, c)
<1>1. i \in Nat /\ j \in Nat /\ k \in Nat /\ u \in Nat \ {0} /\ v \in Nat \ {0} /\ w \in Nat \ {0}
  BY BoxSizes
<1>2. /\ Boxed!IouCompared(p, a, b) = i * v - j * u /\ Boxed!IouCompared(p, b, c) = j * w - k * v
      /\ Boxed!IouCompared(p, a, c) = i * w - k * u
  BY DEF Boxed!IouCompared
<1> HIDE DEF i, j, k, u, v, w
<1>3. i * v \in Int /\ j * u \in Int /\ j * w \in Int /\ k * v \in Int /\ i * w \in Int /\ k * u \in Int
  BY <1>1
<1>4. i * v >= j * u /\ j * w >= k * v
  BY <1>2, <1>3
<1>5. i * w >= k * u /\ (i * w = k * u => i * v = j * u /\ j * w = k * v)
  BY <1>1, <1>4, Fractions
<1> QED BY <1>2, <1>3, <1>5

-----------------------------------------------------------------------------
Keys(s) == \A i, j \in DOMAIN s : i # j => s[i].key # s[j].key

GtRow == [box : Boxed!Boxes, key : Nat]
PredRow == [box : Boxed!Boxes, conf : Int, key : Nat]

MatchTypes ==
    /\ stage \in {"annotations", "predictions", "counts", "walk", "done"}
    /\ gts \in [Boxed!Frame -> Seq(GtRow)] /\ \A f \in Boxed!Frame : Keys(gts[f])
    /\ preds \in [Boxed!Frame -> Seq(PredRow)]
    /\ IsFiniteSet(Boxed!Rows(gts)) /\ IsFiniteSet(Boxed!Rows(preds))
    /\ todo \subseteq Boxed!Rows(preds)

LEMMA RowsAre ==
  \A b, p : p \in Boxed!Rows(b) <=> \E f \in Boxed!Frame : \E i \in DOMAIN b[f] : p = <<f, i>>
BY DEF Boxed!Rows

LEMMA PredictionIs ==
  ASSUME MatchTypes, NEW p \in Boxed!Rows(preds)
  PROVE  /\ p[1] \in Boxed!Frame /\ p[2] \in DOMAIN preds[p[1]] /\ p = <<p[1], p[2]>>
         /\ p[1] \in Int /\ p[2] \in Int
         /\ Boxed!Pred(p).box \in Boxed!Boxes /\ Boxed!Pred(p).conf \in Int /\ Boxed!Pred(p).key \in Nat
<1>1. PICK f \in Boxed!Frame : \E i \in DOMAIN preds[f] : p = <<f, i>>
  BY RowsAre
<1>2. p[1] \in Boxed!Frame /\ p[2] \in DOMAIN preds[p[1]] /\ p = <<p[1], p[2]>>
  BY <1>1
<1>3. preds[p[1]] \in Seq(PredRow) /\ p[1] \in Int
  BY <1>2 DEF MatchTypes, Boxed!Frame
<1>4. p[2] \in Int /\ Boxed!Pred(p) \in PredRow
  BY <1>2, <1>3 DEF Boxed!Pred
<1>5. Boxed!Pred(p).box \in Boxed!Boxes /\ Boxed!Pred(p).conf \in Int /\ Boxed!Pred(p).key \in Nat
  BY <1>4 DEF PredRow
<1> QED BY <1>2, <1>3, <1>4, <1>5, Zenon

LEMMA GtIs ==
  ASSUME MatchTypes, NEW f \in Boxed!Frame, NEW g \in DOMAIN gts[f]
  PROVE  gts[f][g].box \in Boxed!Boxes /\ gts[f][g].key \in Nat /\ g \in 1 .. Len(gts[f])
<1>1. gts[f] \in Seq(GtRow)
  BY DEF MatchTypes
<1>2. g \in 1 .. Len(gts[f]) /\ gts[f][g] \in GtRow
  BY <1>1
<1> QED BY <1>2 DEF GtRow

\* The ranking is a strict total order.
LEMMA AheadOrder ==
  ASSUME MatchTypes, NEW p \in Boxed!Rows(preds), NEW q \in Boxed!Rows(preds)
  PROVE  /\ ~(Boxed!Ahead(p, q) /\ Boxed!Ahead(q, p))
         /\ p = q \/ Boxed!Ahead(p, q) \/ Boxed!Ahead(q, p)
<1>1. /\ p = <<p[1], p[2]>> /\ p[1] \in Int /\ p[2] \in Int
      /\ Boxed!Pred(p).conf \in Int /\ Boxed!Pred(p).key \in Nat
  BY PredictionIs
<1>2. /\ q = <<q[1], q[2]>> /\ q[1] \in Int /\ q[2] \in Int
      /\ Boxed!Pred(q).conf \in Int /\ Boxed!Pred(q).key \in Nat
  BY PredictionIs
<1> QED BY <1>1, <1>2 DEF Boxed!Ahead

\* A prediction's preference among the boxes of its frame is one, too.
LEMMA PrefersOrder ==
  ASSUME Boxed!MatchAssumption, MatchTypes, NEW p \in Boxed!Rows(preds),
         NEW g \in DOMAIN gts[p[1]], NEW h \in DOMAIN gts[p[1]], NEW k \in DOMAIN gts[p[1]]
  PROVE  /\ ~(Boxed!Prefers(p, g, h) /\ Boxed!Prefers(p, h, g))
         /\ g = h \/ Boxed!Prefers(p, g, h) \/ Boxed!Prefers(p, h, g)
         /\ Boxed!Prefers(p, g, h) /\ Boxed!Prefers(p, h, k) => Boxed!Prefers(p, g, k)
<1> DEFINE x == Boxed!Pred(p).box  a == gts[p[1]][g].box  b == gts[p[1]][h].box  c == gts[p[1]][k].box
           r == gts[p[1]][g].key  s == gts[p[1]][h].key  t == gts[p[1]][k].key
<1>1. p[1] \in Boxed!Frame /\ x \in Boxed!Boxes
  BY PredictionIs
<1>2. a \in Boxed!Boxes /\ b \in Boxed!Boxes /\ c \in Boxed!Boxes /\ r \in Nat /\ s \in Nat /\ t \in Nat
  BY <1>1, GtIs
<1>3. g # h => r # s
  BY <1>1 DEF MatchTypes, Keys
<1>4. /\ Boxed!Prefers(p, g, h) <=> Boxed!IouCompared(x, a, b) > 0 \/ (Boxed!IouCompared(x, a, b) = 0 /\ r < s)
      /\ Boxed!Prefers(p, h, g) <=> Boxed!IouCompared(x, b, a) > 0 \/ (Boxed!IouCompared(x, b, a) = 0 /\ s < r)
      /\ Boxed!Prefers(p, h, k) <=> Boxed!IouCompared(x, b, c) > 0 \/ (Boxed!IouCompared(x, b, c) = 0 /\ s < t)
      /\ Boxed!Prefers(p, g, k) <=> Boxed!IouCompared(x, a, c) > 0 \/ (Boxed!IouCompared(x, a, c) = 0 /\ r < t)
  BY DEF Boxed!Prefers
<1> HIDE DEF x, a, b, c, r, s, t
<1>5. \A y, z \in Boxed!Boxes : Boxed!IouCompared(x, y, z) \in Int /\ Boxed!IouCompared(x, z, y) = 0 - Boxed!IouCompared(x, y, z)
  <2> SUFFICES ASSUME NEW y \in Boxed!Boxes, NEW z \in Boxed!Boxes
               PROVE  Boxed!IouCompared(x, y, z) \in Int /\ Boxed!IouCompared(x, z, y) = 0 - Boxed!IouCompared(x, y, z)
    OBVIOUS
  <2> DEFINE m == Boxed!Inter(x, y) * Boxed!Union(x, z)  n == Boxed!Inter(x, z) * Boxed!Union(x, y)
  <2>1. m \in Int /\ n \in Int
    BY <1>1, BoxSizes
  <2>2. Boxed!IouCompared(x, y, z) = m - n /\ Boxed!IouCompared(x, z, y) = n - m
    BY DEF Boxed!IouCompared
  <2> QED BY <2>1, <2>2
<1>6. ~(Boxed!Prefers(p, g, h) /\ Boxed!Prefers(p, h, g)) /\ (g = h \/ Boxed!Prefers(p, g, h) \/ Boxed!Prefers(p, h, g))
  <2>1. Boxed!IouCompared(x, a, b) \in Int /\ Boxed!IouCompared(x, b, a) = 0 - Boxed!IouCompared(x, a, b)
    BY <1>2, <1>5
  <2> QED BY <1>2, <1>3, <1>4, <2>1
<1>7. Boxed!Prefers(p, g, h) /\ Boxed!Prefers(p, h, k) => Boxed!Prefers(p, g, k)
  <2> SUFFICES ASSUME Boxed!Prefers(p, g, h), Boxed!Prefers(p, h, k) PROVE Boxed!Prefers(p, g, k)
    OBVIOUS
  <2>1. Boxed!IouCompared(x, a, b) >= 0 /\ Boxed!IouCompared(x, b, c) >= 0
    BY <1>2, <1>4, <1>5
  <2>2. /\ Boxed!IouCompared(x, a, c) >= 0
        /\ Boxed!IouCompared(x, a, c) = 0 => Boxed!IouCompared(x, a, b) = 0 /\ Boxed!IouCompared(x, b, c) = 0
    BY <1>1, <1>2, <2>1, IouTransitive
  <2>3. Boxed!IouCompared(x, a, c) \in Int /\ Boxed!IouCompared(x, a, b) \in Int /\ Boxed!IouCompared(x, b, c) \in Int
    BY <1>2, <1>5
  <2> QED BY <1>2, <1>4, <2>2, <2>3
<1> QED BY <1>6, <1>7

Orders(R, S) ==
    /\ \A g, h \in S : g = h \/ <<g, h>> \in R \/ <<h, g>> \in R
    /\ \A g, h, k \in S : <<g, h>> \in R /\ <<h, k>> \in R => <<g, k>> \in R

FirstOf(g, R, S) == g \in S /\ \A h \in S \ {g} : <<g, h>> \in R

\* Of some numbers, and a strict total order of them, one comes before the others.
LEMMA First ==
  ASSUME NEW n \in Nat, NEW S \in SUBSET (1 .. n), S # {}, NEW R, Orders(R, S)
  PROVE  \E g \in S : FirstOf(g, R, S)
<1> DEFINE Upto(m) == {g \in S : g <= m}
           T == {m \in Nat : Upto(m) # {} /\ ~\E g \in S : FirstOf(g, R, Upto(m))}
<1>1. \A g \in S : g \in Nat /\ 1 <= g /\ g <= n
  OBVIOUS
<1>2. /\ \A m \in Int : \A g \in S : g \in Upto(m) <=> g <= m
      /\ \A m \in Int : \A g \in Upto(m) : g \in S
  OBVIOUS
<1>3. T \in SUBSET Nat
  OBVIOUS
<1>4. \A m : m \in T <=> m \in Nat /\ Upto(m) # {} /\ ~\E g \in S : FirstOf(g, R, Upto(m))
  OBVIOUS
<1> HIDE DEF Upto, T
<1>5. T = {}
  <2> SUFFICES ASSUME T # {} PROVE FALSE
    OBVIOUS
  <2>1. PICK m \in T : \A l \in T : m <= l
    BY <1>3, Least
  <2>2. m \in Nat /\ Upto(m) # {} /\ ~\E g \in S : FirstOf(g, R, Upto(m))
    BY <1>4
  <2>3. m # 0
    <3>1. PICK g \in Upto(m) : g \in S
      BY <1>2, <2>2
    <3>2. g <= m /\ 1 <= g /\ g \in Nat
      BY <1>1, <1>2, <2>2, <3>1
    <3> QED BY <2>2, <3>2
  <2>4. m - 1 \in Nat /\ ~(m <= m - 1)
    BY <2>2, <2>3
  <2>5. Upto(m - 1) # {} => \E g \in S : FirstOf(g, R, Upto(m - 1))
    BY <1>4, <2>1, <2>4
  <2>6. \A g \in Upto(m) : g = m \/ g \in Upto(m - 1)
    <3> SUFFICES ASSUME NEW g \in Upto(m), g # m PROVE g \in Upto(m - 1)
      OBVIOUS
    <3>0. m \in Int /\ m - 1 \in Int
      BY <2>4, <2>2
    <3>1. g \in S
      BY <1>2, <3>0
    <3>2. g \in Nat /\ g <= m
      BY <1>1, <1>2, <3>0, <3>1
    <3>3. g <= m - 1
      BY <2>2, <3>2
    <3> QED BY <1>2, <3>0, <3>1, <3>3
  <2>7. \A g \in Upto(m - 1) : g \in Upto(m) /\ g # m
    <3> SUFFICES ASSUME NEW g \in Upto(m - 1) PROVE g \in Upto(m) /\ g # m
      OBVIOUS
    <3>0. m \in Int /\ m - 1 \in Int
      BY <2>4, <2>2
    <3>1. g \in S
      BY <1>2, <3>0
    <3>2. g \in Nat /\ g <= m - 1
      BY <1>1, <1>2, <3>0, <3>1
    <3>3. g <= m /\ g # m
      BY <2>2, <3>2
    <3> QED BY <1>2, <3>0, <3>1, <3>3
  <2>8. \A g \in Upto(m) : g \in S
    BY <1>2, <2>2
  <2>9. CASE Upto(m - 1) = {}
    BY <2>2, <2>6, <2>8, <2>9 DEF FirstOf
  <2>10. CASE Upto(m - 1) # {}
    <3>1. PICK g \in S : FirstOf(g, R, Upto(m - 1))
      BY <2>5, <2>10
    <3>2. g \in Upto(m) /\ g # m
      BY <2>7, <3>1 DEF FirstOf
    <3>3. m \in Upto(m) /\ m \in S
      BY <2>2, <2>6, <2>8, <3>1, <3>2 DEF FirstOf
    <3>4. CASE <<g, m>> \in R
      <4>1. FirstOf(g, R, Upto(m))
        BY <2>6, <3>1, <3>2, <3>4 DEF FirstOf
      <4> QED BY <2>2, <4>1
    <3>5. CASE <<m, g>> \in R
      <4>1. \A h \in Upto(m) \ {m} : <<m, h>> \in R
        BY <2>6, <2>8, <3>1, <3>3, <3>5 DEF FirstOf, Orders
      <4> QED BY <2>2, <3>3, <4>1 DEF FirstOf
    <3> QED BY <3>2, <3>3, <3>4, <3>5 DEF Orders
  <2> QED BY <2>9, <2>10
<1>6. Upto(n) = S
  <2>1. n \in Int
    OBVIOUS
  <2>2. \A g \in S : g \in Upto(n)
    BY <1>1, <1>2, <2>1
  <2>3. \A g \in Upto(n) : g \in S
    BY <1>2, <2>1
  <2> QED BY <2>2, <2>3
<1> QED BY <1>4, <1>5, <1>6

\* Of the boxes that fit a prediction there is one it prefers to all others.
LEMMA Preferred ==
  ASSUME Boxed!MatchAssumption, MatchTypes, NEW p \in Boxed!Rows(preds),
         NEW fits \in SUBSET DOMAIN gts[p[1]], fits # {}
  PROVE  \E g \in fits : \A h \in fits \ {g} : Boxed!Prefers(p, g, h)
<1>1. p[1] \in Boxed!Frame
  BY PredictionIs
<1>2. DOMAIN gts[p[1]] = 1 .. Len(gts[p[1]]) /\ Len(gts[p[1]]) \in Nat
  BY <1>1 DEF MatchTypes
<1> DEFINE R == {x \in fits \X fits : Boxed!Prefers(p, x[1], x[2])}
<1>3. \A g, h \in fits : <<g, h>> \in R <=> Boxed!Prefers(p, g, h)
  OBVIOUS
<1>4. \A g, h \in fits : g = h \/ Boxed!Prefers(p, g, h) \/ Boxed!Prefers(p, h, g)
  BY PrefersOrder
<1>5. \A g, h, k \in fits : Boxed!Prefers(p, g, h) /\ Boxed!Prefers(p, h, k) => Boxed!Prefers(p, g, k)
  BY PrefersOrder
<1> HIDE DEF R
<1>6. Orders(R, fits)
  BY <1>3, <1>4, <1>5 DEF Orders
<1>7. \E g \in fits : FirstOf(g, R, fits)
  BY <1>2, <1>6, First
<1> QED BY <1>3, <1>7 DEF FirstOf

-----------------------------------------------------------------------------
\* Matchings that come of taking what is best, one prediction after the other.

Fits(M) == \A m \in M : /\ m = <<m[1], m[2], m[3]>> /\ <<m[1], m[2]>> \in Boxed!Rows(preds)
                        /\ m[3] \in DOMAIN gts[m[1]]
Within(M, D) == \A m \in M : <<m[1], m[2]>> \in D
Taken(p, M) == {m \in M : m[1] = p[1] /\ m[2] = p[2]}
Earlier(p, M) == {m \in M : Boxed!Ahead(m, p)}
Greedy(M, D) == \A p \in D : Taken(p, M) = Boxed!Match(p, Earlier(p, M))

LEMMA AheadOf == \A m, p : /\ Boxed!Ahead(<<m[1], m[2]>>, p) <=> Boxed!Ahead(m, p)
                           /\ Boxed!Ahead(p, <<m[1], m[2]>>) <=> Boxed!Ahead(p, m)
BY DEF Boxed!Ahead, Boxed!Pred

\* What a prediction takes depends on what is gone in its own frame.
LEMMA MatchLocal ==
  ASSUME NEW p, NEW M, NEW N,
         \A m \in M : m[1] = p[1] => m \in N,
         \A m \in N : m[1] = p[1] => m \in M
  PROVE  Boxed!Match(p, M) = Boxed!Match(p, N)
<1>1. Boxed!Free(p, M) = Boxed!Free(p, N)
  BY DEF Boxed!Free
<1> QED BY <1>1 DEF Boxed!Match, Boxed!Best

LEMMA MatchIs ==
  ASSUME NEW p, NEW M
  PROVE  \A m \in Boxed!Match(p, M) : /\ m = <<m[1], m[2], m[3]>> /\ m[1] = p[1] /\ m[2] = p[2]
                                /\ m[3] \in Boxed!Best(p, M) /\ m[3] \in DOMAIN gts[p[1]]
BY DEF Boxed!Match, Boxed!Best, Boxed!Free

LEMMA Takes ==
  ASSUME MatchTypes, NEW M, NEW D \in SUBSET Boxed!Rows(preds),
         Fits(M), Within(M, D), Greedy(M, D), NEW p \in Boxed!Rows(preds) \ D,
         \A q \in D : q[1] = p[1] => Boxed!Ahead(q, p)
  PROVE  LET N == M \cup Boxed!Match(p, M)
         IN  Fits(N) /\ Within(N, D \cup {p}) /\ Greedy(N, D \cup {p})
<1> DEFINE N == M \cup Boxed!Match(p, M)
<1>1. p = <<p[1], p[2]>>
  BY PredictionIs
<1>2. \A m \in Boxed!Match(p, M) : /\ m = <<m[1], m[2], m[3]>> /\ <<m[1], m[2]>> = p
                             /\ m[1] = p[1] /\ m[2] = p[2] /\ m[3] \in DOMAIN gts[m[1]]
  <2> SUFFICES ASSUME NEW m \in Boxed!Match(p, M)
               PROVE  /\ m = <<m[1], m[2], m[3]>> /\ <<m[1], m[2]>> = p
                      /\ m[1] = p[1] /\ m[2] = p[2] /\ m[3] \in DOMAIN gts[m[1]]
    OBVIOUS
  <2>1. /\ m = <<m[1], m[2], m[3]>> /\ m[1] = p[1] /\ m[2] = p[2] /\ m[3] \in DOMAIN gts[p[1]]
    BY MatchIs
  <2>2. <<m[1], m[2]>> = p
    BY <1>1, <2>1
  <2> QED BY <2>1, <2>2
<1>3. \A m \in Boxed!Match(p, M) : \A q : (Boxed!Ahead(m, q) <=> Boxed!Ahead(p, q)) /\ (Boxed!Ahead(q, m) <=> Boxed!Ahead(q, p))
  BY <1>2, AheadOf
<1>4. \A m \in N : m \in M \/ m \in Boxed!Match(p, M)
  OBVIOUS
<1>5. M \subseteq N /\ Boxed!Match(p, M) \subseteq N
  OBVIOUS
<1> HIDE DEF N
<1>6. Fits(N)
  BY <1>2, <1>4 DEF Fits
<1>7. Within(N, D \cup {p})
  BY <1>2, <1>4 DEF Within
<1>8. \A m \in M : Boxed!Ahead(m, p) \/ m[1] # p[1]
  <2> SUFFICES ASSUME NEW m \in M, m[1] = p[1] PROVE Boxed!Ahead(m, p)
    OBVIOUS
  <2> DEFINE q == <<m[1], m[2]>>
  <2>1. q \in D /\ q[1] = p[1]
    BY DEF Within
  <2>2. Boxed!Ahead(q, p)
    BY <2>1
  <2> QED BY <2>2, AheadOf
<1>9. ~Boxed!Ahead(p, p)
  BY AheadOrder
<1>10. ASSUME NEW q \in D PROVE Taken(q, N) = Boxed!Match(q, Earlier(q, N))
  <2>1. q = <<q[1], q[2]>> /\ q # p
    BY PredictionIs
  <2>2. Taken(q, N) = Taken(q, M)
    <3>1. \A m \in Boxed!Match(p, M) : ~(m[1] = q[1] /\ m[2] = q[2])
      BY <1>2, <2>1
    <3> QED BY <1>4, <1>5, <3>1 DEF Taken
  <2>3. q[1] = p[1] => ~Boxed!Ahead(p, q)
    BY AheadOrder
  <2>4. \A m \in Earlier(q, N) : m[1] = q[1] => m \in Earlier(q, M)
    BY <1>2, <1>3, <1>4, <2>3 DEF Earlier
  <2>5. \A m \in Earlier(q, M) : m[1] = q[1] => m \in Earlier(q, N)
    BY <1>5 DEF Earlier
  <2>6. Boxed!Match(q, Earlier(q, N)) = Boxed!Match(q, Earlier(q, M))
    BY <2>4, <2>5, MatchLocal
  <2> QED BY <2>2, <2>6 DEF Greedy
<1>11. Taken(p, N) = Boxed!Match(p, Earlier(p, N))
  <2>1. \A m \in M : ~(m[1] = p[1] /\ m[2] = p[2])
    BY <1>1 DEF Within
  <2>2. Taken(p, N) = Boxed!Match(p, M)
    BY <1>2, <1>4, <1>5, <2>1 DEF Taken
  <2>3. \A m \in Earlier(p, N) : m[1] = p[1] => m \in M
    BY <1>3, <1>4, <1>9 DEF Earlier
  <2>4. \A m \in M : m[1] = p[1] => m \in Earlier(p, N)
    BY <1>5, <1>8 DEF Earlier
  <2>5. Boxed!Match(p, Earlier(p, N)) = Boxed!Match(p, M)
    BY <2>3, <2>4, MatchLocal
  <2> QED BY <2>2, <2>5
<1>12. Greedy(N, D \cup {p})
  BY <1>10, <1>11 DEF Greedy
<1> QED BY <1>6, <1>7, <1>12 DEF N

\* Along the one ranking of all frames the same is taken again.
LEMMA TakesAgain ==
  ASSUME MatchTypes, Fits(results), Greedy(results, Boxed!Rows(preds)),
         NEW D \in SUBSET Boxed!Rows(preds), NEW p \in Boxed!Rows(preds) \ D,
         \A q \in D : Boxed!Ahead(q, p),
         \A q \in (Boxed!Rows(preds) \ D) \ {p} : Boxed!Ahead(p, q),
         pairs = {m \in results : <<m[1], m[2]>> \in D}
  PROVE  /\ Boxed!Match(p, pairs) = Taken(p, results)
         /\ pairs \cup Boxed!Match(p, pairs) = {m \in results : <<m[1], m[2]>> \in D \cup {p}}
<1>1. p = <<p[1], p[2]>>
  BY PredictionIs
<1>2. \A m \in results : Boxed!Ahead(m, p) <=> <<m[1], m[2]>> \in D
  <2> SUFFICES ASSUME NEW m \in results PROVE Boxed!Ahead(m, p) <=> <<m[1], m[2]>> \in D
    OBVIOUS
  <2> DEFINE r == <<m[1], m[2]>>
  <2>1. r \in Boxed!Rows(preds) /\ (Boxed!Ahead(r, p) <=> Boxed!Ahead(m, p))
    BY AheadOf DEF Fits
  <2>2. r \in D => Boxed!Ahead(r, p)
    OBVIOUS
  <2>3. r \notin D => r = p \/ Boxed!Ahead(p, r)
    BY <2>1
  <2>4. ~(Boxed!Ahead(r, p) /\ Boxed!Ahead(p, r)) /\ ~Boxed!Ahead(p, p)
    BY <2>1, AheadOrder
  <2> HIDE DEF r
  <2>5. Boxed!Ahead(r, p) <=> r \in D
    BY <2>2, <2>3, <2>4
  <2> QED BY <2>1, <2>5 DEF r
<1>3. pairs = Earlier(p, results)
  BY <1>2 DEF Earlier
<1>4. Boxed!Match(p, pairs) = Taken(p, results)
  BY <1>3 DEF Greedy
<1>5. \A m \in results : <<m[1], m[2]>> = p <=> m \in Taken(p, results)
  BY <1>1 DEF Taken
<1>6. Taken(p, results) \subseteq results
  BY DEF Taken
<1>7. pairs \cup Taken(p, results) = {m \in results : <<m[1], m[2]>> \in D \cup {p}}
  BY <1>5, <1>6
<1> QED BY <1>4, <1>7

LEMMA GreedyStable ==
  ASSUME Boxed!MatchAssumption, MatchTypes, Greedy(results, Boxed!Rows(preds)), NEW p \in Boxed!Rows(preds)
  PROVE  Boxed!Stable(p)
<1> SUFFICES ASSUME NEW g \in DOMAIN gts[p[1]], Boxed!Overlaps(Boxed!Pred(p).box, gts[p[1]][g].box),
                    ~\E m \in results : m[1] = p[1] /\ m[3] = g /\ Boxed!Ahead(m, p)
             PROVE  \E m \in results : m[1] = p[1] /\ m[2] = p[2]
                                       /\ (m[3] = g \/ Boxed!Prefers(p, m[3], g))
  BY DEF Boxed!Stable
<1> DEFINE E == Earlier(p, results)
           fits == {h \in Boxed!Free(p, E) : Boxed!Overlaps(Boxed!Pred(p).box, gts[p[1]][h].box)}
<1>1. g \in Boxed!Free(p, E)
  BY DEF Boxed!Free, Earlier
<1>2. g \in fits /\ fits \subseteq DOMAIN gts[p[1]]
  BY <1>1 DEF Boxed!Free
<1>3. PICK h \in fits : \A k \in fits \ {h} : Boxed!Prefers(p, h, k)
  <2> HIDE DEF fits
  <2> QED BY <1>2, Preferred
<1>4. h \in Boxed!Best(p, E)
  BY <1>3 DEF Boxed!Best
<1>5. <<p[1], p[2], h>> \in Boxed!Match(p, E)
  BY <1>4 DEF Boxed!Match
<1>6. <<p[1], p[2], h>> \in results
  BY <1>5 DEF Greedy, Taken
<1>7. h = g \/ Boxed!Prefers(p, h, g)
  BY <1>2, <1>3
<1> DEFINE m == <<p[1], p[2], h>>
<1>8. m[1] = p[1] /\ m[2] = p[2] /\ m[3] = h
  OBVIOUS
<1> HIDE DEF m, fits, E
<1> QED BY <1>6, <1>7, <1>8 DEF m

LEMMA GreedyOneToOne ==
  ASSUME Boxed!MatchAssumption, MatchTypes, NEW M, Fits(M), Greedy(M, Boxed!Rows(preds)),
         NEW m \in M, NEW n \in M, m[1] = n[1]
  PROVE  (m[2] = n[2]) = (m[3] = n[3])
<1> DEFINE p == <<m[1], m[2]>>
           q == <<n[1], n[2]>>
<1>1. p \in Boxed!Rows(preds) /\ q \in Boxed!Rows(preds) /\ p[1] = m[1] /\ q[1] = m[1] /\ p[2] = m[2] /\ q[2] = n[2]
  BY DEF Fits
<1>2. m \in Taken(p, M) /\ n \in Taken(q, M)
  BY <1>1 DEF Taken
<1>3. m \in Boxed!Match(p, Earlier(p, M)) /\ n \in Boxed!Match(q, Earlier(q, M))
  BY <1>1, <1>2 DEF Greedy
<1>4. m[3] \in Boxed!Best(p, Earlier(p, M)) /\ n[3] \in Boxed!Best(q, Earlier(q, M))
  BY <1>3, MatchIs
<1>5. m[2] = n[2] => m[3] = n[3]
  <2> SUFFICES ASSUME m[2] = n[2], m[3] # n[3] PROVE FALSE
    OBVIOUS
  <2>1. n[3] \in Boxed!Best(p, Earlier(p, M))
    BY <1>4
  <2>2. Boxed!Prefers(p, m[3], n[3]) /\ Boxed!Prefers(p, n[3], m[3])
    BY <1>4, <2>1 DEF Boxed!Best
  <2>3. m[3] \in DOMAIN gts[p[1]] /\ n[3] \in DOMAIN gts[p[1]]
    BY <1>1 DEF Fits
  <2> QED BY <1>1, <2>2, <2>3, PrefersOrder
<1>6. m[3] = n[3] => m[2] = n[2]
  <2> SUFFICES ASSUME m[3] = n[3], m[2] # n[2] PROVE FALSE
    OBVIOUS
  <2>1. p # q
    OBVIOUS
  <2>2. Boxed!Ahead(p, q) \/ Boxed!Ahead(q, p)
    BY <1>1, <2>1, AheadOrder
  <2>3. m[3] \in Boxed!Free(p, Earlier(p, M)) /\ n[3] \in Boxed!Free(q, Earlier(q, M))
    BY <1>4 DEF Boxed!Best
  <2>4. ~(n \in Earlier(p, M)) /\ ~(m \in Earlier(q, M))
    BY <1>1, <2>3 DEF Boxed!Free
  <2>5. ~Boxed!Ahead(n, p) /\ ~Boxed!Ahead(m, q)
    BY <2>4 DEF Earlier
  <2> QED BY <2>2, <2>5, AheadOf
<1> QED BY <1>5, <1>6

-----------------------------------------------------------------------------
\* The curve: its points count the found, one by one, and its area is full only
\* when no point before the last find is short of full precision.

Curve(s) ==
    /\ s \in Seq(Nat \X Nat)
    /\ \A j \in 1 .. Len(s) : /\ s[j][2] = j /\ s[j][1] <= j
                              /\ \/ s[j][1] = (IF j = 1 THEN 0 ELSE s[j - 1][1])
                                 \/ s[j][1] = (IF j = 1 THEN 0 ELSE s[j - 1][1]) + 1

LEMMA Division ==
  ASSUME NEW t \in Nat, NEW n \in Nat \ {0}, NEW s \in Nat \ {0}, t <= n
  PROVE  /\ (t * s) \div n \in 0 .. s
         /\ (t * s) \div n = s <=> t = n
<1> DEFINE ts == t * s  d == ts \div n  ns == n * s
<1>1. ts \in Nat /\ ns \in Nat /\ ts <= ns /\ (t # n => ts < ns) /\ (t = n => ts = ns)
  BY Products
<1>2. d \in Int /\ n * d <= ts /\ ts < n * d + n
  <2> HIDE DEF ts
  <2> QED BY <1>1
<1>3. \A x, y \in Int : n * x < n * y => x < y
  OBVIOUS
<1>4. \A x \in Int : n * (x + 1) = n * x + n
  OBVIOUS
<1>5. n * s = ns /\ n * 0 = 0
  OBVIOUS
<1> HIDE DEF ts, d, ns
<1>6. n * d \in Int
  BY <1>2
<1>7. n * 0 < n * (d + 1)
  BY <1>1, <1>2, <1>4, <1>5, <1>6
<1>8. n * d < n * (s + 1)
  BY <1>1, <1>2, <1>4, <1>5, <1>6
<1>9. d \in 0 .. s
  BY <1>2, <1>3, <1>7, <1>8
<1>10. t = n => n * s < n * (d + 1)
  BY <1>1, <1>2, <1>4, <1>5, <1>6
<1>11. t # n => n * d < n * s
  BY <1>1, <1>2, <1>5, <1>6
<1>12. d = s <=> t = n
  BY <1>2, <1>3, <1>9, <1>10, <1>11
<1> QED BY <1>9, <1>12 DEF d, ts

\* Numbers can be summed up.
LEMMA Sums ==
  ASSUME NEW n \in Nat, NEW d \in [1 .. n -> Int]
  PROVE  \E f \in [0 .. n -> Int] : f[0] = 0 /\ \A j \in 1 .. n : f[j] = f[j - 1] + d[j]
<1> DEFINE Sum(m, f) == f[0] = 0 /\ \A j \in 1 .. m : f[j] = f[j - 1] + d[j]
           T == {m \in Nat : m <= n /\ ~\E f \in [0 .. m -> Int] : Sum(m, f)}
<1>1. T = {}
  <2> SUFFICES ASSUME T # {} PROVE FALSE
    OBVIOUS
  <2>1. T \in SUBSET Nat
    OBVIOUS
  <2>2. PICK m \in T : \A l \in T : m <= l
    <3> HIDE DEF T
    <3> QED BY <2>1, Least
  <2>3. m \in Nat /\ m <= n /\ ~\E f \in [0 .. m -> Int] : Sum(m, f)
    OBVIOUS
  <2>4. m # 0
    <3> DEFINE f == [j \in 0 .. 0 |-> 0]
    <3>1. f \in [0 .. 0 -> Int] /\ Sum(0, f)
      OBVIOUS
    <3> HIDE DEF f, Sum
    <3> QED BY <2>3, <3>1
  <2>5. m - 1 \in Nat /\ m - 1 <= n /\ ~(m <= m - 1)
    BY <2>3, <2>4
  <2>6. PICK f \in [0 .. (m - 1) -> Int] : Sum(m - 1, f)
    BY <2>2, <2>5
  <2> DEFINE g == [j \in 0 .. m |-> IF j = m THEN f[m - 1] + d[m] ELSE f[j]]
  <2>7. m \in 1 .. n /\ d[m] \in Int /\ f[m - 1] \in Int
    BY <2>3, <2>4, <2>5
  <2>8. g \in [0 .. m -> Int]
    <3>1. \A j \in 0 .. m : j # m => j \in 0 .. (m - 1)
      BY <2>3
    <3> QED BY <2>7, <3>1
  <2>9. Sum(m, g)
    <3>1. g[0] = 0
      BY <2>3, <2>4, <2>6
    <3>2. g[m] = g[m - 1] + d[m]
      BY <2>3, <2>5, <2>7
    <3>3. ASSUME NEW j \in 1 .. m, j # m PROVE g[j] = g[j - 1] + d[j]
      <4>1. j \in 1 .. (m - 1) /\ j - 1 \in 0 .. m /\ j - 1 # m /\ j \in 0 .. m
        BY <2>3, <3>3
      <4>2. g[j] = f[j] /\ g[j - 1] = f[j - 1]
        BY <3>3, <4>1
      <4>3. f[j] = f[j - 1] + d[j]
        BY <2>6, <4>1
      <4> QED BY <4>2, <4>3
    <3> QED BY <3>1, <3>2, <3>3
  <2> HIDE DEF g, Sum
  <2> QED BY <2>3, <2>8, <2>9
<1>2. ~(n \in T)
  <2> HIDE DEF T
  <2> QED BY <1>1
<1>3. \E f \in [0 .. n -> Int] : Sum(n, f)
  <2>1. n <= n
    OBVIOUS
  <2> HIDE DEF Sum
  <2> QED BY <1>2, <2>1
<1> QED BY <1>3

LEMMA CurveSteps ==
  ASSUME Curve(points)
  PROVE  /\ Len(points) \in Nat /\ Boxed!Found(0) = 0
         /\ \A j \in 0 .. Len(points) : Boxed!Found(j) \in Nat /\ Boxed!Found(j) <= j
         /\ \A j \in 1 .. Len(points) : /\ points[j] = <<Boxed!Found(j), j>>
                                        /\ Boxed!Found(j) = Boxed!Found(j - 1) \/ Boxed!Found(j) = Boxed!Found(j - 1) + 1
<1>1. Len(points) \in Nat /\ Boxed!Found(0) = 0
  BY DEF Curve, Boxed!Found
<1>2. ASSUME NEW j \in 1 .. Len(points)
      PROVE  /\ points[j] = <<Boxed!Found(j), j>> /\ Boxed!Found(j) \in Nat /\ Boxed!Found(j) <= j
             /\ Boxed!Found(j) = Boxed!Found(j - 1) \/ Boxed!Found(j) = Boxed!Found(j - 1) + 1
  <2>1. points[j] \in Nat \X Nat /\ j # 0 /\ j \in Int
    BY DEF Curve
  <2>2. points[j][2] = j /\ points[j][1] <= j
    BY DEF Curve
  <2>3. Boxed!Found(j) = points[j][1] /\ Boxed!Found(j - 1) = IF j = 1 THEN 0 ELSE points[j - 1][1]
    BY <2>1 DEF Boxed!Found
  <2> QED BY <2>1, <2>2, <2>3 DEF Curve
<1>3. ASSUME NEW j \in 0 .. Len(points) PROVE Boxed!Found(j) \in Nat /\ Boxed!Found(j) <= j
  <2>1. j = 0 \/ j \in 1 .. Len(points)
    OBVIOUS
  <2> QED BY <1>1, <1>2, <2>1
<1> QED BY <1>1, <1>2, <1>3

LEMMA FoundGrows ==
  ASSUME Curve(points), NEW i \in 0 .. Len(points), NEW j \in 0 .. Len(points), i <= j
  PROVE  Boxed!Found(i) <= Boxed!Found(j)
<1> DEFINE n == Len(points)
           T == {m \in Nat : i <= m /\ m <= n /\ ~(Boxed!Found(i) <= Boxed!Found(m))}
<1>1. n \in Nat /\ \A m \in 0 .. n : Boxed!Found(m) \in Nat
  BY CurveSteps
<1>2. \A m \in 1 .. n : Boxed!Found(m) = Boxed!Found(m - 1) \/ Boxed!Found(m) = Boxed!Found(m - 1) + 1
  BY CurveSteps
<1> HIDE DEF n
<1>3. T = {}
  <2> SUFFICES ASSUME T # {} PROVE FALSE
    OBVIOUS
  <2>1. T \in SUBSET Nat
    OBVIOUS
  <2>2. PICK m \in T : \A l \in T : m <= l
    <3> HIDE DEF T
    <3> QED BY <2>1, Least
  <2>3. m \in Nat /\ i <= m /\ m <= n /\ ~(Boxed!Found(i) <= Boxed!Found(m)) /\ i \in Nat
    BY DEF n
  <2>4. m # i
    BY <1>1, <2>3
  <2>5. m \in 1 .. n /\ m - 1 \in 0 .. n /\ i <= m - 1 /\ ~(m <= m - 1) /\ i \in 0 .. n
    BY <1>1, <2>3, <2>4
  <2>6. Boxed!Found(i) <= Boxed!Found(m - 1)
    BY <2>2, <2>5
  <2>7. /\ Boxed!Found(i) \in Nat /\ Boxed!Found(m - 1) \in Nat
        /\ Boxed!Found(m) = Boxed!Found(m - 1) \/ Boxed!Found(m) = Boxed!Found(m - 1) + 1
    BY <1>1, <1>2, <2>5
  <2> HIDE DEF T
  <2> QED BY <2>3, <2>6, <2>7
<1> QED BY <1>3 DEF n

LEMMA PrecisionIs ==
  ASSUME Boxed!MatchAssumption, Curve(points), NEW j \in 1 .. Len(points)
  PROVE  Boxed!Precision(j) \in 0 .. Scale /\ (Boxed!Precision(j) = Scale <=> Boxed!Found(j) = j)
<1>1. points[j] = <<Boxed!Found(j), j>> /\ j \in 0 .. Len(points)
  BY CurveSteps
<1>2. Boxed!Found(j) \in Nat /\ Boxed!Found(j) <= j /\ j \in Nat \ {0}
  BY <1>1, CurveSteps
<1>3. Boxed!Precision(j) = (Boxed!Found(j) * Scale) \div j
  BY <1>1 DEF Boxed!Precision
<1>4. Scale \in Nat \ {0}
  BY DEF Boxed!MatchAssumption
<1> DEFINE t == Boxed!Found(j)
<1>5. (t * Scale) \div j \in 0 .. Scale /\ ((t * Scale) \div j = Scale <=> t = j)
  <2>1. t \in Nat /\ t <= j
    BY <1>2
  <2> HIDE DEF t
  <2> QED BY <1>2, <1>4, <2>1, Division
<1> QED BY <1>3, <1>5, Zenon

LEMMA EnvelopeIs ==
  ASSUME Boxed!MatchAssumption, Curve(points), NEW j \in 1 .. Len(points)
  PROVE  /\ Boxed!Envelope(j) \in 0 .. Scale
         /\ Boxed!Envelope(j) = Scale <=> \E k \in j .. Len(points) : Boxed!Found(k) = k
<1> DEFINE right == {Boxed!Precision(k) : k \in j .. Len(points)}
           T == {x \in Nat : Scale - x \in right}
<1>1. \A k \in j .. Len(points) : k \in 1 .. Len(points)
  BY CurveSteps
<1>2. \A k \in j .. Len(points) : Boxed!Precision(k) \in 0 .. Scale /\ (Boxed!Precision(k) = Scale <=> Boxed!Found(k) = k)
  BY <1>1, PrecisionIs
<1>3. Scale \in Nat /\ \A x \in right : x \in 0 .. Scale
  BY <1>2 DEF Boxed!MatchAssumption
<1>4. j \in j .. Len(points)
  BY CurveSteps
<1>5. \E best \in right : \A other \in right : other <= best
  <2>1. T \in SUBSET Nat
    OBVIOUS
  <2>2. T # {}
    <3>1. Boxed!Precision(j) \in right
      BY <1>4
    <3>2. Boxed!Precision(j) \in 0 .. Scale
      BY <1>3, <3>1
    <3>3. Scale - Boxed!Precision(j) \in Nat /\ Scale - (Scale - Boxed!Precision(j)) = Boxed!Precision(j)
      BY <1>3, <3>2
    <3>4. Scale - Boxed!Precision(j) \in T
      BY <3>1, <3>3
    <3> QED BY <3>4
  <2>3. PICK x \in T : \A y \in T : x <= y
    <3> HIDE DEF T
    <3> QED BY <2>1, <2>2, Least
  <2>4. Scale - x \in right
    OBVIOUS
  <2>5. ASSUME NEW other \in right PROVE other <= Scale - x
    <3>1. other \in 0 .. Scale /\ Scale - other \in Nat /\ Scale - (Scale - other) = other
      BY <1>3
    <3>2. Scale - other \in T
      BY <3>1
    <3>3. x <= Scale - other /\ x \in Nat
      BY <2>1, <2>3, <3>2
    <3> QED BY <1>3, <3>1, <3>3
  <2> QED BY <2>4, <2>5
<1>6. Boxed!Envelope(j) = CHOOSE best \in right : \A other \in right : other <= best
  BY DEF Boxed!Envelope
<1>7. Boxed!Envelope(j) \in right /\ \A other \in right : other <= Boxed!Envelope(j)
  <2> HIDE DEF right
  <2> QED BY <1>5, <1>6
<1>8. PICK k \in j .. Len(points) : Boxed!Envelope(j) = Boxed!Precision(k)
  BY <1>7
<1>9. Boxed!Envelope(j) = Scale => Boxed!Found(k) = k
  BY <1>2, <1>8
<1>10. ASSUME NEW l \in j .. Len(points), Boxed!Found(l) = l PROVE Boxed!Envelope(j) = Scale
  <2>1. Scale \in right
    BY <1>2, <1>10
  <2>2. Scale <= Boxed!Envelope(j) /\ Boxed!Envelope(j) \in 0 .. Scale
    BY <1>3, <1>7, <2>1
  <2> QED BY <1>3, <2>2
<1> QED BY <1>2, <1>8, <1>9, <1>10

LEMMA AreaIs ==
  ASSUME Boxed!MatchAssumption, Curve(points)
  PROVE  /\ Boxed!AreaTo \in [0 .. Len(points) -> Int] /\ Boxed!AreaTo[0] = 0
         /\ \A j \in 1 .. Len(points) :
               Boxed!AreaTo[j] = Boxed!AreaTo[j - 1] + (Boxed!Found(j) - Boxed!Found(j - 1)) * Boxed!Envelope(j)
<1> DEFINE n == Len(points)
           d == [j \in 1 .. n |-> (Boxed!Found(j) - Boxed!Found(j - 1)) * Boxed!Envelope(j)]
           Is(f) == f = [j \in 0 .. n |-> IF j = 0 THEN 0
                             ELSE f[j - 1] + (Boxed!Found(j) - Boxed!Found(j - 1)) * Boxed!Envelope(j)]
<1>1. n \in Nat
  BY CurveSteps
<1>2. ASSUME NEW j \in 1 .. n PROVE d[j] \in Int
  <2>1. j \in 0 .. n /\ j - 1 \in 0 .. n
    BY <1>1
  <2>2. Boxed!Found(j) \in Int /\ Boxed!Found(j - 1) \in Int
    BY <2>1, CurveSteps
  <2>3. Boxed!Envelope(j) \in Int
    BY EnvelopeIs DEF Boxed!MatchAssumption
  <2> QED BY <2>2, <2>3
<1>3. d \in [1 .. n -> Int]
  BY <1>2
<1>4. PICK f \in [0 .. n -> Int] : f[0] = 0 /\ \A j \in 1 .. n : f[j] = f[j - 1] + d[j]
  <2> HIDE DEF d, n
  <2> QED BY <1>1, <1>3, Sums
<1>5. Is(f)
  <2>1. \A j \in 0 .. n : f[j] = IF j = 0 THEN 0
                                 ELSE f[j - 1] + (Boxed!Found(j) - Boxed!Found(j - 1)) * Boxed!Envelope(j)
    <3> SUFFICES ASSUME NEW j \in 0 .. n, j # 0
                 PROVE  f[j] = f[j - 1] + (Boxed!Found(j) - Boxed!Found(j - 1)) * Boxed!Envelope(j)
      BY <1>4
    <3>1. j \in 1 .. n
      BY <1>1
    <3>2. d[j] = (Boxed!Found(j) - Boxed!Found(j - 1)) * Boxed!Envelope(j)
      BY <3>1
    <3> QED BY <1>4, <3>1, <3>2
  <2> HIDE DEF n
  <2> QED BY <2>1
<1>6. Boxed!AreaTo = CHOOSE g : Is(g)
  BY DEF Boxed!AreaTo
<1>7. Is(Boxed!AreaTo)
  <2> HIDE DEF Is
  <2> QED BY <1>5, <1>6
<1>8. /\ DOMAIN Boxed!AreaTo = 0 .. n
      /\ \A j \in 0 .. n : Boxed!AreaTo[j] = IF j = 0 THEN 0
                                       ELSE Boxed!AreaTo[j - 1] + (Boxed!Found(j) - Boxed!Found(j - 1)) * Boxed!Envelope(j)
  <2> HIDE DEF n
  <2> QED BY <1>7
<1>9. Boxed!AreaTo[0] = 0 /\ \A j \in 1 .. n : Boxed!AreaTo[j] = Boxed!AreaTo[j - 1] + d[j]
  BY <1>1, <1>8
<1> DEFINE T == {m \in Nat : m <= n /\ Boxed!AreaTo[m] \notin Int}
<1>10. T = {}
  <2> SUFFICES ASSUME T # {} PROVE FALSE
    OBVIOUS
  <2>1. T \in SUBSET Nat
    OBVIOUS
  <2>2. PICK m \in T : \A l \in T : m <= l
    <3> HIDE DEF T
    <3> QED BY <2>1, Least
  <2>3. m \in Nat /\ m <= n /\ Boxed!AreaTo[m] \notin Int
    OBVIOUS
  <2>4. m # 0
    BY <1>9, <2>3
  <2>5. m - 1 \in Nat /\ m - 1 <= n /\ ~(m <= m - 1) /\ m \in 1 .. n
    BY <1>1, <2>3, <2>4
  <2>6. Boxed!AreaTo[m - 1] \in Int
    BY <2>2, <2>5
  <2>7. Boxed!AreaTo[m] = Boxed!AreaTo[m - 1] + d[m] /\ d[m] \in Int
    BY <1>2, <1>9, <2>5
  <2> HIDE DEF d
  <2> QED BY <2>3, <2>6, <2>7
<1>11. \A m \in 0 .. n : Boxed!AreaTo[m] \in Int
  BY <1>1, <1>10
<1>12. Boxed!AreaTo \in [0 .. n -> Int]
  <2>1. Boxed!AreaTo = [j \in 0 .. n |-> Boxed!AreaTo[j]]
    <3> HIDE DEF n
    <3> QED BY <1>7
  <2> HIDE DEF n
  <2> QED BY <1>11, <2>1
<1>13. \A j \in 1 .. n : Boxed!AreaTo[j] = Boxed!AreaTo[j - 1] + (Boxed!Found(j) - Boxed!Found(j - 1)) * Boxed!Envelope(j)
  BY <1>9
<1> QED BY <1>9, <1>12, <1>13

\* The area is that of the found, less what the precision falls short of at the
\* finds; it is that of all people when they come first, without a false box.
LEMMA Full ==
  ASSUME Boxed!MatchAssumption, Curve(points), NEW all \in Nat \ {0}, Boxed!Found(Len(points)) <= all
  PROVE  /\ Boxed!AreaTo[Len(points)] \in Int /\ Boxed!AreaTo[Len(points)] <= Scale * Boxed!Found(Len(points))
         /\ Boxed!AreaTo[Len(points)] = Scale * all <=> all <= Len(points) /\ Boxed!Found(all) = all
<1> DEFINE n == Len(points)
           Loss(j) == Scale * Boxed!Found(j) - Boxed!AreaTo[j]
<1>1. n \in Nat /\ Boxed!Found(0) = 0 /\ \A j \in 0 .. n : Boxed!Found(j) \in Nat /\ Boxed!Found(j) <= j
  BY CurveSteps
<1>2. \A j \in 1 .. n : Boxed!Found(j) = Boxed!Found(j - 1) \/ Boxed!Found(j) = Boxed!Found(j - 1) + 1
  BY CurveSteps
<1>3. Scale \in Nat \ {0}
  BY DEF Boxed!MatchAssumption
<1>4. \A j \in 0 .. n : Boxed!AreaTo[j] \in Int
  BY AreaIs
<1>5. \A j \in 1 .. n : /\ Boxed!Envelope(j) \in 0 .. Scale
                        /\ Boxed!Envelope(j) = Scale <=> \E k \in j .. n : Boxed!Found(k) = k
  BY EnvelopeIs
<1>6. \A i, j \in 0 .. n : i <= j => Boxed!Found(i) <= Boxed!Found(j)
  BY FoundGrows
<1>7. \A j \in 0 .. n : Loss(j) \in Int
  <2> SUFFICES ASSUME NEW j \in 0 .. n PROVE Loss(j) \in Int
    OBVIOUS
  <2>1. Boxed!Found(j) \in Int /\ Boxed!AreaTo[j] \in Int
    BY <1>1, <1>4
  <2> QED BY <1>3, <2>1
<1>8. Loss(0) = 0
  BY <1>1, <1>3, AreaIs
<1>9. ASSUME NEW j \in 1 .. n
      PROVE  /\ j - 1 \in 0 .. n /\ j \in 0 .. n /\ Loss(j - 1) <= Loss(j)
             /\ Loss(j) = Loss(j - 1) <=> Boxed!Found(j) = Boxed!Found(j - 1) \/ Boxed!Envelope(j) = Scale
  <2>1. j - 1 \in 0 .. n /\ j \in 0 .. n
    BY <1>1
  <2> DEFINE f == Boxed!Found(j)  g == Boxed!Found(j - 1)  a == Boxed!AreaTo[j]  b == Boxed!AreaTo[j - 1]  e == Boxed!Envelope(j)
  <2>2. f \in Nat /\ g \in Nat /\ a \in Int /\ b \in Int /\ e \in 0 .. Scale
    BY <1>1, <1>4, <1>5, <2>1
  <2>3. f = g \/ f = g + 1
    BY <1>2
  <2>4. a = b + (f - g) * e
    BY AreaIs
  <2>5. Loss(j) = Scale * f - a /\ Loss(j - 1) = Scale * g - b
    OBVIOUS
  <2>6. (f = g \/ e = Scale <=> Loss(j) = Loss(j - 1)) /\ Loss(j - 1) <= Loss(j)
    <3> HIDE DEF f, g, a, b, e, Loss
    <3>1. CASE f = g
      <4>1. a = b
        BY <2>2, <2>4, <3>1
      <4>2. Scale * g \in Int
        BY <1>3, <2>2
      <4> QED BY <2>2, <2>5, <3>1, <4>1, <4>2
    <3>2. CASE f = g + 1
      <4>1. a = b + e /\ f # g
        BY <2>2, <2>4, <3>2
      <4>2. Scale * f = Scale * g + Scale /\ Scale * g \in Int
        BY <1>3, <2>2, <3>2
      <4> QED BY <1>3, <2>2, <2>5, <4>1, <4>2
    <3> QED BY <2>3, <3>1, <3>2
  <2> HIDE DEF Loss
  <2> QED BY <2>1, <2>6
<1> HIDE DEF Loss, n
<1>10. \A j \in 0 .. n : Loss(j) >= 0 /\ Loss(j) <= Loss(n)
  <2> DEFINE T == {m \in Nat : m <= n /\ Loss(m) < 0}
             U == {m \in Nat : m <= n /\ Loss(n - m) > Loss(n)}
  <2>1. T = {}
    <3> SUFFICES ASSUME T # {} PROVE FALSE
      OBVIOUS
    <3>1. T \in SUBSET Nat
      OBVIOUS
    <3>2. PICK m \in T : \A l \in T : m <= l
      <4> HIDE DEF T
      <4> QED BY <3>1, Least
    <3>3. m \in Nat /\ m <= n /\ Loss(m) < 0
      OBVIOUS
    <3>4. m # 0
      BY <1>8, <3>3
    <3>5. m \in 1 .. n /\ m - 1 \in Nat /\ m - 1 <= n /\ ~(m <= m - 1) /\ m - 1 \in 0 .. n /\ m \in 0 .. n
      BY <1>1, <3>3, <3>4
    <3>6. ~(Loss(m - 1) < 0)
      BY <3>2, <3>5
    <3> QED BY <1>7, <1>9, <3>3, <3>5, <3>6
  <2>2. U = {}
    <3> SUFFICES ASSUME U # {} PROVE FALSE
      OBVIOUS
    <3>1. U \in SUBSET Nat
      OBVIOUS
    <3>2. PICK m \in U : \A l \in U : m <= l
      <4> HIDE DEF U
      <4> QED BY <3>1, Least
    <3>3. m \in Nat /\ m <= n /\ Loss(n - m) > Loss(n)
      OBVIOUS
    <3>4. n \in 0 .. n /\ Loss(n) \in Int
      BY <1>1, <1>7
    <3>5. m # 0
      BY <1>1, <3>3, <3>4
    <3>6. /\ m - 1 \in Nat /\ m - 1 <= n /\ ~(m <= m - 1)
          /\ n - (m - 1) \in 1 .. n /\ (n - (m - 1)) - 1 = n - m /\ n - m \in 0 .. n
      BY <1>1, <3>3, <3>5
    <3>7. ~(Loss(n - (m - 1)) > Loss(n))
      BY <3>2, <3>6
    <3>8. Loss(n - m) <= Loss(n - (m - 1)) /\ n - (m - 1) \in 0 .. n
      BY <1>9, <3>6
    <3>9. Loss(n) \in Int /\ Loss(n - m) \in Int /\ Loss(n - (m - 1)) \in Int
      BY <1>7, <3>4, <3>6, <3>8
    <3> HIDE DEF T, U
    <3> QED BY <3>3, <3>7, <3>8, <3>9
  <2> SUFFICES ASSUME NEW j \in 0 .. n PROVE Loss(j) >= 0 /\ Loss(j) <= Loss(n)
    OBVIOUS
  <2>3. j \in Nat /\ j <= n /\ j \notin T
    BY <1>1, <2>1
  <2>4. n - j \in Nat /\ n - j <= n /\ n - j \notin U /\ n - (n - j) = j /\ n \in 0 .. n
    <3> HIDE DEF T, U
    <3>1. j \in Nat /\ j <= n /\ n \in Nat
      BY <1>1, <2>3
    <3>2. n - j \in Nat /\ n - j <= n /\ n - (n - j) = j /\ n \in 0 .. n
      BY <3>1
    <3> QED BY <2>2, <3>2
  <2>5. ~(Loss(j) < 0) /\ ~(Loss(j) > Loss(n))
    BY <2>3, <2>4
  <2> QED BY <1>7, <2>4, <2>5
<1>11. Loss(n) = Scale * Boxed!Found(n) - Boxed!AreaTo[n] /\ Boxed!AreaTo[n] \in Int /\ Boxed!Found(n) \in Nat /\ n \in 0 .. n
  BY <1>1, <1>4 DEF Loss
<1>12. Boxed!AreaTo[n] <= Scale * Boxed!Found(n)
  <2>1. Loss(n) >= 0 /\ Scale * Boxed!Found(n) \in Int
    BY <1>3, <1>10, <1>11
  <2> QED BY <1>11, <2>1
<1>13. ASSUME Boxed!AreaTo[n] = Scale * all PROVE all <= n /\ Boxed!Found(all) = all
  <2>1. Boxed!Found(n) <= all
    BY DEF n
  <2>2. Boxed!Found(n) = all
    <3>1. Boxed!Found(n) * Scale \in Int /\ all * Scale \in Int /\ Scale * Boxed!Found(n) = Boxed!Found(n) * Scale
          /\ Scale * all = all * Scale
      BY <1>3, <1>11
    <3>2. Boxed!Found(n) < all => Boxed!Found(n) * Scale < all * Scale
      BY <1>3, <1>11, Products
    <3> QED BY <1>11, <1>12, <1>13, <2>1, <3>1, <3>2
  <2>3. Loss(n) = 0
    <3>1. Scale * all \in Int
      BY <1>3
    <3> QED BY <1>11, <1>13, <2>2, <3>1
  <2>4. \A j \in 0 .. n : Loss(j) = 0
    BY <1>7, <1>10, <2>3
  <2> DEFINE T == {m \in Nat : m <= n /\ Boxed!Found(m) = all}
  <2>5. n \in T /\ T \in SUBSET Nat
    BY <1>1, <2>2
  <2>6. PICK m \in T : \A l \in T : m <= l
    <3> HIDE DEF T
    <3> QED BY <2>5, Least
  <2>7. m \in Nat /\ m <= n /\ Boxed!Found(m) = all
    OBVIOUS
  <2>8. m # 0
    BY <1>1, <2>7
  <2>9. m \in 1 .. n /\ m - 1 \in Nat /\ m - 1 <= n /\ ~(m <= m - 1) /\ m \in 0 .. n
    BY <1>1, <2>7, <2>8
  <2>10. Boxed!Found(m - 1) # Boxed!Found(m)
    BY <2>6, <2>7, <2>9
  <2>11. Boxed!Envelope(m) = Scale
    BY <1>9, <2>4, <2>9, <2>10
  <2>12. PICK k \in m .. n : Boxed!Found(k) = k
    BY <1>5, <2>9, <2>11
  <2>13. k \in 0 .. n /\ m <= k /\ k <= n
    BY <1>1, <2>9
  <2>14. all <= Boxed!Found(k) /\ Boxed!Found(k) <= all
    BY <1>6, <1>11, <2>2, <2>7, <2>9, <2>13
  <2> QED BY <2>12, <2>13, <2>14
<1>14. ASSUME all <= n, Boxed!Found(all) = all PROVE Boxed!AreaTo[n] = Scale * all
  <2>1. all \in 0 .. n /\ Boxed!Found(n) <= all
    BY <1>1, <1>14 DEF n
  <2>2. Boxed!Found(n) = all
    BY <1>6, <1>11, <1>14, <2>1
  <2> DEFINE T == {m \in Nat : m <= n /\ Loss(m) # 0}
  <2>3. T = {}
    <3> SUFFICES ASSUME T # {} PROVE FALSE
      OBVIOUS
    <3>1. T \in SUBSET Nat
      OBVIOUS
    <3>2. PICK m \in T : \A l \in T : m <= l
      <4> HIDE DEF T
      <4> QED BY <3>1, Least
    <3>3. m \in Nat /\ m <= n /\ Loss(m) # 0
      OBVIOUS
    <3>4. m # 0
      BY <1>8, <3>3
    <3>5. m \in 1 .. n /\ m - 1 \in Nat /\ m - 1 <= n /\ ~(m <= m - 1) /\ m - 1 \in 0 .. n /\ m \in 0 .. n
      BY <1>1, <3>3, <3>4
    <3>6. Loss(m - 1) = 0
      BY <3>2, <3>5
    <3>7. Boxed!Found(m) # Boxed!Found(m - 1) /\ Boxed!Envelope(m) # Scale
      BY <1>9, <3>3, <3>5, <3>6
    <3>8. CASE m <= all
      <4>1. all \in m .. n
        BY <1>14, <3>3, <3>8
      <4> QED BY <1>5, <1>14, <3>5, <3>7, <4>1
    <3>9. CASE all <= m - 1
      <4>1. all <= Boxed!Found(m - 1) /\ Boxed!Found(m) <= all
        BY <1>6, <1>11, <1>14, <2>1, <2>2, <3>3, <3>5, <3>9
      <4>2. Boxed!Found(m) = Boxed!Found(m - 1) + 1 /\ Boxed!Found(m - 1) \in Nat
        BY <1>1, <1>2, <3>5, <3>7
      <4> QED BY <4>1, <4>2
    <3> QED BY <3>3, <3>8, <3>9
  <2>4. Loss(n) = 0
    BY <1>1, <2>3
  <2>5. Scale * all \in Int
    BY <1>3
  <2> QED BY <1>11, <2>2, <2>4, <2>5
<1> QED BY <1>11, <1>12, <1>13, <1>14 DEF n

-----------------------------------------------------------------------------
\* No unmatched prediction of D is ranked ahead of a matched one.
Clean(M, D) ==
    \A m \in M, p \in D : Boxed!Ahead(p, m) => \E n \in M : n[1] = p[1] /\ n[2] = p[2]

FoundIn(s, j) == IF j = 0 THEN 0 ELSE s[j][1]

\* The walk so far: M of the predictions D, as the points s have it.
Walked(s, M, D) ==
    /\ Curve(s)
    /\ IsFiniteSet(M) /\ IsFiniteSet(D)
    /\ Len(s) = Cardinality(D) /\ FoundIn(s, Len(s)) = Cardinality(M)
    /\ Clean(M, D) <=> FoundIn(s, FoundIn(s, Len(s))) = FoundIn(s, Len(s))

\* As many are matched as there are when all are.
LEMMA AllMatched ==
  ASSUME NEW M, NEW D, IsFiniteSet(D), Within(M, D),
         \A q \in D : q = <<q[1], q[2]>>,
         \A m, n \in M : m[1] = n[1] /\ m[2] = n[2] => m = n
  PROVE  Cardinality(M) = Cardinality(D) <=> \A q \in D : \E m \in M : m[1] = q[1] /\ m[2] = q[2]
<1> DEFINE f == [m \in M |-> <<m[1], m[2]>>]
<1>1. f \in [M -> D]
  BY DEF Within
<1>2. \A m, n \in M : f[m] = f[n] => m = n
  OBVIOUS
<1>3. f \in Injection(M, D)
  BY <1>1, <1>2 DEF Injection, IsInjective
<1>4. Cardinality(M) = Cardinality(D) <=> f \in Surjection(M, D)
  <2> HIDE DEF f
  <2> QED BY <1>3, FS_Injection
<1>5. f \in Surjection(M, D) <=> \A q \in D : \E m \in M : f[m] = q
  <2> HIDE DEF f
  <2> QED BY <1>1 DEF Surjection
<1>6. \A q \in D : \A m \in M : f[m] = q <=> m[1] = q[1] /\ m[2] = q[2]
  <2> SUFFICES ASSUME NEW q \in D, NEW m \in M PROVE f[m] = q <=> m[1] = q[1] /\ m[2] = q[2]
    OBVIOUS
  <2>1. q = <<q[1], q[2]>> /\ f[m] = <<m[1], m[2]>>
    OBVIOUS
  <2> QED BY <2>1
<1> QED BY <1>4, <1>5, <1>6

\* There are no more pairs than annotated boxes.
LEMMA PairsFew ==
  ASSUME MatchTypes, NEW M, Fits(M),
         \A m, n \in M : m[1] = n[1] => (m[2] = n[2]) = (m[3] = n[3])
  PROVE  IsFiniteSet(M) /\ Cardinality(M) <= Boxed!Total(gts)
<1> DEFINE f == [m \in M |-> <<m[1], m[3]>>]
<1>1. \A m \in M : <<m[1], m[3]>> \in Boxed!Rows(gts)
  <2> SUFFICES ASSUME NEW m \in M PROVE <<m[1], m[3]>> \in Boxed!Rows(gts)
    OBVIOUS
  <2>1. <<m[1], m[2]>> \in Boxed!Rows(preds) /\ m[3] \in DOMAIN gts[m[1]]
    BY DEF Fits
  <2>2. m[1] \in Boxed!Frame
    BY <2>1, RowsAre
  <2> QED BY <2>1, <2>2, RowsAre
<1>2. f \in [M -> Boxed!Rows(gts)]
  BY <1>1
<1>3. \A m, n \in M : f[m] = f[n] => m = n
  <2> SUFFICES ASSUME NEW m \in M, NEW n \in M, f[m] = f[n] PROVE m = n
    OBVIOUS
  <2>1. m[1] = n[1] /\ m[3] = n[3]
    OBVIOUS
  <2>2. m[2] = n[2]
    BY <2>1
  <2>3. m = <<m[1], m[2], m[3]>> /\ n = <<n[1], n[2], n[3]>>
    BY DEF Fits
  <2> QED BY <2>1, <2>2, <2>3, Zenon
<1>4. f \in Injection(M, Boxed!Rows(gts))
  BY <1>2, <1>3 DEF Injection, IsInjective
<1>5. IsFiniteSet(M) /\ Cardinality(M) <= Cardinality(Boxed!Rows(gts))
  <2> HIDE DEF f
  <2> QED BY <1>4, FS_Injection DEF MatchTypes
<1>6. Boxed!Total(gts) = Cardinality(Boxed!Rows(gts))
  BY DEF Boxed!Total, Boxed!Cardinality, Cardinality
<1> QED BY <1>5, <1>6

\* One more prediction, behind those that were walked.
LEMMA WalkOn ==
  ASSUME MatchTypes, Curve(points), NEW M, NEW D \in SUBSET Boxed!Rows(preds), Walked(points, M, D),
         Within(M, D), \A m, n \in M : m[1] = n[1] /\ m[2] = n[2] => m = n,
         NEW p \in Boxed!Rows(preds) \ D, \A q \in D : Boxed!Ahead(q, p),
         NEW N, \A m \in N : m[1] = p[1] /\ m[2] = p[2], \A m, n \in N : m = n,
         NEW tp, tp = Boxed!Found(Len(points)) + (IF N = {} THEN 0 ELSE 1),
         NEW t, t = Append(points, <<tp, Len(points) + 1>>)
  PROVE  Walked(t, M \cup N, D \cup {p})
<1> DEFINE L == Len(points)
           c == Boxed!Found(L)
<1>1. L \in Nat /\ c \in Nat /\ c <= L /\ \A j \in 0 .. L : Boxed!Found(j) \in Nat /\ Boxed!Found(j) <= j
  <2>1. L \in Nat
    BY CurveSteps
  <2>2. L \in 0 .. L
    BY <2>1
  <2> QED BY <2>1, <2>2, CurveSteps
<1>2. tp \in Nat /\ tp <= L + 1 /\ (N = {} => tp = c) /\ (N # {} => tp = c + 1)
  <2>1. c + 0 = c /\ tp = c + (IF N = {} THEN 0 ELSE 1)
    BY <1>1
  <2> QED BY <1>1, <2>1
<1>3. points \in Seq(Nat \X Nat) /\ <<tp, L + 1>> \in Nat \X Nat
  BY <1>1, <1>2 DEF Curve
<1>4. t \in Seq(Nat \X Nat) /\ Len(t) = L + 1 /\ t[L + 1] = <<tp, L + 1>>
  BY <1>3
<1>5. \A j \in 1 .. L : t[j] = points[j]
  BY <1>3
<1> HIDE DEF L, c
<1>6. \A j \in 0 .. L : FoundIn(t, j) = Boxed!Found(j)
  <2> SUFFICES ASSUME NEW j \in 0 .. L PROVE FoundIn(t, j) = Boxed!Found(j)
    OBVIOUS
  <2>1. j = 0 \/ j \in 1 .. L
    BY <1>1
  <2> QED BY <1>5, <2>1 DEF FoundIn, Boxed!Found
<1>7. FoundIn(t, L + 1) = tp
  BY <1>1, <1>4 DEF FoundIn
<1>8. Curve(t)
  <2>1. ASSUME NEW j \in 1 .. L + 1
        PROVE  /\ t[j][2] = j /\ t[j][1] <= j
               /\ \/ t[j][1] = (IF j = 1 THEN 0 ELSE t[j - 1][1])
                  \/ t[j][1] = (IF j = 1 THEN 0 ELSE t[j - 1][1]) + 1
    <3> DEFINE was == IF j = 1 THEN 0 ELSE t[j - 1][1]
    <3>1. t[j][1] = FoundIn(t, j) /\ was = FoundIn(t, j - 1)
      <4>1. j \in Int /\ j # 0 /\ (j = 1 <=> j - 1 = 0)
        BY <1>1
      <4> QED BY <4>1 DEF FoundIn
    <3> SUFFICES /\ t[j][2] = j /\ FoundIn(t, j) <= j
                 /\ FoundIn(t, j) = FoundIn(t, j - 1) \/ FoundIn(t, j) = FoundIn(t, j - 1) + 1
      BY <3>1, Zenon
    <3> HIDE DEF was
    <3>2. CASE j = L + 1
      <4>1. FoundIn(t, j) = tp /\ j - 1 = L /\ FoundIn(t, j - 1) = c /\ t[j][2] = j
        BY <1>1, <1>4, <1>6, <1>7, <3>2 DEF c
      <4> QED BY <1>2, <3>2, <4>1
    <3>3. CASE j # L + 1
      <4>1. j \in 1 .. L /\ j \in 0 .. L /\ j - 1 \in 0 .. L
        BY <1>1, <3>3
      <4>2. FoundIn(t, j) = Boxed!Found(j) /\ FoundIn(t, j - 1) = Boxed!Found(j - 1) /\ t[j] = points[j]
        BY <1>5, <1>6, <4>1
      <4>3. /\ points[j] = <<Boxed!Found(j), j>> /\ Boxed!Found(j) <= j
            /\ Boxed!Found(j) = Boxed!Found(j - 1) \/ Boxed!Found(j) = Boxed!Found(j - 1) + 1
        BY <4>1, CurveSteps DEF L
      <4>4. t[j][2] = j
        <5>1. points[j][2] = j
          BY <4>1 DEF Curve, L
        <5> QED BY <4>2, <5>1, Zenon
      <4> QED BY <4>2, <4>3, <4>4
    <3> QED BY <3>2, <3>3
  <2> QED BY <1>4, <2>1 DEF Curve
<1>9. IsFiniteSet(M) /\ IsFiniteSet(D) /\ L = Cardinality(D) /\ c = Cardinality(M)
  BY DEF Walked, FoundIn, Boxed!Found, L, c
<1>10. Clean(M, D) <=> Boxed!Found(c) = c
  BY DEF Walked, FoundIn, Boxed!Found, L, c
<1>11. IsFiniteSet(D \cup {p}) /\ Cardinality(D \cup {p}) = L + 1
  BY <1>9, FS_AddElement
<1>12. \A q \in Boxed!Rows(preds) : q = <<q[1], q[2]>>
  BY PredictionIs
<1>13. \A m \in M : ~(m[1] = p[1] /\ m[2] = p[2])
  BY <1>12 DEF Within
<1>14. c \in 0 .. L
  BY <1>1
<1>15. CASE N = {}
  <2>1. M \cup N = M /\ tp = c
    BY <1>2, <1>15
  <2>2. \A m \in M : ~Boxed!Ahead(p, m)
    <3> SUFFICES ASSUME NEW m \in M PROVE ~Boxed!Ahead(p, m)
      OBVIOUS
    <3> DEFINE q == <<m[1], m[2]>>
    <3>1. q \in D
      BY DEF Within
    <3>2. ~Boxed!Ahead(p, q)
      <4> HIDE DEF q
      <4> QED BY <3>1, AheadOrder
    <3> QED BY <3>2, AheadOf
  <2>3. Clean(M, D \cup {p}) <=> Clean(M, D)
    BY <2>2 DEF Clean
  <2>4. FoundIn(t, c) = Boxed!Found(c)
    BY <1>6, <1>14
  <2> QED BY <1>4, <1>7, <1>8, <1>9, <1>10, <1>11, <2>1, <2>3, <2>4 DEF Walked
<1>16. CASE N # {}
  <2>0. PICK new \in N : TRUE
    BY <1>16
  <2>1. N = {new}
    BY <2>0
  <2>2. new[1] = p[1] /\ new[2] = p[2] /\ new \notin M
    BY <1>13, <2>1
  <2>3. IsFiniteSet(M \cup N) /\ Cardinality(M \cup N) = c + 1 /\ tp = c + 1
    BY <1>2, <1>9, <1>16, <2>1, <2>2, FS_AddElement
  <2>4. Cardinality(M) = Cardinality(D) <=> \A q \in D : \E m \in M : m[1] = q[1] /\ m[2] = q[2]
    BY <1>9, <1>12, AllMatched
  <2>5. Clean(M \cup N, D \cup {p}) <=> c = L
    <3>1. ASSUME c = L PROVE Clean(M \cup N, D \cup {p})
      BY <1>9, <2>1, <2>2, <2>4, <3>1 DEF Clean
    <3>2. ASSUME Clean(M \cup N, D \cup {p}) PROVE c = L
      <4> SUFFICES ASSUME NEW q \in D PROVE \E m \in M : m[1] = q[1] /\ m[2] = q[2]
        BY <1>9, <2>4
      <4>1. Boxed!Ahead(q, new)
        <5>1. new[1] = p[1] /\ new[2] = p[2] /\ Boxed!Ahead(q, p)
          BY <2>2
        <5> QED BY <5>1 DEF Boxed!Ahead, Boxed!Pred
      <4>2. PICK n \in M \cup N : n[1] = q[1] /\ n[2] = q[2]
        BY <2>1, <3>2, <4>1 DEF Clean
      <4>3. n # new
        <5>1. q = <<q[1], q[2]>> /\ p = <<p[1], p[2]>> /\ q # p
          BY <1>12
        <5> QED BY <2>2, <4>2, <5>1
      <4> QED BY <2>1, <4>2, <4>3
    <3> QED BY <3>1, <3>2
  <2>6. FoundIn(t, c + 1) = c + 1 <=> c = L
    <3>1. CASE c = L
      BY <1>7, <2>3, <3>1
    <3>2. CASE c # L
      <4>1. c + 1 \in 0 .. L /\ c + 1 <= L /\ L \in 0 .. L
        BY <1>1, <3>2
      <4>2. Boxed!Found(c + 1) <= c
        BY <4>1, FoundGrows DEF L, c
      <4>3. FoundIn(t, c + 1) = Boxed!Found(c + 1) /\ Boxed!Found(c + 1) \in Nat
        BY <1>1, <1>6, <4>1
      <4> QED BY <1>1, <3>2, <4>2, <4>3
    <3> QED BY <3>1, <3>2
  <2> QED BY <1>4, <1>7, <1>8, <1>9, <1>11, <2>3, <2>5, <2>6 DEF Walked
<1> QED BY <1>15, <1>16

\* At its end.
LEMMA WalkEnds ==
  ASSUME Boxed!MatchAssumption, MatchTypes, Walked(points, pairs, Boxed!Rows(preds)),
         Boxed!Total(gts) > 0, Cardinality(pairs) <= Boxed!Total(gts)
  PROVE  /\ Boxed!AreaTo[Len(points)] <= Scale * Cardinality(pairs)
         /\ (Boxed!AreaTo[Len(points)] = Scale * Boxed!Total(gts)) = Boxed!Perfect
<1> DEFINE all == Boxed!Total(gts)
           n == Len(points)
<1>1. all \in Nat \ {0} /\ Cardinality(pairs) \in Nat
  <2>1. all = Cardinality(Boxed!Rows(gts))
    BY DEF Boxed!Total, Boxed!Cardinality, Cardinality
  <2>2. Cardinality(Boxed!Rows(gts)) \in Nat
    BY FS_CardinalityType DEF MatchTypes
  <2>3. Cardinality(pairs) \in Nat
    BY FS_CardinalityType DEF Walked
  <2> QED BY <2>1, <2>2, <2>3
<1>2. Curve(points) /\ Boxed!Found(n) = Cardinality(pairs) /\ (Clean(pairs, Boxed!Rows(preds)) <=> Boxed!Found(Boxed!Found(n)) = Boxed!Found(n))
  BY DEF Walked, FoundIn, Boxed!Found
<1>3. Boxed!Perfect <=> Cardinality(pairs) = all /\ Clean(pairs, Boxed!Rows(preds))
  BY DEF Boxed!Perfect, Boxed!Cardinality, Cardinality, Clean
<1> HIDE DEF all
<1>4. /\ Boxed!AreaTo[n] <= Scale * Boxed!Found(n)
      /\ Boxed!AreaTo[n] = Scale * all <=> all <= n /\ Boxed!Found(all) = all
  <2>1. Boxed!Found(n) <= all
    BY <1>2 DEF all
  <2> QED BY <1>1, <1>2, <2>1, Full
<1>5. all <= n /\ Boxed!Found(all) = all <=> Boxed!Perfect
  <2>1. n \in Nat /\ n \in 0 .. n /\ \A j \in 0 .. n : Boxed!Found(j) \in Nat /\ Boxed!Found(j) <= j
    BY <1>2, CurveSteps
  <2>2. CASE Boxed!Found(n) = all
    <3>1. all <= n
      BY <2>1, <2>2
    <3> QED BY <1>2, <1>3, <2>2, <3>1
  <2>3. CASE Boxed!Found(n) # all
    <3>1. ~Boxed!Perfect
      BY <1>2, <1>3, <2>3
    <3>2. ASSUME all <= n, Boxed!Found(all) = all PROVE FALSE
      <4>1. all \in 0 .. n
        BY <1>1, <2>1, <3>2
      <4>2. all <= Boxed!Found(n)
        BY <1>1, <1>2, <2>1, <3>2, <4>1, FoundGrows
      <4>3. Boxed!Found(n) <= all
        BY <1>2 DEF all
      <4> QED BY <1>1, <1>2, <2>3, <4>2, <4>3
    <3> QED BY <3>1, <3>2
  <2> QED BY <2>2, <2>3
<1>6. Boxed!Perfect \in BOOLEAN
  BY DEF Boxed!Perfect
<1> QED BY <1>2, <1>4, <1>5, <1>6 DEF all

-----------------------------------------------------------------------------
CountInv ==
    /\ Fits(results) /\ Within(results, Boxed!Rows(preds) \ todo) /\ Greedy(results, Boxed!Rows(preds) \ todo)
    /\ \A p \in Boxed!Rows(preds) \ todo, q \in todo : p[1] = q[1] => Boxed!Ahead(p, q)

WalkInv ==
    /\ Boxed!Total(gts) > 0
    /\ \A p \in Boxed!Rows(preds) \ todo, q \in todo : Boxed!Ahead(p, q)
    /\ pairs = {m \in results : <<m[1], m[2]>> \in Boxed!Rows(preds) \ todo}
    /\ Walked(points, pairs, Boxed!Rows(preds) \ todo)

DoneInv ==
    /\ todo = {}
    /\ Boxed!Total(gts) > 0 =>
          /\ pairs = results
          /\ ap <= Scale * Cardinality(pairs)
          /\ (ap = Scale * Boxed!Total(gts)) = Boxed!Perfect

MatchInv ==
    /\ MatchTypes
    /\ stage \in {"annotations", "predictions"} => todo = {} /\ results = {}
    /\ stage \in {"annotations", "predictions", "counts"} => pairs = {} /\ points = <<>>
    /\ stage = "counts" => CountInv
    /\ stage \in {"walk", "done"} => Fits(results) /\ Greedy(results, Boxed!Rows(preds))
    /\ stage = "walk" => WalkInv
    /\ stage = "done" => DoneInv

LEMMA NoRows ==
  ASSUME NEW s, s = [f \in Boxed!Frame |-> <<>>]
  PROVE  /\ s \in [Boxed!Frame -> Seq(GtRow)] /\ s \in [Boxed!Frame -> Seq(PredRow)]
         /\ \A f \in Boxed!Frame : Keys(s[f])
         /\ Boxed!Rows(s) = {} /\ IsFiniteSet(Boxed!Rows(s))
<1>1. \A f \in Boxed!Frame : s[f] = <<>>
  OBVIOUS
<1>2. Boxed!Rows(s) = {}
  BY <1>1 DEF Boxed!Rows
<1>3. IsFiniteSet(Boxed!Rows(s))
  BY <1>2, FS_EmptySet
<1>4. <<>> \in Seq(GtRow) /\ <<>> \in Seq(PredRow)
  OBVIOUS
<1>5. \A f \in Boxed!Frame : Keys(s[f])
  BY <1>1 DEF Keys
<1> QED BY <1>2, <1>3, <1>4, <1>5

LEMMA NewRow ==
  ASSUME NEW s, NEW t, NEW f \in Boxed!Frame, NEW k, IsFiniteSet(Boxed!Rows(s)),
         \A g \in Boxed!Frame \ {f} : t[g] = s[g],
         DOMAIN t[f] = DOMAIN s[f] \cup {k}
  PROVE  IsFiniteSet(Boxed!Rows(t))
<1> DEFINE r == <<f, k>>
<1>1. Boxed!Rows(t) = Boxed!Rows(s) \cup {r}
  <2>1. ASSUME NEW x \in Boxed!Rows(t) PROVE x \in Boxed!Rows(s) \cup {r}
    <3>1. PICK g \in Boxed!Frame : \E i \in DOMAIN t[g] : x = <<g, i>>
      BY RowsAre
    <3>2. PICK i \in DOMAIN t[g] : x = <<g, i>>
      BY <3>1
    <3>3. CASE i \in DOMAIN s[g]
      BY <3>2, <3>3, RowsAre
    <3>4. CASE i \notin DOMAIN s[g]
      BY <3>2, <3>4
    <3> QED BY <3>3, <3>4
  <2>2. ASSUME NEW x \in Boxed!Rows(s) PROVE x \in Boxed!Rows(t)
    <3>1. PICK g \in Boxed!Frame : \E i \in DOMAIN s[g] : x = <<g, i>>
      BY RowsAre
    <3>2. PICK i \in DOMAIN s[g] : x = <<g, i>>
      BY <3>1
    <3>3. i \in DOMAIN t[g]
      OBVIOUS
    <3> QED BY <3>2, <3>3, RowsAre
  <2>3. r \in Boxed!Rows(t)
    BY RowsAre
  <2> QED BY <2>1, <2>2, <2>3
<1> HIDE DEF r
<1>2. IsFiniteSet(Boxed!Rows(s) \cup {r})
  BY FS_AddElement
<1> QED BY <1>1, <1>2

LEMMA MatchStart == ASSUME Boxed!Init PROVE MatchInv
<1>1. MatchTypes
  <2>1. gts = [f \in Boxed!Frame |-> <<>>] /\ preds = [f \in Boxed!Frame |-> <<>>] /\ todo = {} /\ stage = "annotations"
    BY DEF Boxed!Init
  <2> QED BY <2>1, NoRows DEF MatchTypes
<1> QED BY <1>1 DEF MatchInv, Boxed!Init

\* The loops of the counts.
LEMMA CountStep ==
  ASSUME Boxed!MatchAssumption, MatchTypes, CountInv, NEW p \in todo,
         \A q \in todo \ {p} : p[1] < q[1] \/ (p[1] = q[1] /\ Boxed!Ahead(p, q)),
         NEW R, R = results \cup Boxed!Match(p, results),
         NEW T, T = todo \ {p}
  PROVE  /\ Fits(R) /\ Within(R, Boxed!Rows(preds) \ T) /\ Greedy(R, Boxed!Rows(preds) \ T)
         /\ \A x \in Boxed!Rows(preds) \ T, q \in T : x[1] = q[1] => Boxed!Ahead(x, q)
<1> DEFINE D == Boxed!Rows(preds) \ todo
<1>1. D \in SUBSET Boxed!Rows(preds) /\ p \in Boxed!Rows(preds) \ D /\ Boxed!Rows(preds) \ T = D \cup {p}
  BY DEF MatchTypes
<1>2. Fits(results) /\ Within(results, D) /\ Greedy(results, D)
  BY DEF CountInv
<1>3. \A q \in D : q[1] = p[1] => Boxed!Ahead(q, p)
  BY DEF CountInv
<1> HIDE DEF D
<1>4. Fits(R) /\ Within(R, D \cup {p}) /\ Greedy(R, D \cup {p})
  BY <1>1, <1>2, <1>3, Takes
<1>5. ASSUME NEW x \in D \cup {p}, NEW q \in T, x[1] = q[1] PROVE Boxed!Ahead(x, q)
  <2>1. CASE x \in D
    BY <1>5, <2>1 DEF CountInv, D
  <2>2. CASE x = p
    <3>1. p[1] \in Int
      BY <1>1, PredictionIs
    <3> QED BY <1>5, <2>2, <3>1
  <2> QED BY <2>1, <2>2
<1> QED BY <1>1, <1>4, <1>5

\* The loop of the average precision.
LEMMA WalkStep ==
  ASSUME Boxed!MatchAssumption, MatchTypes, WalkInv, Fits(results), Greedy(results, Boxed!Rows(preds)),
         NEW p \in todo, Boxed!Walk(p)
  PROVE  /\ \A x \in Boxed!Rows(preds) \ todo', q \in todo' : Boxed!Ahead(x, q)
         /\ pairs' = {m \in results : <<m[1], m[2]>> \in Boxed!Rows(preds) \ todo'}
         /\ Walked(points', pairs', Boxed!Rows(preds) \ todo')
<1> DEFINE D == Boxed!Rows(preds) \ todo
           N == Boxed!Match(p, pairs)
           tp == Boxed!Found(Len(points)) + (IF N = {} THEN 0 ELSE 1)
<1>0. /\ todo' = todo \ {p} /\ pairs' = pairs \cup N /\ points' = Append(points, <<tp, Len(points) + 1>>)
      /\ \A q \in todo \ {p} : Boxed!Ahead(p, q)
  BY DEF Boxed!Walk
<1>1. D \in SUBSET Boxed!Rows(preds) /\ p \in Boxed!Rows(preds) \ D /\ Boxed!Rows(preds) \ todo' = D \cup {p}
      /\ (Boxed!Rows(preds) \ D) \ {p} = todo \ {p}
  BY <1>0 DEF MatchTypes
<1>2. \A q \in D : Boxed!Ahead(q, p)
  BY DEF WalkInv
<1>3. \A x \in D \cup {p}, q \in todo' : Boxed!Ahead(x, q)
  BY <1>0 DEF WalkInv
<1>4. pairs = {m \in results : <<m[1], m[2]>> \in D} /\ Walked(points, pairs, D)
  BY DEF WalkInv
<1> HIDE DEF D, tp
<1>5. N = Taken(p, results) /\ pairs' = {m \in results : <<m[1], m[2]>> \in D \cup {p}}
  <2>1. \A q \in (Boxed!Rows(preds) \ D) \ {p} : Boxed!Ahead(p, q)
    BY <1>0, <1>1
  <2>2. /\ N = Taken(p, results)
        /\ pairs \cup N = {m \in results : <<m[1], m[2]>> \in D \cup {p}}
    BY <1>1, <1>2, <1>4, <2>1, TakesAgain
  <2> QED BY <1>0, <2>2
<1>6. \A m, n \in results : m[1] = n[1] => (m[2] = n[2]) = (m[3] = n[3])
  BY GreedyOneToOne
<1>7. \A m, n \in results : m[1] = n[1] /\ m[2] = n[2] => m = n
  <2> SUFFICES ASSUME NEW m \in results, NEW n \in results, m[1] = n[1], m[2] = n[2] PROVE m = n
    OBVIOUS
  <2>1. m[3] = n[3]
    BY <1>6
  <2>2. m = <<m[1], m[2], m[3]>> /\ n = <<n[1], n[2], n[3]>>
    BY DEF Fits
  <2> QED BY <2>1, <2>2, Zenon
<1>8. pairs \subseteq results /\ Within(pairs, D)
  BY <1>4 DEF Within
<1>9. \A m \in N : m \in results /\ m[1] = p[1] /\ m[2] = p[2]
  BY <1>5 DEF Taken
<1>10. Curve(points)
  BY <1>4 DEF Walked
<1>11. tp = Boxed!Found(Len(points)) + (IF N = {} THEN 0 ELSE 1)
  BY DEF tp
<1> HIDE DEF N
<1>12. \A m, n \in pairs : m[1] = n[1] /\ m[2] = n[2] => m = n
  BY <1>7, <1>8
<1>13. \A m, n \in N : m = n
  BY <1>7, <1>9
<1>14. Walked(points', pairs \cup N, D \cup {p})
  BY <1>0, <1>1, <1>2, <1>4, <1>8, <1>9, <1>10, <1>11, <1>12, <1>13, WalkOn
<1> QED BY <1>0, <1>1, <1>3, <1>5, <1>14

\* A step that leaves the boxes alone leaves what is said of them alone.
LEMMA SameBoxes ==
  ASSUME gts' = gts, preds' = preds
  PROVE  /\ Boxed!Rows(preds)' = Boxed!Rows(preds) /\ Boxed!Total(gts)' = Boxed!Total(gts)
         /\ \A M : Fits(M)' <=> Fits(M)
         /\ \A M, D : Greedy(M, D)' <=> Greedy(M, D)
         /\ \A p, q : Boxed!Ahead(p, q)' <=> Boxed!Ahead(p, q)
         /\ \A s, M, D : Walked(s, M, D)' <=> Walked(s, M, D)
<1>1. Boxed!Rows(preds)' = Boxed!Rows(preds) /\ Boxed!Rows(gts)' = Boxed!Rows(gts)
  BY DEF Boxed!Rows
<1>2. \A p, q : Boxed!Ahead(p, q)' <=> Boxed!Ahead(p, q)
  BY DEF Boxed!Ahead, Boxed!Pred
<1>3. \A p, g, h : Boxed!Prefers(p, g, h)' <=> Boxed!Prefers(p, g, h)
  BY DEF Boxed!Prefers, Boxed!Pred
<1>4. \A p, M : Boxed!Match(p, M)' = Boxed!Match(p, M)
  BY <1>3 DEF Boxed!Match, Boxed!Best, Boxed!Free, Boxed!Pred
<1>5. \A p, M : Earlier(p, M)' = Earlier(p, M)
  BY <1>2 DEF Earlier
<1>6. \A M, D : Greedy(M, D)' <=> Greedy(M, D)
  BY <1>4, <1>5 DEF Greedy, Taken
<1>7. \A M : Fits(M)' <=> Fits(M)
  BY <1>1 DEF Fits
<1>8. \A s, M, D : Walked(s, M, D)' <=> Walked(s, M, D)
  BY <1>2 DEF Walked, Clean, Curve, FoundIn
<1> QED BY <1>1, <1>2, <1>6, <1>7, <1>8 DEF Boxed!Total

LEMMA MatchStep == ASSUME Boxed!MatchAssumption, MatchInv, [Boxed!Next]_(Boxed!vars) PROVE MatchInv'
<1> USE DEF MatchInv
<1>1. CASE UNCHANGED Boxed!vars
  <2>1. gts' = gts /\ preds' = preds /\ results' = results /\ todo' = todo /\ stage' = stage
        /\ pairs' = pairs /\ points' = points /\ ap' = ap
    BY <1>1 DEF Boxed!vars
  <2>2. /\ Boxed!Rows(preds)' = Boxed!Rows(preds) /\ Boxed!Total(gts)' = Boxed!Total(gts) /\ Boxed!Rows(gts)' = Boxed!Rows(gts)
        /\ \A M : Fits(M)' <=> Fits(M)
        /\ \A M, D : Greedy(M, D)' <=> Greedy(M, D)
        /\ \A x, q : Boxed!Ahead(x, q)' <=> Boxed!Ahead(x, q)
        /\ \A s, M, D : Walked(s, M, D)' <=> Walked(s, M, D)
    BY <2>1, SameBoxes DEF Boxed!Rows
  <2>3. MatchTypes'
    BY <2>1, <2>2 DEF MatchTypes
  <2>4. stage = "counts" => CountInv'
    BY <2>1, <2>2 DEF CountInv, Within
  <2>5. stage = "walk" => WalkInv'
    BY <2>1, <2>2 DEF WalkInv
  <2>6. stage = "done" => DoneInv'
    BY <2>1, <2>2 DEF DoneInv, Boxed!Perfect
  <2>7. stage \in {"walk", "done"} => Fits(results)' /\ Greedy(results, Boxed!Rows(preds))'
    BY <2>1, <2>2
  <2> QED BY <2>1, <2>3, <2>4, <2>5, <2>6, <2>7
<1>2. ASSUME NEW f \in Boxed!Frame, NEW box \in Boxed!Boxes, NEW key \in 1 .. MaxGts, Boxed!LoadGroundtruth(f, box, key)
      PROVE  MatchInv'
  <2>1. /\ stage = "annotations" /\ Boxed!NewKey(gts[f], key)
        /\ gts' = [gts EXCEPT ![f] = Append(@, [box |-> box, key |-> key])]
        /\ stage' = stage /\ preds' = preds /\ todo' = todo /\ results' = results
        /\ pairs' = pairs /\ points' = points
    BY <1>2 DEF Boxed!LoadGroundtruth
  <2>2. [box |-> box, key |-> key] \in GtRow /\ key \in Nat
    BY DEF GtRow, Boxed!MatchAssumption
  <2>3. gts \in [Boxed!Frame -> Seq(GtRow)] /\ IsFiniteSet(Boxed!Rows(gts))
    BY DEF MatchTypes
  <2>4. gts' \in [Boxed!Frame -> Seq(GtRow)] /\ IsFiniteSet(Boxed!Rows(gts'))
    <3> DEFINE e == [box |-> box, key |-> key]
    <3>1. e \in GtRow /\ gts' = [gts EXCEPT ![f] = Append(@, e)]
      BY <2>1, <2>2
    <3> HIDE DEF e
    <3>2. gts[f] \in Seq(GtRow) /\ gts'[f] = Append(gts[f], e)
      BY <2>3, <3>1
    <3>3. gts' \in [Boxed!Frame -> Seq(GtRow)]
      BY <2>3, <3>1, <3>2
    <3>4. /\ \A g \in Boxed!Frame \ {f} : gts'[g] = gts[g]
          /\ DOMAIN gts'[f] = DOMAIN gts[f] \cup {Len(gts[f]) + 1}
      BY <2>3, <3>1, <3>2
    <3>5. IsFiniteSet(Boxed!Rows(gts'))
      BY <2>3, <3>4, NewRow
    <3> QED BY <3>3, <3>5
  <2>5. Boxed!Rows(gts)' = Boxed!Rows(gts') /\ Boxed!Rows(preds)' = Boxed!Rows(preds)
    BY <2>1 DEF Boxed!Rows
  <2>6. ASSUME NEW g \in Boxed!Frame PROVE Keys(gts'[g])
    <3>1. Keys(gts[g]) /\ gts[f] \in Seq(GtRow) /\ Len(gts[f]) \in Nat
      BY <2>3 DEF MatchTypes
    <3>2. CASE g # f
      BY <2>1, <2>3, <3>1, <3>2
    <3>3. CASE g = f
      <4> DEFINE s == gts[f]  t == gts'[f]  n == Len(s)
      <4>1. t = Append(s, [box |-> box, key |-> key])
        BY <2>1, <2>3
      <4>2. DOMAIN t = 1 .. n + 1 /\ t[n + 1].key = key /\ \A i \in 1 .. n : t[i] = s[i]
        BY <2>2, <3>1, <4>1
      <4>3. \A i \in 1 .. n : s[i].key # key
        BY <2>1, <3>1 DEF Boxed!NewKey
      <4>4. \A i, j \in 1 .. n : i # j => s[i].key # s[j].key
        BY <3>1, <3>3 DEF Keys
      <4>5. \A i \in 1 .. n + 1 : i = n + 1 \/ i \in 1 .. n
        BY <3>1
      <4> HIDE DEF s, t, n
      <4>6. Keys(t)
        BY <4>2, <4>3, <4>4, <4>5 DEF Keys
      <4> QED BY <3>3, <4>6 DEF t
    <3> QED BY <3>2, <3>3
  <2>7. MatchTypes'
    BY <2>1, <2>4, <2>5, <2>6 DEF MatchTypes
  <2> QED BY <2>1, <2>7
<1>3. ASSUME NEW f \in Boxed!Frame, NEW box \in Boxed!Boxes, NEW conf \in Boxed!NoConf .. MaxConf,
             NEW key \in 1 .. MaxPreds, Boxed!LoadPrediction(f, box, conf, key)
      PROVE  MatchInv'
  <2>1. /\ stage = "predictions"
        /\ preds' = [preds EXCEPT ![f] = Append(@, [box |-> box, conf |-> conf, key |-> key])]
        /\ stage' = stage /\ gts' = gts /\ todo' = todo /\ results' = results
        /\ pairs' = pairs /\ points' = points
    BY <1>3 DEF Boxed!LoadPrediction
  <2>2. [box |-> box, conf |-> conf, key |-> key] \in PredRow
    <3>1. conf \in Int /\ key \in Nat
      BY DEF Boxed!MatchAssumption, Boxed!NoConf
    <3> QED BY <3>1 DEF PredRow
  <2>3. preds \in [Boxed!Frame -> Seq(PredRow)] /\ IsFiniteSet(Boxed!Rows(preds))
    BY DEF MatchTypes
  <2>4. preds' \in [Boxed!Frame -> Seq(PredRow)] /\ IsFiniteSet(Boxed!Rows(preds'))
    <3> DEFINE e == [box |-> box, conf |-> conf, key |-> key]
    <3>1. e \in PredRow /\ preds' = [preds EXCEPT ![f] = Append(@, e)]
      BY <2>1, <2>2
    <3> HIDE DEF e
    <3>2. preds[f] \in Seq(PredRow) /\ preds'[f] = Append(preds[f], e)
      BY <2>3, <3>1
    <3>3. preds' \in [Boxed!Frame -> Seq(PredRow)]
      BY <2>3, <3>1, <3>2
    <3>4. /\ \A g \in Boxed!Frame \ {f} : preds'[g] = preds[g]
          /\ DOMAIN preds'[f] = DOMAIN preds[f] \cup {Len(preds[f]) + 1}
      BY <2>3, <3>1, <3>2
    <3>5. IsFiniteSet(Boxed!Rows(preds'))
      BY <2>3, <3>4, NewRow, ZenonT(30)
    <3> QED BY <3>3, <3>5
  <2>5. Boxed!Rows(preds)' = Boxed!Rows(preds') /\ Boxed!Rows(gts)' = Boxed!Rows(gts)
    BY <2>1 DEF Boxed!Rows
  <2>6. MatchTypes'
    BY <2>1, <2>4, <2>5 DEF MatchTypes
  <2> QED BY <2>1, <2>6
<1>4. CASE Boxed!EndGroundtruth
  BY <1>4, SameBoxes DEF Boxed!EndGroundtruth, MatchTypes, Boxed!Rows
<1>5. CASE Boxed!Count
  <2>1. /\ stage = "predictions" /\ stage' = "counts" /\ todo' = Boxed!Rows(preds)
        /\ gts' = gts /\ preds' = preds /\ results' = results /\ pairs' = pairs /\ points' = points
    BY <1>5 DEF Boxed!Count
  <2>2. Boxed!Rows(preds)' = Boxed!Rows(preds) /\ Boxed!Rows(gts)' = Boxed!Rows(gts)
    BY <2>1 DEF Boxed!Rows
  <2>3. MatchTypes'
    BY <2>1, <2>2 DEF MatchTypes
  <2>4. CountInv'
    BY <2>1, <2>2 DEF CountInv, Fits, Within, Greedy
  <2> QED BY <2>1, <2>3, <2>4
<1>6. ASSUME NEW p \in todo, Boxed!MatchFrame(p) PROVE MatchInv'
  <2>1. /\ stage = "counts" /\ stage' = "counts" /\ todo' = todo \ {p}
        /\ results' = results \cup Boxed!Match(p, results)
        /\ \A q \in todo \ {p} : p[1] < q[1] \/ (p[1] = q[1] /\ Boxed!Ahead(p, q))
        /\ gts' = gts /\ preds' = preds /\ pairs' = pairs /\ points' = points
    BY <1>6 DEF Boxed!MatchFrame
  <2>2. Boxed!Rows(preds)' = Boxed!Rows(preds) /\ Boxed!Rows(gts)' = Boxed!Rows(gts)
    BY <2>1 DEF Boxed!Rows
  <2>3. MatchTypes'
    BY <2>1, <2>2 DEF MatchTypes
  <2>4. /\ Fits(results') /\ Within(results', Boxed!Rows(preds) \ todo') /\ Greedy(results', Boxed!Rows(preds) \ todo')
        /\ \A x \in Boxed!Rows(preds) \ todo', q \in todo' : x[1] = q[1] => Boxed!Ahead(x, q)
    BY <2>1, CountStep
  <2>5. /\ \A M : Fits(M)' <=> Fits(M)
        /\ \A M, D : Greedy(M, D)' <=> Greedy(M, D)
        /\ \A x, q : Boxed!Ahead(x, q)' <=> Boxed!Ahead(x, q)
    BY <2>1, SameBoxes
  <2>6. CountInv'
    BY <2>2, <2>4, <2>5 DEF CountInv, Within
  <2> QED BY <2>1, <2>3, <2>6
<1>7. CASE Boxed!Rank
  <2>1. /\ stage = "counts" /\ todo = {}
        /\ gts' = gts /\ preds' = preds /\ results' = results /\ pairs' = pairs /\ points' = points
        /\ ap' = ap
        /\ \/ Boxed!Total(gts) = 0 /\ stage' = "done" /\ todo' = {}
           \/ Boxed!Total(gts) # 0 /\ stage' = "walk" /\ todo' = Boxed!Rows(preds)
    BY <1>7 DEF Boxed!Rank
  <2>2. /\ Boxed!Rows(preds)' = Boxed!Rows(preds) /\ Boxed!Total(gts)' = Boxed!Total(gts) /\ Boxed!Rows(gts)' = Boxed!Rows(gts)
        /\ \A M : Fits(M)' <=> Fits(M)
        /\ \A M, D : Greedy(M, D)' <=> Greedy(M, D)
    BY <2>1, SameBoxes DEF Boxed!Rows
  <2>3. MatchTypes'
    BY <2>1, <2>2 DEF MatchTypes
  <2>4. Boxed!Rows(preds) \ todo = Boxed!Rows(preds)
    BY <2>1
  <2>5. Fits(results)' /\ Greedy(results, Boxed!Rows(preds))'
    <3>1. Fits(results) /\ Greedy(results, Boxed!Rows(preds))
      BY <2>1, <2>4 DEF CountInv
    <3> QED BY <2>1, <2>2, <3>1
  <2>6. CASE Boxed!Total(gts) = 0
    <3>1. DoneInv'
      BY <2>1, <2>2, <2>6 DEF DoneInv
    <3> QED BY <2>1, <2>3, <2>5, <2>6, <3>1
  <2>7. CASE Boxed!Total(gts) # 0
    <3>1. Boxed!Total(gts) > 0
      <4>1. Boxed!Total(gts) = Cardinality(Boxed!Rows(gts))
        BY DEF Boxed!Total, Boxed!Cardinality, Cardinality
      <4>2. Cardinality(Boxed!Rows(gts)) \in Nat
        BY FS_CardinalityType DEF MatchTypes
      <4> QED BY <2>7, <4>1, <4>2
    <3>2. todo' = Boxed!Rows(preds) /\ stage' = "walk" /\ Boxed!Rows(preds) \ todo' = {}
      BY <2>1, <2>7
    <3>3. Walked(points, {}, {})
      <4>1. points = <<>> /\ Len(points) = 0 /\ points \in Seq(Nat \X Nat)
        BY <2>1
      <4>2. Curve(points)
        BY <4>1 DEF Curve
      <4>3. FoundIn(points, 0) = 0 /\ Clean({}, {}) /\ IsFiniteSet({}) /\ Cardinality({}) = 0
        BY FS_EmptySet DEF FoundIn, Clean
      <4> QED BY <4>1, <4>2, <4>3 DEF Walked
    <3>4. Walked(points, {}, {})'
      <4>1. \A s, M, D : Walked(s, M, D)' <=> Walked(s, M, D)
        BY <2>1, SameBoxes
      <4> QED BY <2>1, <3>3, <4>1
    <3>5. pairs' = {} /\ Boxed!Rows(preds)' \ todo' = {}
          /\ {m \in results' : <<m[1], m[2]>> \in {}} = {}
      BY <2>1, <2>2, <3>2
    <3>6. WalkInv'
      BY <2>2, <3>1, <3>4, <3>5 DEF WalkInv
    <3> QED BY <2>1, <2>3, <2>5, <3>2, <3>6
  <2> QED BY <2>6, <2>7
<1>8. ASSUME NEW p \in todo, Boxed!Walk(p) PROVE MatchInv'
  <2>1. /\ stage = "walk" /\ stage' = "walk" /\ todo' = todo \ {p}
        /\ gts' = gts /\ preds' = preds /\ results' = results
    BY <1>8 DEF Boxed!Walk
  <2>2. /\ Boxed!Rows(preds)' = Boxed!Rows(preds) /\ Boxed!Total(gts)' = Boxed!Total(gts) /\ Boxed!Rows(gts)' = Boxed!Rows(gts)
        /\ \A M : Fits(M)' <=> Fits(M)
        /\ \A M, D : Greedy(M, D)' <=> Greedy(M, D)
        /\ \A x, q : Boxed!Ahead(x, q)' <=> Boxed!Ahead(x, q)
        /\ \A s, M, D : Walked(s, M, D)' <=> Walked(s, M, D)
    BY <2>1, SameBoxes DEF Boxed!Rows
  <2>3. MatchTypes'
    BY <2>1, <2>2 DEF MatchTypes
  <2>4. WalkInv /\ Fits(results) /\ Greedy(results, Boxed!Rows(preds))
    BY <2>1
  <2>5. /\ \A x \in Boxed!Rows(preds) \ todo', q \in todo' : Boxed!Ahead(x, q)
        /\ pairs' = {m \in results : <<m[1], m[2]>> \in Boxed!Rows(preds) \ todo'}
        /\ Walked(points', pairs', Boxed!Rows(preds) \ todo')
    BY <1>8, <2>4, WalkStep
  <2>6. Boxed!Total(gts) > 0
    BY <2>4 DEF WalkInv
  <2>7. WalkInv'
    BY <2>1, <2>2, <2>5, <2>6 DEF WalkInv
  <2> QED BY <2>1, <2>2, <2>3, <2>4, <2>7
<1>9. CASE Boxed!Integrate
  <2>1. /\ stage = "walk" /\ todo = {} /\ stage' = "done" /\ ap' = Boxed!AreaTo[Len(points)]
        /\ gts' = gts /\ preds' = preds /\ todo' = {} /\ results' = results /\ pairs' = pairs
    BY <1>9 DEF Boxed!Integrate
  <2>2. /\ Boxed!Rows(preds)' = Boxed!Rows(preds) /\ Boxed!Total(gts)' = Boxed!Total(gts) /\ Boxed!Rows(gts)' = Boxed!Rows(gts)
        /\ \A M : Fits(M)' <=> Fits(M)
        /\ \A M, D : Greedy(M, D)' <=> Greedy(M, D)
        /\ \A x, q : Boxed!Ahead(x, q)' <=> Boxed!Ahead(x, q)
    BY <2>1, SameBoxes DEF Boxed!Rows
  <2>3. MatchTypes'
    BY <2>1, <2>2 DEF MatchTypes
  <2>4. WalkInv /\ Fits(results) /\ Greedy(results, Boxed!Rows(preds)) /\ Boxed!Rows(preds) \ todo = Boxed!Rows(preds)
    BY <2>1
  <2>5. pairs = results /\ Walked(points, pairs, Boxed!Rows(preds)) /\ Boxed!Total(gts) > 0
    BY <2>4 DEF WalkInv, Fits
  <2>6. Cardinality(pairs) <= Boxed!Total(gts)
    <3>1. \A m, n \in results : m[1] = n[1] => (m[2] = n[2]) = (m[3] = n[3])
      BY <2>4, GreedyOneToOne
    <3> QED BY <2>4, <2>5, <3>1, PairsFew
  <2>7. /\ Boxed!AreaTo[Len(points)] <= Scale * Cardinality(pairs)
        /\ (Boxed!AreaTo[Len(points)] = Scale * Boxed!Total(gts)) = Boxed!Perfect
    BY <2>5, <2>6, WalkEnds
  <2>8. Boxed!Perfect' <=> Boxed!Perfect
    BY <2>1, <2>2 DEF Boxed!Perfect
  <2>9. DoneInv'
    BY <2>1, <2>2, <2>5, <2>7, <2>8 DEF DoneInv
  <2> QED BY <2>1, <2>2, <2>3, <2>4, <2>9
<1>10. CASE Boxed!NextSet
  <2>1. /\ stage' = "annotations" /\ todo' = todo /\ results' = {} /\ pairs' = {} /\ points' = <<>>
        /\ gts' = [f \in Boxed!Frame |-> <<>>] /\ preds' = [f \in Boxed!Frame |-> <<>>] /\ todo = {}
    BY <1>10 DEF Boxed!NextSet, DoneInv
  <2>2. Boxed!Rows(gts)' = Boxed!Rows(gts') /\ Boxed!Rows(preds)' = Boxed!Rows(preds')
    BY DEF Boxed!Rows
  <2>3. MatchTypes'
    BY <2>1, <2>2, NoRows DEF MatchTypes
  <2> QED BY <2>1, <2>3
<1> QED BY <1>1, <1>2, <1>3, <1>4, <1>5, <1>6, <1>7, <1>8, <1>9, <1>10 DEF Boxed!Next

LEMMA MatchCorrect == ASSUME Boxed!MatchAssumption PROVE Boxed!Spec => []MatchInv
<1>1. Boxed!Init => MatchInv
  BY MatchStart
<1>2. MatchInv /\ [Boxed!Next]_(Boxed!vars) => MatchInv'
  BY MatchStep
<1> QED BY <1>1, <1>2, PTL DEF Boxed!Spec

LEMMA MatchSame == ASSUME Boxed!MatchAssumption, MatchInv PROVE Boxed!SameMatching
<1> SUFFICES ASSUME stage = "done"
             PROVE  /\ \A p \in Boxed!Rows(preds) : Boxed!Stable(p)
                    /\ \A m, n \in results : m[1] = n[1] => (m[2] = n[2]) = (m[3] = n[3])
                    /\ Boxed!Total(gts) > 0 =>
                          /\ pairs = results
                          /\ ap <= Scale * Cardinality(pairs)
                          /\ (ap = Scale * Boxed!Total(gts)) = Boxed!Perfect
  BY DEF Boxed!SameMatching, Boxed!Cardinality, Cardinality
<1>1. MatchTypes /\ Fits(results) /\ Greedy(results, Boxed!Rows(preds)) /\ DoneInv
  BY DEF MatchInv
<1>2. \A p \in Boxed!Rows(preds) : Boxed!Stable(p)
  BY <1>1, GreedyStable
<1>3. \A m, n \in results : m[1] = n[1] => (m[2] = n[2]) = (m[3] = n[3])
  BY <1>1, GreedyOneToOne
<1> QED BY <1>1, <1>2, <1>3 DEF DoneInv

\* For every test set, whatever its frames, boxes and confidences: the loop of
\* the counts (match_frame) and the walk over all frames (average_precision)
\* make one and the same matching; it is one to one and gives no box to a
\* prediction while a better one would rather have it; and the average
\* precision is full exactly when every person is found with no false box above.
THEOREM MatchingsAgree == Spec => []SameMatching
<1>1. Boxed!Spec => []MatchInv
  BY PartsAssumption, MatchCorrect
<1>2. MatchInv => SameMatching
  BY PartsAssumption, MatchSame DEF SameMatching
<1> QED BY <1>1, <1>2, BoxedPart, PTL
=============================================================================
