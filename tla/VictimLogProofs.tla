--------------------------- MODULE VictimLogProofs ---------------------------
(***************************************************************************)
(* Victim marks, for any dashboards and any bounds: MarksKept and          *)
(* ListRight.                                                              *)
(*                                                                         *)
(* LogInv says why no mark is lost: the file's marks are those made and    *)
(* neither deleted nor archived, each once, but for the ones a cut write   *)
(* has touched.  PageInv says why a list is right: whatever a dashboard    *)
(* has still to apply - a message, a loaded list, an answer that nothing   *)
(* overtook - agrees with the file on every mark it is about, where of two *)
(* messages about a mark the later one counts.                             *)
(***************************************************************************)
EXTENDS VictimLog, SequenceTheorems, FiniteSetTheorems, FunctionTheorems, TLAPS

Mark == Nat \ {0}
FileLine == [mark : Nat, ended : BOOLEAN]

MarksOn(f) == {f[i].mark : i \in DOMAIN f} \ {0}

\* No mark is on two lines.
Once(f) == \A i, j \in DOMAIN f : i # j /\ f[i].mark # 0 => f[i].mark # f[j].mark

LogInv ==
    /\ made \in Nat
    /\ file \in Seq(FileLine) /\ Once(file) /\ MarksOn(file) \subseteq 1 .. made
    /\ archived \subseteq 1 .. made /\ deleted \subseteq 1 .. made
    /\ archived \cap MarksOn(file) = {}
    /\ deleted \cap (MarksOn(file) \cup archived) = {}
    /\ 1 .. made \ (deleted \cup apart) \subseteq MarksOn(file) \cup archived

Kind == {"mark", "delete", "reset"}
Told == {msg \in [kind : Kind, mark : Nat] : msg.kind = "mark" => msg.mark # 0}
AskSet == [dash : Dash, kind : Kind, mark : Nat, done : BOOLEAN, late : BOOLEAN]
FetchSet == [stage : {"none", "sent", "answered"}, marks : Seq(Mark), late : BOOLEAN]

\* A message, or a request, is about mark m.
About(x, m) == x.kind = "reset" \/ x.mark = m

Distinct(s) == \A i, j \in DOMAIN s : i # j => s[i] # s[j]

\* The file has the marks `on`, and `sure` are the marks no cut write has
\* touched: what an answer, a socket, a load of the list, and the list of a
\* dashboard say of these marks.
AskOK(a, on, sure, del) ==
    /\ a \in AskSet
    /\ a.done /\ a.kind = "mark" => a.mark # 0
    /\ a.done /\ a.kind = "delete" => a.mark \in del
    /\ a.done /\ ~a.late => \A m \in sure : About(a, m) => (a.kind = "mark" <=> m \in on)

WireOK(w, on, sure) ==
    \A m \in sure, i \in DOMAIN w :
        About(w[i], m) /\ (\A j \in DOMAIN w : j > i => ~About(w[j], m))
            => (w[i].kind = "mark" <=> m \in on)

FetchOK(r, on, sure) ==
    /\ Distinct(r.marks)
    /\ r.stage = "answered" /\ ~r.late => \A m \in sure : m \in ToSet(r.marks) <=> m \in on

ListOK(l, w, on, sure) ==
    \A m \in sure :
        (\A i \in DOMAIN w : ~About(w[i], m)) => (m \in ToSet(l) <=> m \in on)

DashOK(l, r, w, linked, load, on, sure) ==
    /\ WireOK(w, on, sure) /\ FetchOK(r, on, sure)
    /\ Distinct(l)
    /\ ~linked => load = "no" /\ w = <<>>
    /\ load = "sound" => ListOK(l, w, on, sure)

PageOK(l, r, w, linked, load, as, on, sure, del) ==
    /\ l \in [Dash -> Seq(Mark)] /\ r \in [Dash -> FetchSet]
    /\ w \in [Dash -> Seq(Told)] /\ linked \in [Dash -> BOOLEAN]
    /\ load \in [Dash -> {"no", "overtaken", "sound"}]
    /\ \A a \in as : AskOK(a, on, sure, del)
    /\ \A d \in Dash : DashOK(l[d], r[d], w[d], linked[d], load[d], on, sure)

Sure == Mark \ apart

\* What Answer makes of the other requests, of the one done, and of a load.
Behind(a, b) == [b EXCEPT !.late = @ \/ Overtakes(a, b)]
DoneOf(a, m) == [a EXCEPT !.mark = m, !.done = TRUE]
Passed(r) == [r EXCEPT !.late = @ \/ r.stage = "answered"]

\* Nothing changed but dashboard d's own.
Only(d) ==
    /\ list' \in [Dash -> Seq(Mark)] /\ fetch' \in [Dash -> FetchSet]
    /\ wire' \in [Dash -> Seq(Told)] /\ link' \in [Dash -> BOOLEAN]
    /\ loaded' \in [Dash -> {"no", "overtaken", "sound"}]
    /\ \A e \in Dash \ {d} :
           /\ list'[e] = list[e] /\ fetch'[e] = fetch[e] /\ wire'[e] = wire[e]
           /\ link'[e] = link[e] /\ loaded'[e] = loaded[e]
    /\ UNCHANGED fileVars

PageInv == PageOK(list, fetch, wire, link, loaded, asks, MarksOn(file), Sure, deleted)


-----------------------------------------------------------------------------
(***************************************************************************)
(* What the filter of a sequence keeps.                                    *)
(***************************************************************************)
\* The places kept are numbered one by one.
LEMMA AtIs ==
  ASSUME NEW S, NEW f \in Seq(S), NEW p \in SUBSET (DOMAIN f)
  PROVE  /\ At(f, p) \in Seq(S)
         /\ \E g \in [DOMAIN At(f, p) -> p] :
               /\ \A n \in DOMAIN At(f, p) : At(f, p)[n] = f[g[n]]
               /\ \A i, j \in DOMAIN At(f, p) : i # j => g[i] # g[j]
               /\ \A i \in p : \E n \in DOMAIN At(f, p) : g[n] = i
<1> DEFINE upto(i) == {j \in p : j <= i}
           k == Cardinality(p)
           r == [i \in p |-> Cardinality(upto(i))]
<1>1. p \subseteq 1 .. Len(f) /\ Len(f) \in Nat /\ \A i \in p : i \in Nat /\ f[i] \in S
  BY LenProperties, ElementOfSeq
<1>2. IsFiniteSet(p) /\ k \in Nat
  <2>1. IsFiniteSet(1 .. Len(f))
    BY <1>1, FS_Interval
  <2> QED BY <1>1, <2>1, FS_Subset, FS_CardinalityType
<1>3. ASSUME NEW i \in p
      PROVE  IsFiniteSet(upto(i)) /\ r[i] \in 1 .. k
  <2>1. upto(i) \in SUBSET p /\ i \in upto(i)
    BY <1>1
  <2>2. IsFiniteSet(upto(i)) /\ Cardinality(upto(i)) <= k /\ Cardinality(upto(i)) \in Nat
    BY <1>2, <2>1, FS_Subset, FS_CardinalityType
  <2>3. Cardinality(upto(i)) # 0
    BY <2>1, <2>2, FS_EmptySet
  <2> QED BY <1>2, <2>2, <2>3
<1>4. ASSUME NEW i \in p, NEW j \in p, i < j PROVE r[i] # r[j]
  <2>1. upto(i) \in SUBSET upto(j) /\ j \in upto(j) /\ j \notin upto(i)
    BY <1>1, <1>4
  <2>2. IsFiniteSet(upto(j))
    BY <1>3
  <2> HIDE DEF upto
  <2>3. Cardinality(upto(i)) # Cardinality(upto(j))
    BY <2>1, <2>2, FS_Subset
  <2> QED BY <2>3
<1>5. ASSUME NEW i \in p, NEW j \in p, r[i] = r[j] PROVE i = j
  <2>1. i \in Nat /\ j \in Nat
    BY <1>1
  <2>2. ~(i < j) /\ ~(j < i)
    <3> HIDE DEF r
    <3> QED BY <1>4, <1>5
  <2> QED BY <2>1, <2>2
<1>6. r \in [p -> 1 .. k] /\ IsFiniteSet(1 .. k) /\ Cardinality(1 .. k) = k
  <2>1. \A i \in p : r[i] \in 1 .. k
    BY <1>3
  <2>2. r = [i \in p |-> r[i]]
    OBVIOUS
  <2>3. IsFiniteSet(1 .. k) /\ Cardinality(1 .. k) = k
    <3> HIDE DEF k
    <3> QED BY <1>2, FS_Interval
  <2> HIDE DEF r
  <2> QED BY <2>1, <2>2, <2>3
<1> DEFINE q == [n \in 1 .. k |-> CHOOSE i \in p : Cardinality({j \in p : j <= i}) = n]
           a == At(f, p)
<1>7. a = [n \in 1 .. k |-> f[q[n]]]
  BY DEF At
<1>8. \A i \in p : r[i] = Cardinality({j \in p : j <= i})
  OBVIOUS
<1> HIDE DEF r
<1>9. r \in Surjection(p, 1 .. k)
  <2>1. r \in Injection(p, 1 .. k)
    BY <1>5, <1>6 DEF Injection, IsInjective
  <2>2. Cardinality(p) = Cardinality(1 .. k)
    BY <1>6
  <2> QED BY <2>1, <2>2, <1>6, FS_Injection
<1>10. \A n \in 1 .. k : q[n] \in p /\ r[q[n]] = n
  <2> SUFFICES ASSUME NEW n \in 1 .. k PROVE q[n] \in p /\ r[q[n]] = n
    OBVIOUS
  <2>1. \E i \in p : r[i] = n
    BY <1>9 DEF Surjection
  <2>2. \E i \in p : Cardinality({j \in p : j <= i}) = n
    BY <1>8, <2>1
  <2>3. q[n] = CHOOSE i \in p : Cardinality({j \in p : j <= i}) = n
    OBVIOUS
  <2> HIDE DEF q
  <2>4. q[n] \in p /\ Cardinality({j \in p : j <= q[n]}) = n
    BY <2>2, <2>3
  <2> QED BY <2>4, <1>8
<1>11. q \in [1 .. k -> p]
  <2>1. \A n \in 1 .. k : q[n] \in p
    BY <1>10
  <2> QED BY <2>1
<1> HIDE DEF q, a
<1>12. a \in Seq(S) /\ DOMAIN a = 1 .. k
  <2>1. \A n \in 1 .. k : f[q[n]] \in S
    BY <1>1, <1>10
  <2>2. a \in [1 .. k -> S]
    BY <1>7, <2>1
  <2> QED BY <1>2, <2>2
<1>13. /\ \A n \in DOMAIN a : a[n] = f[q[n]]
       /\ \A i, j \in DOMAIN a : i # j => q[i] # q[j]
       /\ \A i \in p : \E n \in DOMAIN a : q[n] = i
  <2>1. \A i, j \in 1 .. k : i # j => q[i] # q[j]
    BY <1>10
  <2>2. \A i \in p : r[i] \in 1 .. k /\ q[r[i]] = i
    BY <1>5, <1>6, <1>10
  <2> QED BY <1>7, <1>12, <2>1, <2>2
<1> QED BY <1>11, <1>12, <1>13 DEF a

LEMMA DomainIs ==
  ASSUME NEW S, NEW f \in Seq(S)
  PROVE  /\ DOMAIN f = 1 .. Len(f) /\ Len(f) \in Nat
         /\ \A i \in DOMAIN f : f[i] \in S
  BY LenProperties, ElementOfSeq

\* What list() reads: the file's marks, each as often as the file has it.
LEMMA ReadableIs ==
  ASSUME NEW f \in Seq(FileLine)
  PROVE  /\ Readable(f) \in Seq(Mark)
         /\ ToSet(Readable(f)) = MarksOn(f)
         /\ Once(f) => Distinct(Readable(f))
<1> DEFINE p == {i \in DOMAIN f : f[i].mark # 0}
           w == At(f, p)
           l == Readable(f)
<1>0. p \in SUBSET (DOMAIN f) /\ \A i \in DOMAIN f : i \in p <=> f[i].mark # 0
  OBVIOUS
<1> HIDE DEF p
<1>1. w \in Seq(FileLine)
  BY <1>0, AtIs
<1>2. PICK g \in [DOMAIN w -> p] :
               /\ \A n \in DOMAIN w : w[n] = f[g[n]]
               /\ \A i, j \in DOMAIN w : i # j => g[i] # g[j]
               /\ \A i \in p : \E n \in DOMAIN w : g[n] = i
  BY <1>0, AtIs
<1>3. l = [n \in DOMAIN w |-> w[n].mark]
  BY DEF Readable, p
<1> HIDE DEF l
<1>4. \A n \in DOMAIN w : g[n] \in DOMAIN f /\ l[n] = f[g[n]].mark /\ l[n] \in Mark
  <2> SUFFICES ASSUME NEW n \in DOMAIN w
               PROVE  g[n] \in DOMAIN f /\ l[n] = f[g[n]].mark /\ l[n] \in Mark
    OBVIOUS
  <2>1. g[n] \in p
    BY <1>2
  <2>2. l[n] = w[n].mark /\ w[n] = f[g[n]]
    BY <1>2, <1>3
  <2>3. g[n] \in DOMAIN f /\ f[g[n]].mark # 0
    BY <1>0, <2>1
  <2>4. f[g[n]] \in FileLine
    BY <2>3, DomainIs
  <2> QED BY <2>2, <2>3, <2>4 DEF Mark, FileLine
<1> HIDE DEF w
<1>5. DOMAIN w = 1 .. Len(w) /\ Len(w) \in Nat
  BY <1>1, DomainIs
<1>6. l \in Seq(Mark) /\ DOMAIN l = DOMAIN w
  <2>1. l \in [1 .. Len(w) -> Mark]
    BY <1>3, <1>4, <1>5
  <2> QED BY <2>1, <1>5
<1>7. ToSet(l) = MarksOn(f)
  <2>1. ASSUME NEW m \in ToSet(l) PROVE m \in MarksOn(f)
    <3>1. PICK n \in DOMAIN l : m = l[n]
      BY DEF ToSet
    <3> QED BY <1>4, <1>6, <3>1 DEF MarksOn, Mark
  <2>2. ASSUME NEW m \in MarksOn(f) PROVE m \in ToSet(l)
    <3>1. PICK i \in DOMAIN f : m = f[i].mark /\ m # 0
      BY DEF MarksOn
    <3>3. i \in p
      BY <1>0, <3>1
    <3>2. PICK n \in DOMAIN w : g[n] = i
      BY <1>2, <3>3
    <3> QED BY <1>4, <1>6, <3>1, <3>2 DEF ToSet
  <2> QED BY <2>1, <2>2
<1>8. ASSUME Once(f) PROVE Distinct(l)
  <2> SUFFICES ASSUME NEW i \in DOMAIN w, NEW j \in DOMAIN w, i # j PROVE l[i] # l[j]
    BY <1>6 DEF Distinct
  <2>1. g[i] # g[j] /\ g[i] \in DOMAIN f /\ g[j] \in DOMAIN f /\ f[g[i]].mark # 0
    BY <1>2, <1>4 DEF Mark
  <2> QED BY <1>4, <1>8, <2>1 DEF Once
<1> QED BY <1>6, <1>7, <1>8 DEF l

\* A mark is taken out of a list.
LEMMA WithoutMarkIs ==
  ASSUME NEW l \in Seq(Mark), NEW m, Distinct(l)
  PROVE  /\ WithoutMark(l, m) \in Seq(Mark) /\ Distinct(WithoutMark(l, m))
         /\ ToSet(WithoutMark(l, m)) = ToSet(l) \ {m}
<1> DEFINE p == {i \in DOMAIN l : l[i] # m}
           w == At(l, p)
<1>0. p \in SUBSET (DOMAIN l) /\ \A i \in DOMAIN l : i \in p <=> l[i] # m
  OBVIOUS
<1>9. w = WithoutMark(l, m)
  BY DEF WithoutMark
<1> HIDE DEF p
<1>1. w \in Seq(Mark)
  BY <1>0, AtIs
<1>2. PICK g \in [DOMAIN w -> p] :
               /\ \A n \in DOMAIN w : w[n] = l[g[n]]
               /\ \A i, j \in DOMAIN w : i # j => g[i] # g[j]
               /\ \A i \in p : \E n \in DOMAIN w : g[n] = i
  BY <1>0, AtIs
<1> HIDE DEF w
<1>4. \A n \in DOMAIN w : g[n] \in DOMAIN l /\ l[g[n]] # m
  <2>1. \A n \in DOMAIN w : g[n] \in p
    BY <1>2
  <2> QED BY <1>0, <2>1
<1>5. Distinct(w)
  BY <1>2, <1>4 DEF Distinct
<1>6. ToSet(w) = ToSet(l) \ {m}
  <2>1. ASSUME NEW x \in ToSet(w) PROVE x \in ToSet(l) /\ x # m
    BY <1>2, <1>4 DEF ToSet
  <2>2. ASSUME NEW x \in ToSet(l), x # m PROVE x \in ToSet(w)
    <3>1. PICK i \in DOMAIN l : l[i] = x
      BY DEF ToSet
    <3>3. i \in p
      BY <1>0, <2>2, <3>1
    <3>2. PICK n \in DOMAIN w : g[n] = i
      BY <1>2, <3>3
    <3> QED BY <1>2, <3>1, <3>2 DEF ToSet
  <2> QED BY <2>1, <2>2
<1> QED BY <1>1, <1>5, <1>6, <1>9

LEMMA AppendIs ==
  ASSUME NEW S, NEW f \in Seq(S), NEW x \in S
  PROVE  /\ Append(f, x) \in Seq(S) /\ DOMAIN Append(f, x) = 1 .. Len(f) + 1
         /\ \A i \in DOMAIN f : Append(f, x)[i] = f[i]
         /\ Append(f, x)[Len(f) + 1] = x
         /\ DOMAIN f = 1 .. Len(f) /\ Len(f) \in Nat
  BY LenProperties

LEMMA WithMarkIs ==
  ASSUME NEW l \in Seq(Mark), NEW m \in Mark, Distinct(l)
  PROVE  /\ WithMark(l, m) \in Seq(Mark) /\ Distinct(WithMark(l, m))
         /\ ToSet(WithMark(l, m)) = ToSet(l) \cup {m}
<1>1. CASE m \in ToSet(l)
  BY <1>1 DEF WithMark
<1>2. CASE m \notin ToSet(l)
  <2> DEFINE w == Append(l, m)
  <2>1. WithMark(l, m) = w
    BY <1>2 DEF WithMark
  <2>2. /\ w \in Seq(Mark) /\ DOMAIN w = 1 .. Len(l) + 1
        /\ \A i \in DOMAIN l : w[i] = l[i]
        /\ w[Len(l) + 1] = m
        /\ DOMAIN l = 1 .. Len(l) /\ Len(l) \in Nat
    BY AppendIs
  <2> HIDE DEF w
  <2>3. \A i \in 1 .. Len(l) : l[i] # m
    BY <1>2, <2>2 DEF ToSet
  <2>4. Distinct(w)
    BY <2>2, <2>3 DEF Distinct
  <2>5. ToSet(w) = ToSet(l) \cup {m}
    BY <2>2 DEF ToSet
  <2> QED BY <2>1, <2>2, <2>4, <2>5
<1> QED BY <1>1, <1>2

-----------------------------------------------------------------------------
(***************************************************************************)
(* What the operations leave on the file.                                  *)
(***************************************************************************)
LEMMA LineIs ==
  ASSUME NEW f \in Seq(FileLine), NEW i \in DOMAIN f
  PROVE  f[i] \in FileLine /\ f[i].mark \in Nat /\ f[i].ended \in BOOLEAN
<1>1. f[i] \in FileLine
  BY DomainIs
<1> QED BY <1>1 DEF FileLine

\* add(): the new mark is there, and so are the others, but for the end of the
\* file that lacked its newline.
LEMMA AddedIs ==
  ASSUME NEW f \in Seq(FileLine), Once(f), NEW x \in FileLine, x.mark \notin MarksOn(f)
  PROVE  /\ Added(f, x) \in Seq(FileLine) /\ Once(Added(f, x))
         /\ MarksOn(Added(f, x)) \subseteq MarksOn(f) \cup {x.mark}
         /\ (MarksOn(f) \cup {x.mark}) \ ({0} \cup Spoilt(f, x.mark)) \subseteq MarksOn(Added(f, x))
<1> DEFINE n == Len(f)
<1>1. DOMAIN f = 1 .. n /\ n \in Nat
  BY DomainIs
<1>5. n = Len(f)
  OBVIOUS
<1> HIDE DEF n
<1>2. \A i \in 1 .. n : f[i].mark \in Nat /\ (f[i].mark # 0 => f[i].mark # x.mark)
  BY <1>1, LineIs DEF MarksOn
<1>3. CASE TornEnd(f)
  <2> DEFINE g == Front(f)
             y == [mark |-> 0, ended |-> x.ended]
             w == Append(g, y)
  <2>1. Added(f, x) = w
    BY <1>3 DEF Added
  <2>2. n # 0 /\ Last(f) = f[n] /\ g = [i \in 1 .. n - 1 |-> f[i]]
    <3>1. n # 0
      <4>1. f # <<>>
        BY <1>3 DEF TornEnd
      <4> QED BY <1>5, <4>1, EmptySeq
    <3>2. g = SubSeq(f, 1, n - 1) /\ Last(f) = f[n]
      BY <1>5 DEF Front, Last
    <3>3. g = [i \in 1 .. n - 1 |-> f[i]]
      BY <1>1, <1>5, <3>1, <3>2
    <3> QED BY <3>1, <3>2, <3>3
  <2>3. g \in Seq(FileLine) /\ Len(g) = n - 1
    <3>1. \A i \in 1 .. n - 1 : f[i] \in FileLine
      BY <1>1, LineIs
    <3> QED BY <1>1, <2>2, <3>1
  <2>4. y \in FileLine /\ y.mark = 0
    BY DEF FileLine
  <2> HIDE DEF g, y
  <2>5. /\ w \in Seq(FileLine) /\ DOMAIN w = 1 .. n
        /\ \A i \in 1 .. n - 1 : w[i] = f[i]
        /\ w[n].mark = 0
    <3>1. /\ w \in Seq(FileLine) /\ DOMAIN w = 1 .. Len(g) + 1
          /\ \A i \in DOMAIN g : w[i] = g[i]
          /\ w[Len(g) + 1] = y
      BY <2>3, <2>4, AppendIs
    <3>2. Len(g) + 1 = n /\ DOMAIN g = 1 .. n - 1
      BY <1>1, <2>2, <2>3
    <3> HIDE DEF w
    <3> QED BY <2>2, <2>4, <3>1, <3>2
  <2> HIDE DEF w
  <2>6. Once(w)
    <3> SUFFICES ASSUME NEW i \in 1 .. n, NEW j \in 1 .. n, i # j, w[i].mark # 0
                 PROVE  w[i].mark # w[j].mark
      BY <2>5 DEF Once
    <3>1. i \in 1 .. n - 1
      BY <1>1, <2>5
    <3>2. CASE j = n
      BY <2>5, <3>2
    <3>3. CASE j # n
      <4>1. j \in 1 .. n - 1
        BY <1>1, <3>3
      <4>2. i \in 1 .. n /\ j \in 1 .. n /\ w[i] = f[i] /\ w[j] = f[j]
        BY <2>5, <3>1, <4>1
      <4> QED BY <1>1, <4>2 DEF Once
    <3> QED BY <3>2, <3>3
  <2>7. MarksOn(w) \subseteq MarksOn(f)
    <3> SUFFICES ASSUME NEW i \in 1 .. n, w[i].mark # 0 PROVE w[i].mark \in MarksOn(f)
      BY <2>5 DEF MarksOn
    <3>1. i \in 1 .. n - 1
      BY <1>1, <2>5
    <3> QED BY <1>1, <2>5, <3>1 DEF MarksOn
  <2>8. ASSUME NEW m \in MarksOn(f), m \notin Spoilt(f, x.mark) PROVE m \in MarksOn(w)
    <3>1. PICK i \in 1 .. n : m = f[i].mark /\ m # 0
      BY <1>1 DEF MarksOn
    <3>2. i # n
      BY <1>3, <2>2, <2>8, <3>1 DEF Spoilt
    <3>3. i \in 1 .. n - 1
      BY <1>1, <3>2
    <3> QED BY <1>1, <2>5, <3>1, <3>3 DEF MarksOn
  <2>9. x.mark \in {0} \cup Spoilt(f, x.mark)
    BY <1>3 DEF Spoilt
  <2> QED BY <2>1, <2>5, <2>6, <2>7, <2>8, <2>9
<1>4. CASE ~TornEnd(f)
  <2> DEFINE w == Append(f, x)
  <2>1. Added(f, x) = w
    BY <1>4 DEF Added
  <2>2. /\ w \in Seq(FileLine) /\ DOMAIN w = 1 .. n + 1
        /\ \A i \in 1 .. n : w[i] = f[i]
        /\ w[n + 1] = x
    BY <1>1, <1>5, AppendIs
  <2> HIDE DEF w
  <2>3. Once(w)
    <3> SUFFICES ASSUME NEW i \in 1 .. n + 1, NEW j \in 1 .. n + 1, i # j, w[i].mark # 0
                 PROVE  w[i].mark # w[j].mark
      BY <2>2 DEF Once
    <3>1. CASE i \in 1 .. n /\ j \in 1 .. n
      BY <1>1, <2>2, <3>1 DEF Once
    <3>2. CASE i = n + 1
      <4>1. j \in 1 .. n
        BY <1>1, <3>2
      <4> QED BY <1>2, <2>2, <3>2, <4>1
    <3>3. CASE j = n + 1
      <4>1. i \in 1 .. n
        BY <1>1, <3>3
      <4> QED BY <1>2, <2>2, <3>3, <4>1
    <3> QED BY <1>1, <3>1, <3>2, <3>3
  <2>4. MarksOn(w) = (MarksOn(f) \cup {x.mark}) \ {0}
    <3>1. ASSUME NEW i \in 1 .. n + 1, w[i].mark # 0
          PROVE  w[i].mark \in MarksOn(f) \cup {x.mark}
      <4>1. CASE i = n + 1
        BY <2>2, <4>1
      <4>2. CASE i # n + 1
        <5>1. i \in 1 .. n
          BY <1>1, <4>2
        <5> QED BY <1>1, <2>2, <3>1, <5>1 DEF MarksOn
      <4> QED BY <4>1, <4>2
    <3>2. ASSUME NEW m \in MarksOn(f) PROVE m \in MarksOn(w)
      <4>1. PICK i \in 1 .. n : m = f[i].mark /\ m # 0
        BY <1>1 DEF MarksOn
      <4>2. i \in 1 .. n + 1 /\ m = w[i].mark
        BY <1>1, <2>2, <4>1
      <4> QED BY <2>2, <4>1, <4>2 DEF MarksOn
    <3>3. ASSUME x.mark # 0 PROVE x.mark \in MarksOn(w)
      <4>1. n + 1 \in 1 .. n + 1
        BY <1>1
      <4> QED BY <2>2, <3>3, <4>1 DEF MarksOn
    <3>4. 0 \notin MarksOn(w)
      BY DEF MarksOn
    <3>5. MarksOn(w) \subseteq MarksOn(f) \cup {x.mark}
      BY <2>2, <3>1 DEF MarksOn
    <3>6. 0 \notin MarksOn(f)
      BY DEF MarksOn
    <3> QED BY <3>2, <3>3, <3>4, <3>5, <3>6
  <2> QED BY <2>1, <2>2, <2>3, <2>4
<1> QED BY <1>3, <1>4

\* delete(): every mark but that one.
LEMMA WithoutIs ==
  ASSUME NEW f \in Seq(FileLine), Once(f), NEW m \in Mark
  PROVE  /\ Without(f, m) \in Seq(FileLine) /\ Once(Without(f, m))
         /\ MarksOn(Without(f, m)) = MarksOn(f) \ {m}
<1> DEFINE p == {i \in DOMAIN f : f[i].mark # m}
           w == At(f, p)
           l == Without(f, m)
<1>0. p \in SUBSET (DOMAIN f) /\ \A i \in DOMAIN f : i \in p <=> f[i].mark # m
  OBVIOUS
<1>3. l = [n \in DOMAIN w |-> WholeLine(w[n].mark)]
  BY DEF Without
<1> HIDE DEF p, l
<1>1. w \in Seq(FileLine)
  BY <1>0, AtIs
<1>2. PICK g \in [DOMAIN w -> p] :
               /\ \A n \in DOMAIN w : w[n] = f[g[n]]
               /\ \A i, j \in DOMAIN w : i # j => g[i] # g[j]
               /\ \A i \in p : \E n \in DOMAIN w : g[n] = i
  BY <1>0, AtIs
<1> HIDE DEF w
<1>4. \A n \in DOMAIN w :
          g[n] \in DOMAIN f /\ l[n].mark = f[g[n]].mark /\ f[g[n]].mark # m /\ l[n] \in FileLine
  <2> SUFFICES ASSUME NEW n \in DOMAIN w
               PROVE  /\ g[n] \in DOMAIN f /\ l[n].mark = f[g[n]].mark
                      /\ f[g[n]].mark # m /\ l[n] \in FileLine
    OBVIOUS
  <2>1. g[n] \in p
    BY <1>2
  <2>2. l[n] = [mark |-> w[n].mark, ended |-> TRUE] /\ w[n] = f[g[n]]
    BY <1>2, <1>3 DEF WholeLine
  <2>3. g[n] \in DOMAIN f /\ f[g[n]].mark # m
    BY <1>0, <2>1
  <2>4. f[g[n]].mark \in Nat
    BY <2>3, LineIs
  <2> QED BY <2>2, <2>3, <2>4 DEF FileLine
<1>5. DOMAIN w = 1 .. Len(w) /\ Len(w) \in Nat
  BY <1>1, DomainIs
<1>6. l \in Seq(FileLine) /\ DOMAIN l = DOMAIN w
  <2>1. l \in [1 .. Len(w) -> FileLine]
    BY <1>3, <1>4, <1>5
  <2> QED BY <2>1, <1>5
<1>7. MarksOn(l) = MarksOn(f) \ {m}
  <2>1. ASSUME NEW x \in MarksOn(l) PROVE x \in MarksOn(f) /\ x # m
    <3>1. PICK n \in DOMAIN w : x = l[n].mark /\ x # 0
      BY <1>6 DEF MarksOn
    <3> QED BY <1>4, <3>1 DEF MarksOn
  <2>2. ASSUME NEW x \in MarksOn(f), x # m PROVE x \in MarksOn(l)
    <3>1. PICK i \in DOMAIN f : x = f[i].mark /\ x # 0
      BY DEF MarksOn
    <3>2. i \in p
      BY <1>0, <2>2, <3>1
    <3>3. PICK n \in DOMAIN w : g[n] = i
      BY <1>2, <3>2
    <3> QED BY <1>4, <1>6, <3>1, <3>3 DEF MarksOn
  <2> QED BY <2>1, <2>2
<1>8. Once(l)
  <2> SUFFICES ASSUME NEW i \in DOMAIN w, NEW j \in DOMAIN w, i # j, l[i].mark # 0
               PROVE  l[i].mark # l[j].mark
    BY <1>6 DEF Once
  <2>1. g[i] # g[j] /\ g[i] \in DOMAIN f /\ g[j] \in DOMAIN f
    BY <1>2, <1>4
  <2>2. f[g[i]].mark # f[g[j]].mark
    BY <1>4, <2>1 DEF Once
  <2> QED BY <1>4, <2>2
<1> QED BY <1>6, <1>7, <1>8 DEF l

\* A write that is cut short: some of the marks it was to write.
LEMMA RemainsIs ==
  ASSUME NEW f \in Seq(FileLine), Once(f), NEW g \in Remains(f)
  PROVE  g \in Seq(FileLine) /\ Once(g) /\ MarksOn(g) \subseteq MarksOn(f)
<1>1. DOMAIN f = 1 .. Len(f) /\ Len(f) \in Nat
  BY DomainIs
<1>2. \A n \in 0 .. Len(f) :
          /\ SubSeq(f, 1, n) \in Seq(FileLine) /\ Len(SubSeq(f, 1, n)) = n
          /\ \A i \in 1 .. n : SubSeq(f, 1, n)[i] = f[i]
  <2> SUFFICES ASSUME NEW n \in 0 .. Len(f)
               PROVE  /\ SubSeq(f, 1, n) \in Seq(FileLine) /\ Len(SubSeq(f, 1, n)) = n
                      /\ \A i \in 1 .. n : SubSeq(f, 1, n)[i] = f[i]
    OBVIOUS
  <2>1. SubSeq(f, 1, n) = [i \in 1 .. n |-> f[i]]
    BY <1>1
  <2>2. \A i \in 1 .. n : f[i] \in FileLine
    BY <1>1, LineIs
  <2> QED BY <1>1, <2>1, <2>2
<1>3. CASE \E n \in 0 .. Len(f) - 1 : g = SubSeq(f, 1, n)
  <2>1. PICK n \in 0 .. Len(f) - 1 : g = SubSeq(f, 1, n)
    BY <1>3
  <2>2. n \in 0 .. Len(f) /\ n \in Nat
    BY <1>1
  <2>3. g \in Seq(FileLine) /\ DOMAIN g = 1 .. n /\ \A i \in 1 .. n : g[i] = f[i]
    BY <1>2, <2>1, <2>2, DomainIs
  <2>4. \A i \in 1 .. n : i \in DOMAIN f
    BY <1>1, <2>2
  <2>5. Once(g)
    BY <2>3, <2>4 DEF Once
  <2>6. MarksOn(g) \subseteq MarksOn(f)
    BY <2>3, <2>4 DEF MarksOn
  <2> QED BY <2>3, <2>5, <2>6
<1>4. CASE \E n \in DOMAIN f : \E m \in {0, f[n].mark} :
              g = Append(SubSeq(f, 1, n - 1), [mark |-> m, ended |-> FALSE])
  <2>1. PICK n \in DOMAIN f : \E m \in {0, f[n].mark} :
              g = Append(SubSeq(f, 1, n - 1), [mark |-> m, ended |-> FALSE])
    BY <1>4
  <2>2. PICK m \in {0, f[n].mark} : g = Append(SubSeq(f, 1, n - 1), [mark |-> m, ended |-> FALSE])
    BY <2>1
  <2> DEFINE h == SubSeq(f, 1, n - 1)
             y == [mark |-> m, ended |-> FALSE]
  <2>3. n \in 1 .. Len(f) /\ n - 1 \in 0 .. Len(f)
    BY <1>1
  <2>4. h \in Seq(FileLine) /\ Len(h) = n - 1 /\ \A i \in 1 .. n - 1 : h[i] = f[i]
    BY <1>2, <2>3
  <2>5. y \in FileLine /\ y.mark = m
    BY LineIs DEF FileLine
  <2>6. g = Append(h, y)
    BY <2>2
  <2> HIDE DEF h, y
  <2>7. /\ g \in Seq(FileLine) /\ DOMAIN g = 1 .. n
        /\ \A i \in 1 .. n - 1 : g[i] = f[i]
        /\ g[n].mark = m
    <3>1. /\ g \in Seq(FileLine) /\ DOMAIN g = 1 .. Len(h) + 1
          /\ \A i \in DOMAIN h : g[i] = h[i]
          /\ g[Len(h) + 1] = y /\ DOMAIN h = 1 .. Len(h)
      BY <2>4, <2>5, <2>6, AppendIs
    <3>2. Len(h) + 1 = n /\ DOMAIN h = 1 .. n - 1
      BY <2>3, <2>4, <3>1
    <3> QED BY <2>4, <2>5, <3>1, <3>2
  <2>8. \A i \in 1 .. n : i \in DOMAIN f /\ (g[i].mark = f[i].mark \/ g[i].mark = 0)
    BY <1>1, <2>3, <2>7
  <2>9. Once(g)
    BY <2>7, <2>8 DEF Once
  <2>10. MarksOn(g) \subseteq MarksOn(f)
    BY <2>7, <2>8 DEF MarksOn
  <2> QED BY <2>7, <2>9, <2>10
<1> QED BY <1>3, <1>4 DEF Remains

-----------------------------------------------------------------------------
(***************************************************************************)
(* No mark is lost.                                                        *)
(***************************************************************************)
LEMMA OnFileIs ==
  ASSUME file \in Seq(FileLine)
  PROVE  OnFile = MarksOn(file)
BY ReadableIs DEF OnFile

\* What is on the file is known once what was on it is.
LEMMA OnFileNext ==
  ASSUME file' \in Seq(FileLine)
  PROVE  ToSet(Readable(file')) = MarksOn(file')
BY ReadableIs

LEMMA LogAdd ==
  ASSUME LogInv, NEW a \in Open("mark"), AddVictim(a)
  PROVE  /\ LogInv'
         /\ made' \notin deleted /\ made' \in Mark
         /\ \A m \in Mark \ apart' : m \in MarksOn(file') <=> m \in MarksOn(file) \/ m = made'
<1> DEFINE x == WholeLine(made + 1)
           on == MarksOn(file)
<1>1. made \in Nat /\ made' = made + 1 /\ made' \in Mark /\ 1 .. made' = 1 .. made \cup {made'}
  BY DEF LogInv, AddVictim, Mark
<1>2. x \in FileLine /\ x.mark = made' /\ made' \notin on /\ on \subseteq 1 .. made
  BY <1>1 DEF LogInv, WholeLine, FileLine
<1>3. file' = Added(file, x) /\ apart' = apart \cup Spoilt(file, made')
  BY <1>1 DEF AddVictim
<1>4. file \in Seq(FileLine) /\ Once(file)
  BY DEF LogInv
<1>5. UNCHANGED <<archived, deleted>>
  BY DEF AddVictim
<1> HIDE DEF x
<1>6. /\ file' \in Seq(FileLine) /\ Once(file')
      /\ MarksOn(file') \subseteq on \cup {made'}
      /\ (on \cup {made'}) \ ({0} \cup Spoilt(file, made')) \subseteq MarksOn(file')
  BY <1>2, <1>3, <1>4, AddedIs
<1>7. archived \subseteq 1 .. made /\ deleted \subseteq 1 .. made /\ made' \notin 1 .. made
  BY <1>1 DEF LogInv
<1>8. /\ archived \cap MarksOn(file') = {}
      /\ deleted \cap (MarksOn(file') \cup archived) = {}
      /\ MarksOn(file') \subseteq 1 .. made'
  BY <1>1, <1>2, <1>6, <1>7 DEF LogInv
<1>9. 1 .. made' \ (deleted \cup apart') \subseteq MarksOn(file') \cup archived
  <2> SUFFICES ASSUME NEW m \in 1 .. made', m \notin deleted, m \notin apart', m \notin archived
               PROVE  m \in MarksOn(file')
    OBVIOUS
  <2>1. m \in on \cup {made'} /\ m # 0
    BY <1>1, <1>3 DEF LogInv
  <2> QED BY <1>3, <1>6, <2>1
<1>10. \A m \in Mark \ apart' : m \in MarksOn(file') <=> m \in on \/ m = made'
  BY <1>3, <1>6 DEF Mark
<1>11. made' \in Nat /\ archived' \subseteq 1 .. made' /\ deleted' \subseteq 1 .. made'
  BY <1>1, <1>5, <1>7 DEF Mark
<1> QED BY <1>1, <1>5, <1>6, <1>7, <1>8, <1>9, <1>10, <1>11 DEF LogInv

LEMMA LogAddCut ==
  ASSUME LogInv, NEW a \in Open("mark"), AddCut(a)
  PROVE  /\ LogInv'
         /\ apart \subseteq apart'
         /\ \A m \in Mark \ apart' : m \in MarksOn(file') <=> m \in MarksOn(file)
<1> DEFINE on == MarksOn(file)
<1>1. PICK m \in {0, made + 1} :
           /\ made' = IF m = 0 THEN made ELSE m
           /\ file' = Added(file, [mark |-> m, ended |-> FALSE])
           /\ apart' = apart \cup Spoilt(file, m) \cup ({m} \ {0})
  BY DEF AddCut
<1> DEFINE x == [mark |-> m, ended |-> FALSE]
<1>2. /\ made \in Nat /\ m \in Nat /\ m \notin 1 .. made /\ made' \in Nat
      /\ 1 .. made' \subseteq 1 .. made \cup ({m} \ {0})
      /\ 1 .. made \cup ({m} \ {0}) \subseteq 1 .. made'
  BY <1>1 DEF LogInv
<1>3. x \in FileLine /\ x.mark = m /\ m \notin on /\ on \subseteq 1 .. made
  <2>1. on \subseteq 1 .. made
    BY DEF LogInv
  <2> QED BY <1>2, <2>1 DEF FileLine, MarksOn
<1>4. file \in Seq(FileLine) /\ Once(file)
  BY DEF LogInv
<1>5. UNCHANGED <<archived, deleted>>
  BY DEF AddCut
<1>6. file' = Added(file, x)
  BY <1>1
<1> HIDE DEF x
<1>7. /\ file' \in Seq(FileLine) /\ Once(file')
      /\ MarksOn(file') \subseteq on \cup {m}
      /\ (on \cup {m}) \ ({0} \cup Spoilt(file, m)) \subseteq MarksOn(file')
  BY <1>3, <1>4, <1>6, AddedIs
<1>8. archived \subseteq 1 .. made /\ deleted \subseteq 1 .. made /\ 0 \notin MarksOn(file')
  BY DEF LogInv, MarksOn
<1>9. /\ archived \cap MarksOn(file') = {}
      /\ deleted \cap (MarksOn(file') \cup archived) = {}
      /\ MarksOn(file') \subseteq 1 .. made'
  BY <1>2, <1>3, <1>7, <1>8 DEF LogInv
<1>10. 1 .. made' \ (deleted \cup apart') \subseteq MarksOn(file') \cup archived
  <2> SUFFICES ASSUME NEW k \in 1 .. made', k \notin deleted, k \notin apart', k \notin archived
               PROVE  k \in MarksOn(file')
    OBVIOUS
  <2>1. k # 0 /\ k # m
    BY <1>1, <1>2
  <2>2. k \in on
    BY <1>1, <1>2, <2>1 DEF LogInv
  <2> QED BY <1>1, <1>7, <2>1, <2>2
<1>11. \A k \in Mark \ apart' : k \in MarksOn(file') <=> k \in on
  <2> SUFFICES ASSUME NEW k \in Mark, k \notin apart' PROVE k \in MarksOn(file') <=> k \in on
    OBVIOUS
  <2>1. k # 0 /\ k # m
    BY <1>1 DEF Mark
  <2> QED BY <1>1, <1>7, <2>1
<1>12. archived' \subseteq 1 .. made' /\ deleted' \subseteq 1 .. made'
  BY <1>2, <1>5, <1>8
<1> QED BY <1>1, <1>2, <1>5, <1>7, <1>9, <1>10, <1>11, <1>12 DEF LogInv

LEMMA LogDelete ==
  ASSUME LogInv, NEW a \in Open("delete"), DeleteVictim(a)
  PROVE  /\ LogInv'
         /\ a.mark \in Mark
         /\ MarksOn(file') = MarksOn(file) \ {a.mark}
<1>1. file \in Seq(FileLine) /\ Once(file) /\ made' = made
  BY DEF LogInv, DeleteVictim
<1>2. a.mark \in MarksOn(file) /\ a.mark \in 1 .. made /\ a.mark \in Mark
  BY <1>1, OnFileIs DEF LogInv, DeleteVictim, Mark
<1>3. /\ file' \in Seq(FileLine) /\ Once(file')
      /\ MarksOn(file') = MarksOn(file) \ {a.mark}
  BY <1>1, <1>2, WithoutIs DEF DeleteVictim
<1>4. UNCHANGED <<archived, apart>> /\ deleted' = deleted \cup {a.mark}
  BY DEF DeleteVictim
<1> QED BY <1>1, <1>2, <1>3, <1>4 DEF LogInv

LEMMA LogDeleteCut ==
  ASSUME LogInv, NEW a \in Open("delete"), DeleteCut(a)
  PROVE  /\ LogInv'
         /\ apart \subseteq apart'
         /\ \A m \in Mark \ apart' : m \in MarksOn(file') <=> m \in MarksOn(file)
<1>1. file \in Seq(FileLine) /\ Once(file) /\ UNCHANGED <<archived, made, deleted>>
  BY DEF LogInv, DeleteCut
<1>2. a.mark \in MarksOn(file) /\ a.mark \in Mark
  BY <1>1, OnFileIs DEF LogInv, DeleteCut, Mark
<1>3. /\ Without(file, a.mark) \in Seq(FileLine) /\ Once(Without(file, a.mark))
      /\ MarksOn(Without(file, a.mark)) \subseteq MarksOn(file)
  BY <1>1, <1>2, WithoutIs
<1>4. file' \in Seq(FileLine) /\ Once(file') /\ MarksOn(file') \subseteq MarksOn(file)
  <2>1. file' \in Remains(Without(file, a.mark))
    BY DEF DeleteCut
  <2> QED BY <1>3, <2>1, RemainsIs
<1>5. apart' = apart \cup (MarksOn(file) \ MarksOn(file'))
  BY <1>1, <1>4, OnFileIs, OnFileNext DEF DeleteCut
<1> QED BY <1>1, <1>4, <1>5 DEF LogInv

LEMMA LogMission ==
  ASSUME LogInv, NEW a \in Open("reset"), NewMission(a)
  PROVE  /\ LogInv'
         /\ MarksOn(file') = {} /\ UNCHANGED <<apart, deleted>>
<1>1. /\ file' = <<>> /\ archived' = archived \cup MarksOn(file)
      /\ UNCHANGED <<made, deleted, apart>>
  BY OnFileIs DEF LogInv, NewMission
<1>2. <<>> \in Seq(FileLine) /\ Once(<<>>) /\ MarksOn(<<>>) = {}
  BY EmptySeq DEF Once, MarksOn
<1> QED BY <1>1, <1>2 DEF LogInv

LEMMA LogKeeps ==
  ASSUME LogInv, [Next]_vars
  PROVE  LogInv'
<1>1. CASE UNCHANGED fileVars
  BY <1>1 DEF fileVars, LogInv
<1>2. ASSUME NEW a \in Open("mark"), AddVictim(a) PROVE LogInv'
  BY <1>2, LogAdd
<1>3. ASSUME NEW a \in Open("mark"), AddCut(a) PROVE LogInv'
  BY <1>3, LogAddCut
<1>4. ASSUME NEW a \in Open("delete"), DeleteVictim(a) PROVE LogInv'
  BY <1>4, LogDelete
<1>5. ASSUME NEW a \in Open("delete"), DeleteCut(a) PROVE LogInv'
  BY <1>5, LogDeleteCut
<1>6. ASSUME NEW a \in Open("reset"), NewMission(a) PROVE LogInv'
  BY <1>6, LogMission
<1>7. CASE UNCHANGED vars
  BY <1>1, <1>7 DEF vars
<1>8. CASE \/ Crash \/ Start
           \/ \E a \in Open("delete") : NoSuchMark(a)
           \/ \E d \in Dash : Victims(d)
  <2>1. UNCHANGED fileVars
    BY <1>8 DEF Crash, Start, NoSuchMark, Victims
  <2> QED BY <1>1, <2>1
<1>9. CASE Page
  <2>1. UNCHANGED fileVars
    BY <1>9 DEF Page, Connect, Disconnect, SetMarks, LoadFails, Receive, Request, Answered,
        AskFails
  <2> QED BY <1>1, <2>1
<1> QED BY <1>2, <1>3, <1>4, <1>5, <1>6, <1>7, <1>8, <1>9 DEF Next, Server

\* The file, the archives and what became of every mark.
THEOREM LogCorrect == Spec => []LogInv
<1>1. Init => LogInv
  BY EmptySeq DEF Init, LogInv, MarksOn, Once
<1>2. LogInv /\ [Next]_vars => LogInv'
  BY LogKeeps
<1> QED BY <1>1, <1>2, PTL DEF Spec

\* No mark that was made is lost, unless it was deleted or a write was cut short
\* on it, and none that was deleted is back: victim_log.VictimLog and the
\* handlers of main.ControlServer, with any operators' requests and crashes of P1.
THEOREM MarksStay == Spec => []MarksKept
<1>1. LogInv => MarksKept
  BY OnFileIs DEF LogInv, MarksKept
<1> QED BY <1>1, LogCorrect, PTL

-----------------------------------------------------------------------------
(***************************************************************************)
(* What a dashboard has, once the file has changed from `on` to `new`.     *)
(***************************************************************************)
\* Told nothing: the marks still sure are where they were.
LEMMA SameKeeps ==
  ASSUME NEW l, NEW r, NEW w, NEW k, NEW o, NEW as, NEW on, NEW sure, NEW del,
         PageOK(l, r, w, k, o, as, on, sure, del),
         NEW as2 \in SUBSET as, NEW new, NEW sure2 \in SUBSET sure,
         \A m \in sure2 : m \in new <=> m \in on
  PROVE  PageOK(l, r, w, k, o, as2, new, sure2, del)
<1>1. \A a \in as2 : AskOK(a, new, sure2, del)
  BY DEF PageOK, AskOK
<1>2. ASSUME NEW d \in Dash PROVE DashOK(l[d], r[d], w[d], k[d], o[d], new, sure2)
  <2>1. DashOK(l[d], r[d], w[d], k[d], o[d], on, sure)
    BY DEF PageOK
  <2>2. WireOK(w[d], new, sure2)
    BY <2>1 DEF DashOK, WireOK
  <2>3. FetchOK(r[d], new, sure2)
    BY <2>1 DEF DashOK, FetchOK
  <2>4. o[d] = "sound" => ListOK(l[d], w[d], new, sure2)
    BY <2>1 DEF DashOK, ListOK
  <2> QED BY <2>1, <2>2, <2>3, <2>4 DEF DashOK
<1> QED BY <1>1, <1>2 DEF PageOK

\* Told msg, which says where every mark it is about is now.
LEMMA WireAppends ==
  ASSUME NEW w \in Seq(Told), NEW on, NEW sure, WireOK(w, on, sure), NEW msg \in Told,
         NEW new, NEW sure2 \in SUBSET sure,
         \A m \in sure2 : IF About(msg, m) THEN msg.kind = "mark" <=> m \in new
                                           ELSE m \in new <=> m \in on
  PROVE  WireOK(Append(w, msg), new, sure2)
<1> DEFINE v == Append(w, msg)
           n == Len(w)
<1>1. /\ DOMAIN v = 1 .. n + 1 /\ DOMAIN w = 1 .. n /\ n \in Nat
      /\ \A i \in 1 .. n : v[i] = w[i]
      /\ v[n + 1] = msg
  BY AppendIs
<1> HIDE DEF v, n
<1> SUFFICES ASSUME NEW m \in sure2, NEW i \in DOMAIN v, About(v[i], m),
                    \A j \in DOMAIN v : j > i => ~About(v[j], m)
             PROVE  v[i].kind = "mark" <=> m \in new
  BY DEF WireOK, v
<1>2. CASE i = n + 1
  BY <1>1, <1>2
<1>3. CASE i # n + 1
  <2>1. i \in 1 .. n /\ n + 1 > i /\ n + 1 \in 1 .. n + 1
    BY <1>1, <1>3
  <2>2. ~About(msg, m)
    BY <1>1, <2>1
  <2>3. \A j \in DOMAIN w : j > i => ~About(w[j], m)
    <3> SUFFICES ASSUME NEW j \in 1 .. n, j > i PROVE ~About(w[j], m)
      BY <1>1
    <3>1. j \in DOMAIN v /\ v[j] = w[j]
      BY <1>1
    <3> QED BY <3>1
  <2>4. i \in DOMAIN w /\ v[i] = w[i]
    BY <1>1, <2>1
  <2>5. m \in sure /\ About(w[i], m)
    BY <2>4
  <2>6. w[i].kind = "mark" <=> m \in on
    BY <2>3, <2>4, <2>5 DEF WireOK
  <2> QED BY <2>2, <2>4, <2>6
<1> QED BY <1>2, <1>3

LEMMA ListWaits ==
  ASSUME NEW l, NEW w \in Seq(Told), NEW on, NEW sure, ListOK(l, w, on, sure), NEW msg \in Told,
         NEW new, NEW sure2 \in SUBSET sure,
         \A m \in sure2 : IF About(msg, m) THEN msg.kind = "mark" <=> m \in new
                                           ELSE m \in new <=> m \in on
  PROVE  ListOK(l, Append(w, msg), new, sure2)
<1> DEFINE v == Append(w, msg)
           n == Len(w)
<1>1. /\ DOMAIN v = 1 .. n + 1 /\ DOMAIN w = 1 .. n /\ n \in Nat
      /\ \A i \in 1 .. n : v[i] = w[i]
      /\ v[n + 1] = msg
  BY AppendIs
<1> HIDE DEF v, n
<1> SUFFICES ASSUME NEW m \in sure2, \A i \in DOMAIN v : ~About(v[i], m)
             PROVE  m \in ToSet(l) <=> m \in new
  BY DEF ListOK, v
<1>2. ~About(msg, m)
  <2>1. n + 1 \in DOMAIN v
    BY <1>1
  <2> QED BY <1>1, <2>1
<1>3. \A i \in DOMAIN w : ~About(w[i], m)
  <2> SUFFICES ASSUME NEW i \in 1 .. n PROVE ~About(w[i], m)
    BY <1>1
  <2>1. i \in DOMAIN v /\ v[i] = w[i]
    BY <1>1
  <2> QED BY <2>1
<1>4. m \in ToSet(l) <=> m \in on
  BY <1>3 DEF ListOK
<1> QED BY <1>2, <1>4

\* A request of which P1 has not answered the news behind it.
LEMMA AskWaits ==
  ASSUME NEW b, NEW on, NEW sure, NEW del, AskOK(b, on, sure, del), NEW a, a.kind \in Kind,
         NEW m \in Nat, NEW new, NEW sure2 \in SUBSET sure, NEW del2, del \subseteq del2,
         a.kind = "mark" => m \notin del,
         a.kind = "delete" => m = a.mark,
         \A x \in sure2 : IF About(Message(a.kind, m), x) THEN a.kind = "mark" <=> x \in new
                                                          ELSE x \in new <=> x \in on
  PROVE  AskOK(Behind(a, b), new, sure2, del2)
<1> DEFINE c == Behind(a, b)
<1>1. b \in AskSet /\ (b.done /\ b.kind = "mark" => b.mark # 0)
  BY DEF AskOK
<1>2. Overtakes(a, b) \in BOOLEAN
  BY DEF Overtakes
<1>3. /\ c \in AskSet /\ c.kind = b.kind /\ c.mark = b.mark /\ c.done = b.done
      /\ c.late = (b.late \/ Overtakes(a, b))
  BY <1>1, <1>2 DEF AskSet, Behind
<1> HIDE DEF c
<1>4. ASSUME c.done, ~c.late, NEW x \in sure2, About(c, x)
      PROVE  c.kind = "mark" <=> x \in new
  <2>1. b.done /\ ~b.late /\ ~Overtakes(a, b) /\ About(b, x) /\ x \in sure
    BY <1>3, <1>4 DEF About
  <2>2. b.kind = "mark" <=> x \in on
    BY <2>1 DEF AskOK
  <2>3. CASE ~About(Message(a.kind, m), x)
    BY <1>3, <2>2, <2>3
  <2>4. CASE About(Message(a.kind, m), x)
    <3>1. a.kind = "mark" <=> x \in new
      BY <2>4
    <3>2. a.kind = "reset" \/ m = x
      BY <2>4 DEF About, Message
    <3>3. b.kind \in Kind
      BY <1>1 DEF AskSet
    <3>4. b.kind = "delete" => b.mark \in del /\ b.mark = x
      BY <2>1 DEF AskOK, About
    <3>5. b.kind = "mark" => b.mark = x
      BY <2>1 DEF About
    <3>6. b.kind = "mark" <=> a.kind = "mark"
      BY <2>1, <3>2, <3>3, <3>4, <3>5 DEF Kind, Overtakes
    <3> QED BY <1>3, <3>1, <3>6
  <2> QED BY <2>3, <2>4
<1>5. c.done /\ c.kind = "delete" => c.mark \in del2
  BY <1>3 DEF AskOK
<1> QED BY <1>1, <1>3, <1>4, <1>5 DEF AskOK, c

\* The loads an answer of P1 passes.
LEMMA PassedIs ==
  ASSUME NEW r \in FetchSet
  PROVE  /\ Passed(r) \in FetchSet /\ Passed(r).marks = r.marks /\ Passed(r).stage = r.stage
         /\ Passed(r).late = (r.late \/ r.stage = "answered")
BY DEF Passed, FetchSet

\* P1 dies.
LEMMA DeadKeeps ==
  ASSUME NEW l, NEW r, NEW w, NEW k, NEW o, NEW as, NEW on, NEW sure, NEW del,
         PageOK(l, r, w, k, o, as, on, sure, del)
  PROVE  PageOK(l, [d \in Dash |-> IF r[d].stage = "sent" THEN NoFetch ELSE r[d]],
                [d \in Dash |-> <<>>], [d \in Dash |-> FALSE], [d \in Dash |-> "no"],
                as, on, sure, del)
<1>1. NoFetch \in FetchSet /\ FetchOK(NoFetch, on, sure)
  BY EmptySeq DEF NoFetch, FetchSet, FetchOK, Distinct
<1>2. WireOK(<<>>, on, sure) /\ <<>> \in Seq(Told)
  BY EmptySeq DEF WireOK
<1>3. ASSUME NEW d \in Dash, NEW q \in {NoFetch, r[d]}
      PROVE  DashOK(l[d], q, <<>>, FALSE, "no", on, sure)
  BY <1>1, <1>2 DEF PageOK, DashOK
<1>4. [d \in Dash |-> IF r[d].stage = "sent" THEN NoFetch ELSE r[d]] \in [Dash -> FetchSet]
  BY <1>1 DEF PageOK
<1> QED BY <1>2, <1>3, <1>4 DEF PageOK

\* The list after a message or an answer.
LEMMA ChangedIs ==
  ASSUME NEW l \in Seq(Mark), Distinct(l), NEW x, x.kind \in Kind,
         x.kind = "mark" => x.mark \in Mark
  PROVE  /\ Changed(l, x.kind, x.mark) \in Seq(Mark) /\ Distinct(Changed(l, x.kind, x.mark))
         /\ \A m \in Mark : m \in ToSet(Changed(l, x.kind, x.mark))
                               <=> IF About(x, m) THEN x.kind = "mark" ELSE m \in ToSet(l)
<1> DEFINE c == Changed(l, x.kind, x.mark)
<1>1. CASE x.kind = "mark"
  <2>1. c = WithMark(l, x.mark)
    BY <1>1 DEF Changed
  <2> HIDE DEF c
  <2>2. c \in Seq(Mark) /\ Distinct(c) /\ ToSet(c) = ToSet(l) \cup {x.mark}
    BY <1>1, <2>1, WithMarkIs
  <2> QED BY <1>1, <2>2 DEF About, c
<1>2. CASE x.kind = "delete"
  <2>1. c = WithoutMark(l, x.mark)
    BY <1>2 DEF Changed
  <2> HIDE DEF c
  <2>2. c \in Seq(Mark) /\ Distinct(c) /\ ToSet(c) = ToSet(l) \ {x.mark}
    BY <2>1, WithoutMarkIs
  <2> QED BY <1>2, <2>2 DEF About, c
<1>3. CASE x.kind = "reset"
  <2>1. c = <<>>
    BY <1>3 DEF Changed
  <2> HIDE DEF c
  <2>2. c \in Seq(Mark) /\ Distinct(c) /\ ToSet(c) = {}
    BY <2>1, EmptySeq DEF Distinct, ToSet
  <2> QED BY <1>3, <2>2 DEF About, c
<1> QED BY <1>1, <1>2, <1>3 DEF Kind

-----------------------------------------------------------------------------
(***************************************************************************)
(* Every step keeps what the dashboards have right.                        *)
(***************************************************************************)
LEMMA PageTypes ==
  ASSUME PageInv, NEW d \in Dash
  PROVE  /\ list[d] \in Seq(Mark) /\ fetch[d] \in FetchSet /\ wire[d] \in Seq(Told)
         /\ link[d] \in BOOLEAN /\ loaded[d] \in {"no", "overtaken", "sound"}
         /\ DashOK(list[d], fetch[d], wire[d], link[d], loaded[d], MarksOn(file), Sure)
BY DEF PageInv, PageOK

LEMMA PageFunctions ==
  ASSUME PageInv
  PROVE  /\ list \in [Dash -> Seq(Mark)] /\ fetch \in [Dash -> FetchSet]
         /\ wire \in [Dash -> Seq(Told)] /\ link \in [Dash -> BOOLEAN]
         /\ loaded \in [Dash -> {"no", "overtaken", "sound"}]
         /\ \A a \in asks : AskOK(a, MarksOn(file), Sure, deleted)
BY DEF PageInv, PageOK

\* A step of one dashboard, and of the requests.
LEMMA OneStep ==
  ASSUME PageInv, NEW d \in Dash, Only(d),
         DashOK(list'[d], fetch'[d], wire'[d], link'[d], loaded'[d], MarksOn(file), Sure),
         \A a \in asks' : AskOK(a, MarksOn(file), Sure, deleted)
  PROVE  PageInv'
<1>1. ASSUME NEW e \in Dash
      PROVE  DashOK(list'[e], fetch'[e], wire'[e], link'[e], loaded'[e], MarksOn(file), Sure)
  <2>1. CASE e = d
    BY <2>1
  <2>2. CASE e # d
    BY <2>2, PageTypes DEF Only
  <2> QED BY <2>1, <2>2
<1>2. PageOK(list', fetch', wire', link', loaded', asks', MarksOn(file), Sure, deleted)
  BY <1>1 DEF PageOK, Only
<1>3. MarksOn(file') = MarksOn(file) /\ Sure' = Sure /\ deleted' = deleted
  BY DEF fileVars, Sure, Only
<1> QED BY <1>2, <1>3 DEF PageInv

LEMMA Nothing ==
  /\ NoFetch \in FetchSet /\ NoFetch.marks = <<>> /\ NoFetch.stage = "none"
  /\ <<>> \in Seq(Told) /\ <<>> \in Seq(Mark) /\ Distinct(<<>>)
  /\ \A on, sure : WireOK(<<>>, on, sure) /\ FetchOK(NoFetch, on, sure)
<1>1. <<>> \in Seq(Told) /\ <<>> \in Seq(Mark)
  BY EmptySeq
<1>2. NoFetch \in FetchSet /\ NoFetch.marks = <<>> /\ NoFetch.stage = "none"
  BY <1>1 DEF NoFetch, FetchSet
<1>3. Distinct(<<>>) /\ \A on, sure : WireOK(<<>>, on, sure)
  BY DEF Distinct, WireOK
<1> QED BY <1>1, <1>2, <1>3 DEF FetchOK

LEMMA PageConnect ==
  ASSUME PageInv, NEW d \in Dash, Connect(d) PROVE PageInv'
<1> DEFINE rr == [NoFetch EXCEPT !.stage = "sent"]
<1>1. rr \in FetchSet /\ rr.stage = "sent" /\ rr.marks = <<>>
  BY Nothing DEF FetchSet
<1>2. /\ list' = list /\ fetch' = [fetch EXCEPT ![d] = rr]
      /\ wire' = [wire EXCEPT ![d] = <<>>] /\ link' = [link EXCEPT ![d] = TRUE]
      /\ loaded' = [loaded EXCEPT ![d] = "no"] /\ asks' = asks /\ UNCHANGED fileVars
  BY DEF Connect
<1> HIDE DEF rr
<1>3. Only(d) /\ list'[d] = list[d] /\ fetch'[d] = rr /\ wire'[d] = <<>> /\ link'[d] /\ loaded'[d] = "no"
  BY <1>1, <1>2, PageFunctions, Nothing DEF Only
<1>4. DashOK(list'[d], fetch'[d], wire'[d], link'[d], loaded'[d], MarksOn(file), Sure)
  BY <1>1, <1>3, PageTypes, Nothing DEF DashOK, FetchOK
<1> QED BY <1>2, <1>3, <1>4, PageFunctions, OneStep

LEMMA PageDisconnect ==
  ASSUME PageInv, NEW d \in Dash, Disconnect(d) PROVE PageInv'
<1>1. /\ list' = list /\ fetch' = fetch
      /\ wire' = [wire EXCEPT ![d] = <<>>] /\ link' = [link EXCEPT ![d] = FALSE]
      /\ loaded' = [loaded EXCEPT ![d] = "no"] /\ asks' = asks /\ UNCHANGED fileVars
  BY DEF Disconnect
<1>2. Only(d) /\ list'[d] = list[d] /\ fetch'[d] = fetch[d] /\ wire'[d] = <<>> /\ loaded'[d] = "no"
  BY <1>1, PageFunctions, Nothing DEF Only
<1>3. DashOK(list'[d], fetch'[d], wire'[d], link'[d], loaded'[d], MarksOn(file), Sure)
  BY <1>2, PageTypes, Nothing DEF DashOK
<1> QED BY <1>1, <1>2, <1>3, PageFunctions, OneStep

\* The list that was loaded: no news overtook it on P1, and what comes after it
\* is still on the socket.
LEMMA PageSetMarks ==
  ASSUME PageInv, NEW d \in Dash, SetMarks(d) PROVE PageInv'
<1> DEFINE oo == IF ~link[d] THEN "no" ELSE IF fetch[d].late THEN "overtaken" ELSE "sound"
           ll == fetch[d].marks
<1>1. /\ FetchOK(fetch[d], MarksOn(file), Sure) /\ fetch[d].stage = "answered"
      /\ WireOK(wire[d], MarksOn(file), Sure) /\ (~link[d] => wire[d] = <<>>)
  BY PageTypes DEF DashOK, SetMarks
<1>2. ll \in Seq(Mark) /\ Distinct(ll)
  BY <1>1, PageTypes DEF FetchSet, FetchOK
<1>3. oo = "sound" => ListOK(ll, wire[d], MarksOn(file), Sure)
  BY <1>1 DEF FetchOK, ListOK
<1>4. oo \in {"no", "overtaken", "sound"} /\ (~link[d] => oo = "no")
  OBVIOUS
<1>5. /\ list' = [list EXCEPT ![d] = ll] /\ fetch' = [fetch EXCEPT ![d] = NoFetch]
      /\ wire' = wire /\ link' = link
      /\ loaded' = [loaded EXCEPT ![d] = oo] /\ asks' = asks /\ UNCHANGED fileVars
  BY DEF SetMarks
<1> HIDE DEF oo, ll
<1>6. /\ Only(d) /\ list'[d] = ll /\ fetch'[d] = NoFetch /\ wire'[d] = wire[d]
      /\ link'[d] = link[d] /\ loaded'[d] = oo
  BY <1>2, <1>4, <1>5, PageFunctions, Nothing DEF Only
<1>7. DashOK(list'[d], fetch'[d], wire'[d], link'[d], loaded'[d], MarksOn(file), Sure)
  BY <1>1, <1>2, <1>3, <1>4, <1>6, Nothing DEF DashOK
<1> QED BY <1>5, <1>6, <1>7, PageFunctions, OneStep

LEMMA PageLoadFails ==
  ASSUME PageInv, NEW d \in Dash, LoadFails(d) PROVE PageInv'
<1>1. /\ list' = list /\ fetch' = [fetch EXCEPT ![d] = NoFetch]
      /\ wire' = wire /\ link' = link
      /\ loaded' = loaded /\ asks' = asks /\ UNCHANGED fileVars
  BY DEF LoadFails
<1>2. Only(d) /\ fetch'[d] = NoFetch
  BY <1>1, PageFunctions, Nothing DEF Only
<1>3. DashOK(list'[d], fetch'[d], wire'[d], link'[d], loaded'[d], MarksOn(file), Sure)
  BY <1>1, <1>2, PageTypes, Nothing DEF DashOK
<1> QED BY <1>1, <1>2, <1>3, PageFunctions, OneStep

\* A message is applied: it was the last word on its mark, or a later one is
\* still to come.
LEMMA PageReceive ==
  ASSUME PageInv, NEW d \in Dash, Receive(d) PROVE PageInv'
<1> DEFINE w == wire[d]
           x == Head(w)
           t == Tail(w)
           ll == Changed(list[d], x.kind, x.mark)
           on == MarksOn(file)
<1>1. w \in Seq(Told) /\ w # <<>> /\ WireOK(w, on, Sure)
  BY PageTypes DEF Receive, DashOK
<1>2. /\ DOMAIN w = 1 .. Len(w) /\ Len(w) \in Nat \ {0}
      /\ x = w[1] /\ x \in Told
      /\ t \in Seq(Told) /\ DOMAIN t = 1 .. Len(w) - 1
      /\ \A i \in DOMAIN t : i + 1 \in DOMAIN w /\ t[i] = w[i + 1]
  <2> HIDE DEF w
  <2>1. DOMAIN w = 1 .. Len(w) /\ Len(w) \in Nat \ {0}
    BY <1>1, EmptySeq, LenProperties
  <2>2. x = w[1] /\ x \in Told
    BY <1>1, <2>1, ElementOfSeq
  <2>3. t \in Seq(Told) /\ Len(t) = Len(w) - 1
    BY <1>1, HeadTailProperties
  <2>4. \A i \in 1 .. Len(t) : t[i] = w[i + 1]
    BY <1>1, HeadTailProperties
  <2>5. DOMAIN t = 1 .. Len(w) - 1
    BY <2>3, LenProperties
  <2> QED BY <2>1, <2>2, <2>3, <2>4, <2>5
<1>3. list[d] \in Seq(Mark) /\ Distinct(list[d])
  BY PageTypes DEF DashOK
<1>4. x.kind \in Kind /\ (x.kind = "mark" => x.mark \in Mark)
  BY <1>2 DEF Told, Mark
<1>5. /\ list' = [list EXCEPT ![d] = ll] /\ fetch' = fetch
      /\ wire' = [wire EXCEPT ![d] = t] /\ link' = link
      /\ loaded' = loaded /\ asks' = asks /\ UNCHANGED fileVars
  BY PageFunctions DEF Receive
<1> HIDE DEF w, x, t
<1>6. /\ ll \in Seq(Mark) /\ Distinct(ll)
      /\ \A m \in Mark : m \in ToSet(ll) <=> IF About(x, m) THEN x.kind = "mark"
                                                            ELSE m \in ToSet(list[d])
  BY <1>3, <1>4, ChangedIs
<1> HIDE DEF ll, on
<1>7. WireOK(t, on, Sure)
  <2> SUFFICES ASSUME NEW m \in Sure, NEW i \in DOMAIN t, About(t[i], m),
                      \A j \in DOMAIN t : j > i => ~About(t[j], m)
               PROVE  t[i].kind = "mark" <=> m \in on
    BY DEF WireOK
  <2>1. i + 1 \in DOMAIN w /\ w[i + 1] = t[i] /\ i \in Nat
    BY <1>2
  <2>2. \A j \in DOMAIN w : j > i + 1 => ~About(w[j], m)
    <3> SUFFICES ASSUME NEW j \in DOMAIN w, j > i + 1 PROVE ~About(w[j], m)
      OBVIOUS
    <3>1. j - 1 \in DOMAIN t /\ j - 1 > i /\ (j - 1) + 1 = j
      BY <1>2, <2>1
    <3>2. t[j - 1] = w[j] /\ ~About(t[j - 1], m)
      BY <1>2, <3>1
    <3> QED BY <3>2
  <2> QED BY <1>1, <2>1, <2>2 DEF WireOK
<1>8. ASSUME loaded[d] = "sound" PROVE ListOK(ll, t, on, Sure)
  <2>1. ListOK(list[d], w, on, Sure)
    BY <1>8, PageTypes DEF DashOK, w, on
  <2> SUFFICES ASSUME NEW m \in Sure, \A i \in DOMAIN t : ~About(t[i], m)
               PROVE  m \in ToSet(ll) <=> m \in on
    BY DEF ListOK
  <2>2. m \in Mark
    BY DEF Sure
  <2>3. \A j \in DOMAIN w : j > 1 => ~About(w[j], m)
    <3> SUFFICES ASSUME NEW j \in DOMAIN w, j > 1 PROVE ~About(w[j], m)
      OBVIOUS
    <3>1. j - 1 \in DOMAIN t /\ (j - 1) + 1 = j
      BY <1>2
    <3>2. t[j - 1] = w[j] /\ ~About(t[j - 1], m)
      BY <1>2, <3>1
    <3> QED BY <3>2
  <2>4. 1 \in DOMAIN w
    BY <1>2
  <2>5. CASE About(x, m)
    <3>1. x.kind = "mark" <=> m \in on
      BY <1>1, <1>2, <2>3, <2>4, <2>5 DEF WireOK
    <3> QED BY <1>6, <2>2, <2>5, <3>1
  <2>6. CASE ~About(x, m)
    <3>1. \A j \in DOMAIN w : ~About(w[j], m)
      <4> SUFFICES ASSUME NEW j \in DOMAIN w PROVE ~About(w[j], m)
        OBVIOUS
      <4>1. j = 1 \/ j > 1
        BY <1>2
      <4> QED BY <1>2, <2>3, <2>6, <4>1
    <3>2. m \in ToSet(list[d]) <=> m \in on
      BY <2>1, <3>1 DEF ListOK
    <3> QED BY <1>6, <2>2, <2>6, <3>2
  <2> QED BY <2>5, <2>6
<1>9. link[d]
  BY <1>1, PageTypes DEF DashOK, w
<1>10. Only(d) /\ list'[d] = ll /\ fetch'[d] = fetch[d] /\ wire'[d] = t /\ link'[d] /\ loaded'[d] = loaded[d]
  BY <1>2, <1>5, <1>6, <1>9, PageFunctions DEF Only
<1>11. FetchOK(fetch[d], on, Sure)
  BY PageTypes DEF DashOK, on
<1>12. DashOK(list'[d], fetch'[d], wire'[d], link'[d], loaded'[d], MarksOn(file), Sure)
  BY <1>6, <1>7, <1>8, <1>10, <1>11 DEF DashOK, on
<1> QED BY <1>5, <1>10, <1>12, PageFunctions, OneStep

\* An answer: what it says of a mark still holds, or is taken back by the
\* dashboard's `overtaken`.
LEMMA PageAnswered ==
  ASSUME PageInv, NEW a \in asks, Answered(a) PROVE PageInv'
<1> DEFINE d == a.dash
           ll == Changed(list[d], a.kind, a.mark)
           oo == IF loaded[d] = "sound" /\ a.late THEN "overtaken" ELSE loaded[d]
           on == MarksOn(file)
<1>1. AskOK(a, on, Sure, deleted) /\ a.done
  BY DEF PageInv, PageOK, Answered
<1>2. a \in AskSet /\ d \in Dash /\ a.kind \in Kind /\ (a.kind = "mark" => a.mark \in Mark)
  BY <1>1 DEF AskOK, AskSet, Mark
<1>3. /\ list' = [list EXCEPT ![d] = ll] /\ fetch' = fetch
      /\ wire' = wire /\ link' = link
      /\ loaded' = [loaded EXCEPT ![d] = oo] /\ asks' = asks \ {a} /\ UNCHANGED fileVars
  BY <1>2, PageFunctions DEF Answered
<1>4. oo = "sound" => loaded[d] = "sound" /\ ~a.late
  OBVIOUS
<1>5. oo \in {"overtaken", loaded[d]} /\ (loaded[d] = "no" => oo = "no")
  OBVIOUS
<1> HIDE DEF oo, d, on
<1>6. /\ list[d] \in Seq(Mark) /\ Distinct(list[d]) /\ loaded[d] \in {"no", "overtaken", "sound"}
      /\ WireOK(wire[d], on, Sure) /\ FetchOK(fetch[d], on, Sure)
      /\ (~link[d] => loaded[d] = "no" /\ wire[d] = <<>>)
      /\ (loaded[d] = "sound" => ListOK(list[d], wire[d], on, Sure))
  BY <1>2, PageTypes DEF DashOK, on
<1>7. /\ ll \in Seq(Mark) /\ Distinct(ll)
      /\ \A m \in Mark : m \in ToSet(ll) <=> IF About(a, m) THEN a.kind = "mark"
                                                            ELSE m \in ToSet(list[d])
  BY <1>2, <1>6, ChangedIs
<1> HIDE DEF ll
<1>8. ASSUME oo = "sound" PROVE ListOK(ll, wire[d], on, Sure)
  <2>1. ListOK(list[d], wire[d], on, Sure)
    BY <1>4, <1>6, <1>8
  <2> SUFFICES ASSUME NEW m \in Sure, \A i \in DOMAIN wire[d] : ~About(wire[d][i], m)
               PROVE  m \in ToSet(ll) <=> m \in on
    BY DEF ListOK
  <2>2. m \in Mark
    BY DEF Sure
  <2>3. m \in ToSet(list[d]) <=> m \in on
    BY <2>1 DEF ListOK
  <2>4. About(a, m) => (a.kind = "mark" <=> m \in on)
    BY <1>1, <1>4, <1>8 DEF AskOK
  <2> QED BY <1>7, <2>2, <2>3, <2>4
<1>9. /\ Only(d) /\ list'[d] = ll /\ fetch'[d] = fetch[d] /\ wire'[d] = wire[d]
      /\ link'[d] = link[d] /\ loaded'[d] = oo
  BY <1>2, <1>3, <1>5, <1>6, <1>7, PageFunctions DEF Only
<1>10. DashOK(list'[d], fetch'[d], wire'[d], link'[d], loaded'[d], MarksOn(file), Sure)
  BY <1>5, <1>6, <1>7, <1>8, <1>9 DEF DashOK, on
<1>11. \A b \in asks' : AskOK(b, MarksOn(file), Sure, deleted)
  BY <1>3, PageFunctions
<1> QED BY <1>2, <1>9, <1>10, <1>11, OneStep

LEMMA PageRequest ==
  ASSUME PageInv, NEW d \in Dash, Request(d) PROVE PageInv'
<1>1. PICK kind \in {"mark", "delete", "reset"}, m \in {0} \cup ToSet(list[d]) :
           asks' = asks \cup {Ask(d, kind, m)}
  BY DEF Request
<1>2. m \in Nat
  <2>1. \A i \in DOMAIN list[d] : list[d][i] \in Mark
    BY PageTypes, DomainIs
  <2> QED BY <2>1 DEF ToSet, Mark
<1>3. AskOK(Ask(d, kind, m), MarksOn(file), Sure, deleted)
  BY <1>2 DEF AskOK, Ask, AskSet, Kind
<1>4. UNCHANGED <<list, fetch, wire, link, loaded>> /\ UNCHANGED fileVars
  BY DEF Request, pageVars
<1>5. \A a \in asks' : AskOK(a, MarksOn(file), Sure, deleted)
  BY <1>1, <1>3, PageFunctions
<1>6. Only(d)
  BY <1>4, PageFunctions DEF Only
<1>7. DashOK(list'[d], fetch'[d], wire'[d], link'[d], loaded'[d], MarksOn(file), Sure)
  BY <1>4, PageTypes
<1> QED BY <1>5, <1>6, <1>7, OneStep

LEMMA PageVictims ==
  ASSUME LogInv, PageInv, NEW d \in Dash, Victims(d) PROVE PageInv'
<1> DEFINE rr == [stage |-> "answered", marks |-> Readable(file), late |-> FALSE]
<1>1. /\ Readable(file) \in Seq(Mark) /\ ToSet(Readable(file)) = MarksOn(file)
      /\ Distinct(Readable(file))
  BY ReadableIs DEF LogInv
<1>2. rr \in FetchSet /\ FetchOK(rr, MarksOn(file), Sure)
  BY <1>1 DEF FetchSet, FetchOK
<1>3. /\ list' = list /\ fetch' = [fetch EXCEPT ![d] = rr]
      /\ wire' = wire /\ link' = link
      /\ loaded' = loaded /\ asks' = asks /\ UNCHANGED fileVars
  BY DEF Victims
<1> HIDE DEF rr
<1>4. Only(d) /\ fetch'[d] = rr
  BY <1>2, <1>3, PageFunctions DEF Only
<1>5. DashOK(list'[d], fetch'[d], wire'[d], link'[d], loaded'[d], MarksOn(file), Sure)
  BY <1>2, <1>3, <1>4, PageTypes DEF DashOK
<1> QED BY <1>3, <1>4, <1>5, PageFunctions, OneStep

\* Nothing is told to anyone: some requests are gone, and marks a cut write has
\* touched are not sure any more.
LEMMA PageQuiet ==
  ASSUME PageInv, asks' \subseteq asks, apart \subseteq apart', deleted' = deleted,
         \A m \in Mark \ apart' : m \in MarksOn(file') <=> m \in MarksOn(file)
  PROVE  PageOK(list, fetch, wire, link, loaded, asks', MarksOn(file'), Sure', deleted')
<1>1. Sure' \in SUBSET Sure /\ \A m \in Sure' : m \in MarksOn(file') <=> m \in MarksOn(file)
  BY DEF Sure
<1> QED BY <1>1, SameKeeps DEF PageInv

LEMMA PageDies ==
  ASSUME PageOK(list, fetch, wire, link, loaded, asks', MarksOn(file'), Sure', deleted'),
         Dies, list' = list
  PROVE  PageInv'
<1>1. PageOK(list, [d \in Dash |-> IF fetch[d].stage = "sent" THEN NoFetch ELSE fetch[d]],
             [d \in Dash |-> <<>>], [d \in Dash |-> FALSE], [d \in Dash |-> "no"],
             asks', MarksOn(file'), Sure', deleted')
  BY DeadKeeps
<1>2. PageOK(list', fetch', wire', link', loaded', asks', MarksOn(file'), Sure', deleted')
  BY <1>1 DEF Dies
<1> QED BY <1>2 DEF PageInv

\* News: P1 has done request a, of mark m.
LEMMA PageNews ==
  ASSUME PageInv, NEW a \in asks, NEW m \in Nat, Broadcast(Message(a.kind, m)), Answer(a, m),
         UNCHANGED <<link, list, loaded>>,
         apart \subseteq apart', deleted \subseteq deleted',
         a.kind = "mark" => m \notin deleted /\ m # 0,
         a.kind = "delete" => m = a.mark /\ m \in deleted',
         \A x \in Mark \ apart' :
             IF About(Message(a.kind, m), x) THEN a.kind = "mark" <=> x \in MarksOn(file')
                                             ELSE x \in MarksOn(file') <=> x \in MarksOn(file)
  PROVE  PageInv'
<1>1. Sure' \in SUBSET Sure /\ Sure' = Mark \ apart'
  BY DEF Sure
<1>2. PageOK(list, fetch, wire, link, loaded, asks, MarksOn(file), Sure, deleted)
  BY DEF PageInv
<1>3. \A d \in Dash : fetch'[d] = Passed(fetch[d])
  BY DEF Answer, Passed
<1>4. fetch' \in [Dash -> FetchSet]
  <2>1. fetch' = [d \in Dash |-> fetch'[d]]
    BY DEF Answer
  <2>2. \A d \in Dash : fetch'[d] \in FetchSet
    BY <1>3, PageTypes, PassedIs
  <2> QED BY <2>1, <2>2
<1>5. \A d \in Dash : wire'[d] = IF link[d] THEN Append(wire[d], Message(a.kind, m)) ELSE wire[d]
  BY DEF Broadcast
<1>6. Message(a.kind, m) \in Told
  <2>1. a.kind \in Kind
    BY PageFunctions DEF AskOK, AskSet
  <2> QED BY <2>1 DEF Message, Told
<1>7. wire' \in [Dash -> Seq(Told)]
  <2>1. wire' = [d \in Dash |-> wire'[d]]
    BY DEF Broadcast
  <2>2. \A d \in Dash : wire'[d] \in Seq(Told)
    <3> SUFFICES ASSUME NEW d \in Dash PROVE wire'[d] \in Seq(Told)
      OBVIOUS
    <3>1. wire[d] \in Seq(Told)
      BY PageTypes
    <3>2. Append(wire[d], Message(a.kind, m)) \in Seq(Told)
      BY <1>6, <3>1, AppendIs
    <3> QED BY <1>5, <3>1, <3>2
  <2> QED BY <2>1, <2>2
<1>8. \A c \in asks' : c = DoneOf(a, m) \/ \E b \in asks : c = Behind(a, b)
  BY DEF Answer, DoneOf, Behind
<1> DEFINE msg == Message(a.kind, m)
           on == MarksOn(file)
           new == MarksOn(file')
<1>9. a \in AskSet /\ a.kind \in Kind /\ msg.kind = a.kind
  BY PageFunctions DEF AskOK, AskSet, Message
<1>10. \A x \in Sure' : IF About(msg, x) THEN msg.kind = "mark" <=> x \in new
                                         ELSE x \in new <=> x \in on
  BY <1>1, <1>9
<1>11. msg \in Told
  BY <1>6
<1>12. \A x \in Sure' : IF About(msg, x) THEN a.kind = "mark" <=> x \in new
                                         ELSE x \in new <=> x \in on
  BY <1>1
<1>13. ASSUME NEW b \in asks PROVE AskOK(Behind(a, b), new, Sure', deleted')
  <2>1. AskOK(b, on, Sure, deleted)
    BY PageFunctions
  <2> HIDE DEF on, new
  <2> QED BY <1>1, <1>9, <1>12, <2>1, AskWaits DEF msg
<1> HIDE DEF on, new
<1>14. ASSUME NEW c \in asks' PROVE AskOK(c, new, Sure', deleted')
  <2>1. CASE \E b \in asks : c = Behind(a, b)
    BY <1>13, <2>1
  <2>2. CASE c = DoneOf(a, m)
    <3>1. c \in AskSet /\ c.kind = a.kind /\ c.mark = m /\ c.done
      BY <1>9, <2>2 DEF AskSet, DoneOf
    <3>2. \A x \in Sure' : About(c, x) => (c.kind = "mark" <=> x \in new)
      BY <1>12, <3>1 DEF About, Message, msg
    <3> QED BY <3>1, <3>2 DEF AskOK
  <2> QED BY <1>8, <2>1, <2>2
<1> HIDE DEF msg
<1>15. ASSUME NEW d \in Dash PROVE FetchOK(fetch'[d], new, Sure')
  <2>1. fetch[d] \in FetchSet /\ FetchOK(fetch[d], on, Sure)
    BY PageTypes DEF DashOK, on
  <2>2. fetch'[d] = Passed(fetch[d])
    BY <1>3
  <2>3. /\ fetch'[d].marks = fetch[d].marks /\ fetch'[d].stage = fetch[d].stage
        /\ fetch'[d].late = (fetch[d].late \/ fetch[d].stage = "answered")
    BY <2>1, <2>2, PassedIs
  <2> QED BY <2>1, <2>3 DEF FetchOK
<1>16. ASSUME NEW d \in Dash PROVE DashOK(list[d], fetch'[d], wire'[d], link[d], loaded[d], new, Sure')
  <2>1. DashOK(list[d], fetch[d], wire[d], link[d], loaded[d], on, Sure) /\ wire[d] \in Seq(Told)
    BY PageTypes DEF on
  <2>2. CASE link[d]
    <3>1. wire'[d] = Append(wire[d], msg)
      BY <1>5, <2>2 DEF msg
    <3>2. WireOK(wire[d], on, Sure)
      BY <2>1 DEF DashOK
    <3>3. WireOK(Append(wire[d], msg), new, Sure')
      BY <1>1, <1>10, <1>11, <2>1, <3>2, WireAppends
    <3>4. loaded[d] = "sound" => ListOK(list[d], wire[d], on, Sure)
      BY <2>1 DEF DashOK
    <3>5. loaded[d] = "sound" => ListOK(list[d], Append(wire[d], msg), new, Sure')
      BY <1>1, <1>10, <1>11, <2>1, <3>4, ListWaits
    <3> QED BY <1>15, <2>1, <2>2, <3>1, <3>3, <3>5 DEF DashOK
  <2>3. CASE ~link[d]
    <3>1. wire'[d] = <<>> /\ loaded[d] = "no"
      BY <1>5, <2>1, <2>3 DEF DashOK
    <3>2. WireOK(<<>>, new, Sure')
      BY DEF WireOK
    <3> QED BY <1>15, <2>1, <3>1, <3>2 DEF DashOK
  <2> QED BY <2>2, <2>3, PageTypes
<1>17. PageOK(list, fetch', wire', link, loaded, asks', new, Sure', deleted')
  BY <1>4, <1>7, <1>14, <1>16, PageFunctions DEF PageOK
<1> QED BY <1>17 DEF PageInv, new

\* The requests P1 does.
LEMMA PageAdd ==
  ASSUME LogInv, PageInv, NEW a \in Open("mark"), AddVictim(a) PROVE PageInv'
<1>1. a \in asks /\ a.kind = "mark"
  BY DEF Open
<1>2. /\ made' \notin deleted /\ made' \in Mark
      /\ \A m \in Mark \ apart' : m \in MarksOn(file') <=> m \in MarksOn(file) \/ m = made'
  BY LogAdd
<1>3. made' \in Nat /\ made' # 0
  BY <1>2 DEF Mark
<1>4. /\ Broadcast(Message(a.kind, made')) /\ Answer(a, made')
      /\ UNCHANGED <<link, list, loaded>>
      /\ apart \subseteq apart' /\ deleted' = deleted
  BY <1>1 DEF AddVictim
<1>5. \A x \in Mark \ apart' :
          IF About(Message(a.kind, made'), x) THEN a.kind = "mark" <=> x \in MarksOn(file')
                                              ELSE x \in MarksOn(file') <=> x \in MarksOn(file)
  BY <1>1, <1>2 DEF About, Message
<1> QED BY <1>1, <1>2, <1>3, <1>4, <1>5, PageNews

LEMMA PageDelete ==
  ASSUME LogInv, PageInv, NEW a \in Open("delete"), DeleteVictim(a) PROVE PageInv'
<1>1. a \in asks /\ a.kind = "delete"
  BY DEF Open
<1>2. a.mark \in Mark /\ MarksOn(file') = MarksOn(file) \ {a.mark}
  BY LogDelete
<1>3. a.mark \in Nat
  BY <1>2 DEF Mark
<1>4. /\ Broadcast(Message(a.kind, a.mark)) /\ Answer(a, a.mark)
      /\ UNCHANGED <<link, list, loaded>>
      /\ apart' = apart /\ deleted' = deleted \cup {a.mark}
  BY <1>1 DEF DeleteVictim
<1>5. \A x \in Mark \ apart' :
          IF About(Message(a.kind, a.mark), x) THEN a.kind = "mark" <=> x \in MarksOn(file')
                                               ELSE x \in MarksOn(file') <=> x \in MarksOn(file)
  BY <1>1, <1>2 DEF About, Message
<1> QED BY <1>1, <1>3, <1>4, <1>5, PageNews

LEMMA PageMission ==
  ASSUME LogInv, PageInv, NEW a \in Open("reset"), NewMission(a) PROVE PageInv'
<1>1. a \in asks /\ a.kind = "reset"
  BY DEF Open
<1>2. MarksOn(file') = {} /\ UNCHANGED <<apart, deleted>>
  BY LogMission
<1>3. /\ Broadcast(Message(a.kind, 0)) /\ Answer(a, 0)
      /\ UNCHANGED <<link, list, loaded>>
  BY <1>1 DEF NewMission
<1>4. \A x \in Mark \ apart' :
          IF About(Message(a.kind, 0), x) THEN a.kind = "mark" <=> x \in MarksOn(file')
                                          ELSE x \in MarksOn(file') <=> x \in MarksOn(file)
  BY <1>1, <1>2 DEF About, Message
<1>5. 0 \in Nat /\ apart \subseteq apart' /\ deleted \subseteq deleted'
  BY <1>2
<1> QED BY <1>1, <1>3, <1>4, <1>5, PageNews

LEMMA PageAddCut ==
  ASSUME LogInv, PageInv, NEW a \in Open("mark"), AddCut(a) PROVE PageInv'
<1>1. /\ apart \subseteq apart'
      /\ \A m \in Mark \ apart' : m \in MarksOn(file') <=> m \in MarksOn(file)
  BY LogAddCut
<1>2. asks' \subseteq asks /\ deleted' = deleted /\ UNCHANGED <<list, fetch, wire, link, loaded>>
  BY DEF AddCut, pageVars
<1>3. PageOK(list, fetch, wire, link, loaded, asks', MarksOn(file'), Sure', deleted')
  BY <1>1, <1>2, PageQuiet
<1> QED BY <1>2, <1>3 DEF PageInv

LEMMA PageDeleteCut ==
  ASSUME LogInv, PageInv, NEW a \in Open("delete"), DeleteCut(a) PROVE PageInv'
<1>1. /\ apart \subseteq apart'
      /\ \A m \in Mark \ apart' : m \in MarksOn(file') <=> m \in MarksOn(file)
  BY LogDeleteCut
<1>2. asks' \subseteq asks /\ deleted' = deleted /\ list' = list
  BY DEF DeleteCut
<1>3. PageOK(list, fetch, wire, link, loaded, asks', MarksOn(file'), Sure', deleted')
  BY <1>1, <1>2, PageQuiet
<1>4. CASE Dies
  BY <1>2, <1>3, <1>4, PageDies
<1>5. CASE UNCHANGED <<up, wire, link, fetch, loaded>>
  BY <1>2, <1>3, <1>5 DEF PageInv
<1> QED BY <1>4, <1>5 DEF DeleteCut

\* The file is as it was, and no request has come.
LEMMA PageFileSame ==
  ASSUME PageInv, UNCHANGED fileVars, asks' \subseteq asks
  PROVE  PageOK(list, fetch, wire, link, loaded, asks', MarksOn(file'), Sure', deleted')
<1>1. apart' = apart /\ deleted' = deleted /\ MarksOn(file') = MarksOn(file)
  BY DEF fileVars
<1>2. /\ apart \subseteq apart'
      /\ \A m \in Mark \ apart' : m \in MarksOn(file') <=> m \in MarksOn(file)
  BY <1>1
<1> QED BY <1>1, <1>2, PageQuiet

LEMMA PageRests ==
  ASSUME PageInv, UNCHANGED fileVars, asks' \subseteq asks,
         UNCHANGED <<list, fetch, wire, link, loaded>>
  PROVE  PageInv'
<1>1. PageOK(list, fetch, wire, link, loaded, asks', MarksOn(file'), Sure', deleted')
  BY PageFileSame
<1> QED BY <1>1 DEF PageInv

LEMMA PageCrash ==
  ASSUME PageInv, Crash PROVE PageInv'
<1>1. UNCHANGED fileVars /\ asks' \subseteq asks /\ Dies /\ list' = list
  BY DEF Crash
<1>2. PageOK(list, fetch, wire, link, loaded, asks', MarksOn(file'), Sure', deleted')
  BY <1>1, PageFileSame
<1> QED BY <1>1, <1>2, PageDies

LEMMA PageKeeps ==
  ASSUME LogInv, PageInv, [Next]_vars
  PROVE  PageInv'
<1>1. CASE Server
  <2>1. CASE Crash
    BY <2>1, PageCrash
  <2>2. CASE Start
    BY <2>2, PageRests DEF Start, pageVars
  <2>3. ASSUME NEW a \in Open("mark"), AddVictim(a) \/ AddCut(a) PROVE PageInv'
    BY <2>3, PageAdd, PageAddCut
  <2>4. ASSUME NEW a \in Open("delete"), DeleteVictim(a) \/ DeleteCut(a) PROVE PageInv'
    BY <2>4, PageDelete, PageDeleteCut
  <2>5. ASSUME NEW a \in Open("delete"), NoSuchMark(a) PROVE PageInv'
    BY <2>5, PageRests DEF NoSuchMark, pageVars
  <2>6. ASSUME NEW a \in Open("reset"), NewMission(a) PROVE PageInv'
    BY <2>6, PageMission
  <2>7. ASSUME NEW d \in Dash, Victims(d) PROVE PageInv'
    BY <2>7, PageVictims
  <2> QED BY <1>1, <2>1, <2>2, <2>3, <2>4, <2>5, <2>6, <2>7 DEF Server
<1>2. CASE Page
  <2>1. ASSUME NEW d \in Dash, Connect(d) \/ Disconnect(d) PROVE PageInv'
    BY <2>1, PageConnect, PageDisconnect
  <2>2. ASSUME NEW d \in Dash, SetMarks(d) \/ LoadFails(d) PROVE PageInv'
    BY <2>2, PageSetMarks, PageLoadFails
  <2>3. ASSUME NEW d \in Dash, Receive(d) \/ Request(d) PROVE PageInv'
    BY <2>3, PageReceive, PageRequest
  <2>4. ASSUME NEW a \in asks, Answered(a) PROVE PageInv'
    BY <2>4, PageAnswered
  <2>5. ASSUME NEW a \in asks, AskFails(a) PROVE PageInv'
    BY <2>5, PageRests DEF AskFails, pageVars
  <2> QED BY <1>2, <2>1, <2>2, <2>3, <2>4, <2>5 DEF Page
<1>3. CASE UNCHANGED vars
  BY <1>3, PageRests DEF vars, pageVars
<1> QED BY <1>1, <1>2, <1>3 DEF Next

\* What every dashboard has, and has still to apply, is right of every mark no
\* cut write has touched.
THEOREM PageCorrect == Spec => []PageInv
<1>1. Init => PageInv
  BY Nothing DEF Init, PageInv, PageOK, DashOK
<1>2. LogInv /\ PageInv /\ [Next]_vars => PageInv'
  BY PageKeeps
<1> QED BY <1>1, <1>2, LogCorrect, PTL DEF Spec

\* A connected dashboard with nothing under way shows each mark of the file once
\* and no other, unless an answer was overtaken: useControlSocket and the
\* handlers of MarkVictimButton and VictimList, with any dashboards, messages
\* under way, lost connections and crashes of P1.
THEOREM ListsRight == Spec => []ListRight
<1>1. LogInv /\ PageInv => ListRight
  <2> SUFFICES ASSUME LogInv, PageInv, NEW d \in Dash, Quiet(d), loaded[d] = "sound"
               PROVE  /\ ToSet(list[d]) \ apart = OnFile \ apart
                      /\ Cardinality(ToSet(list[d])) = Len(list[d])
    BY DEF ListRight
  <2> DEFINE l == list[d]
  <2>1. l \in Seq(Mark) /\ Distinct(l) /\ ListOK(l, <<>>, MarksOn(file), Sure)
    BY PageTypes DEF DashOK, Quiet
  <2>2. OnFile = MarksOn(file) /\ MarksOn(file) \subseteq Mark
    BY OnFileIs DEF LogInv, Mark
  <2> HIDE DEF l
  <2>3. DOMAIN l = 1 .. Len(l) /\ Len(l) \in Nat /\ \A i \in DOMAIN l : l[i] \in Mark
    BY <2>1, DomainIs
  <2>4. ToSet(l) \subseteq Mark
    BY <2>3 DEF ToSet
  <2>5. \A m \in Sure : m \in ToSet(l) <=> m \in MarksOn(file)
    BY <2>1 DEF ListOK
  <2>6. ToSet(l) \ apart = OnFile \ apart
    BY <2>2, <2>4, <2>5 DEF Sure
  <2>7. Cardinality(ToSet(l)) = Len(l)
    <3>1. l \in Bijection(1 .. Len(l), ToSet(l))
      <4>1. l \in [1 .. Len(l) -> ToSet(l)]
        BY <2>1, <2>3 DEF ToSet
      <4>2. \A m \in ToSet(l) : \E i \in 1 .. Len(l) : l[i] = m
        BY <2>3 DEF ToSet
      <4>3. \A i, j \in 1 .. Len(l) : l[i] = l[j] => i = j
        BY <2>1, <2>3 DEF Distinct
      <4> QED BY <4>1, <4>2, <4>3 DEF Bijection, Injection, Surjection, IsInjective
    <3>2. IsFiniteSet(1 .. Len(l)) /\ Cardinality(1 .. Len(l)) = Len(l)
      BY <2>3, FS_Interval
    <3>3. ExistsBijection(1 .. Len(l), ToSet(l))
      BY <3>1 DEF ExistsBijection
    <3> QED BY <3>2, <3>3, FS_Bijection
  <2> QED BY <2>6, <2>7 DEF l
<1> QED BY <1>1, LogCorrect, PageCorrect, PTL

=============================================================================
