------------------------ MODULE FamilyStrategy_proofs ------------------------
(***************************************************************************)
(* What FamilyStrategy guarantees for every family and its parameters,     *)
(* every risk policy, and any number of bars and restarts.                 *)
(***************************************************************************)
EXTENDS FamilyStrategy, SequenceTheorems, TLAPS
LOCAL INSTANCE SequencesExt
LOCAL INSTANCE WellFoundedInduction

-----------------------------------------------------------------------------
(* Induction over the elements of a sequence, by the least counterexample. *)

LEMMA LeastNumber ==
    ASSUME NEW S \in SUBSET Nat, S # {}
    PROVE  \E m \in S : \A n \in S : m <= n
<1>1. PICK m \in S : \A n \in S : ~ (<<n, m>> \in OpToRel(<, Nat))
  BY NatLessThanWellFounded, WFMin
<1>2. \A n \in S : ~(n < m)
  BY <1>1 DEF OpToRel
<1> QED  BY <1>2

\* A set of positions that holds 0 and, with a position, the next one.
LEMMA UpTo ==
    ASSUME NEW n \in Nat, NEW S \in SUBSET (0 .. n), 0 \in S,
           \A m \in S : m < n => m + 1 \in S
    PROVE  S = 0 .. n
<1> SUFFICES ASSUME S # 0 .. n PROVE FALSE
  OBVIOUS
<1> DEFINE Out == (0 .. n) \ S
<1>1. Out \in SUBSET Nat
  OBVIOUS
<1>0. Out # {}
  <2>1. S \subseteq 0 .. n
    OBVIOUS
  <2> QED  BY <2>1, Zenon
<1>2. PICK m \in Out : \A k \in Out : m <= k
  <2> HIDE DEF Out
  <2> QED  BY <1>0, <1>1, LeastNumber
<1>3. m # 0 /\ m \in 1 .. n /\ m - 1 \in 0 .. n
  OBVIOUS
<1>4. m - 1 \in S
  BY <1>2, <1>3
<1>5. (m - 1) + 1 \in S
  BY <1>3, <1>4
<1> QED  BY <1>3, <1>5

-----------------------------------------------------------------------------
(* The last elements of a sequence.                                        *)

LEMMA LastNType ==
    ASSUME NEW S, NEW s \in Seq(S), NEW n \in Nat
    PROVE  /\ LastN(s, n) \in Seq(S)
           /\ Len(LastN(s, n)) = IF Len(s) <= n THEN Len(s) ELSE n
           /\ \A i \in 1 .. Len(LastN(s, n)) :
                LastN(s, n)[i] = s[Len(s) - Len(LastN(s, n)) + i]
<1>1. CASE Len(s) <= n
  BY <1>1 DEF LastN
<1>2. CASE ~(Len(s) <= n)
  <2>1. LastN(s, n) = SubSeq(s, Len(s) - n + 1, Len(s))
    BY <1>2 DEF LastN
  <2>2. \A i \in Len(s) - n + 1 .. Len(s) : s[i] \in S
    BY <1>2
  <2>3. /\ LastN(s, n) \in Seq(S)
        /\ Len(LastN(s, n)) = n
        /\ \A i \in 1 .. n : LastN(s, n)[i] = s[Len(s) - n + 1 + i - 1]
    BY <1>2, <2>1, <2>2, SubSeqProperties
  <2> QED  BY <1>2, <2>3
<1> QED  BY <1>1, <1>2

\* Trimming a window before a bar is appended loses nothing that is kept after it.
LEMMA LastNAppend ==
    ASSUME NEW S, NEW s \in Seq(S), NEW x \in S, NEW n \in Nat
    PROVE  LastN(Append(LastN(s, n), x), n) = LastN(Append(s, x), n)
<1> DEFINE w == LastN(s, n)
           a == Append(w, x)
           b == Append(s, x)
<1>1. /\ w \in Seq(S) /\ Len(w) = IF Len(s) <= n THEN Len(s) ELSE n
      /\ \A i \in 1 .. Len(w) : w[i] = s[Len(s) - Len(w) + i]
  BY LastNType
<1>2. PICK p \in Nat, q \in Nat : p = Len(s) /\ q = Len(w) /\ q = IF p <= n THEN p ELSE n
  BY <1>1
<1> HIDE DEF w
<1>3. a \in Seq(S) /\ b \in Seq(S)
  BY <1>1
<1>8. /\ Len(a) = q + 1 /\ a[q + 1] = x
      /\ \A i \in 1 .. q : a[i] = w[i]
  BY <1>1, <1>2
<1>9. /\ Len(b) = p + 1 /\ b[p + 1] = x
      /\ \A i \in 1 .. p : b[i] = s[i]
  BY <1>2
<1> HIDE DEF a, b
<1> DEFINE u == LastN(a, n)
           v == LastN(b, n)
<1>4. /\ u \in Seq(S) /\ Len(u) = IF Len(a) <= n THEN Len(a) ELSE n
      /\ \A i \in 1 .. Len(u) : u[i] = a[Len(a) - Len(u) + i]
  BY <1>3, LastNType
<1>5. /\ v \in Seq(S) /\ Len(v) = IF Len(b) <= n THEN Len(b) ELSE n
      /\ \A i \in 1 .. Len(v) : v[i] = b[Len(b) - Len(v) + i]
  BY <1>3, LastNType
<1> HIDE DEF u, v
<1>6. PICK k \in Nat : k = Len(u) /\ k = Len(v) /\ k = IF p + 1 <= n THEN p + 1 ELSE n
  BY <1>2, <1>4, <1>5, <1>8, <1>9
<1>10. k <= q + 1 /\ q <= p
  BY <1>2, <1>6
<1>11. Len(a) - Len(u) = q + 1 - k /\ Len(b) - Len(v) = p + 1 - k
  BY <1>6, <1>8, <1>9
<1>7. ASSUME NEW i \in 1 .. k PROVE u[i] = v[i]
  <2> DEFINE j == q + 1 - k + i
             l == p + 1 - k + i
  <2>1. u[i] = a[j] /\ v[i] = b[l]
    BY <1>4, <1>5, <1>6, <1>11
  <2>2. CASE i = k
    BY <1>8, <1>9, <2>1, <2>2
  <2>3. CASE i < k
    <3>1. j \in 1 .. q /\ l \in 1 .. p /\ l = p - q + j
      BY <1>10, <2>3
    <3> HIDE DEF j, l
    <3>2. a[j] = w[j] /\ b[l] = s[l] /\ w[j] = s[l]
      BY <1>1, <1>2, <1>8, <1>9, <3>1
    <3> QED  BY <2>1, <3>2
  <2> QED  BY <2>2, <2>3
<1> QED  BY <1>4, <1>5, <1>6, <1>7, SeqEqual DEF a, b, u, v, w

\* A shorter window of a window is a window of the whole.
LEMMA LastNLastN ==
    ASSUME NEW S, NEW s \in Seq(S), NEW n \in Nat, NEW m \in Nat, m <= n
    PROVE  LastN(LastN(s, n), m) = LastN(s, m)
<1> DEFINE w == LastN(s, n)
           u == LastN(w, m)
           v == LastN(s, m)
<1>1. /\ w \in Seq(S) /\ Len(w) = IF Len(s) <= n THEN Len(s) ELSE n
      /\ \A i \in 1 .. Len(w) : w[i] = s[Len(s) - Len(w) + i]
  BY LastNType
<1>2. /\ v \in Seq(S) /\ Len(v) = IF Len(s) <= m THEN Len(s) ELSE m
      /\ \A i \in 1 .. Len(v) : v[i] = s[Len(s) - Len(v) + i]
  BY LastNType
<1> HIDE DEF w
<1>3. /\ u \in Seq(S) /\ Len(u) = IF Len(w) <= m THEN Len(w) ELSE m
      /\ \A i \in 1 .. Len(u) : u[i] = w[Len(w) - Len(u) + i]
  BY <1>1, LastNType
<1> HIDE DEF u, v
<1>4. PICK p \in Nat, q \in Nat, k \in Nat :
        /\ p = Len(s) /\ q = Len(w) /\ k = Len(u) /\ k = Len(v)
        /\ k <= q /\ q <= p
  BY <1>1, <1>2, <1>3
<1>5. ASSUME NEW i \in 1 .. k PROVE u[i] = v[i]
  <2> DEFINE j == q - k + i
  <2>1. j \in 1 .. q /\ p - q + j = p - k + i
    BY <1>4
  <2>2. u[i] = w[j] /\ v[i] = s[p - k + i] /\ w[j] = s[p - q + j]
    BY <1>1, <1>2, <1>3, <1>4, <2>1
  <2> HIDE DEF j
  <2> QED  BY <2>1, <2>2
<1> QED  BY <1>2, <1>3, <1>4, <1>5, SeqEqual DEF u, v, w

CloseSet(S) == {x.close : x \in S}

LEMMA ClosesType ==
    ASSUME NEW S, NEW s \in Seq(S)
    PROVE  /\ Closes(s) \in Seq(CloseSet(S)) /\ Len(Closes(s)) = Len(s)
           /\ \A i \in 1 .. Len(s) : Closes(s)[i] = s[i].close
<1>1. Closes(s) = [i \in 1 .. Len(s) |-> s[i].close]
  BY DEF Closes
<1>2. \A i \in 1 .. Len(s) : s[i].close \in CloseSet(S)
  BY DEF CloseSet
<1>3. Len(s) \in Nat
  OBVIOUS
<1>4. Closes(s) \in [1 .. Len(s) -> CloseSet(S)]
  BY <1>1, <1>2
<1>5. Closes(s) \in Seq(CloseSet(S))
  BY <1>3, <1>4, SeqDef
<1> QED  BY <1>1, <1>3, <1>4, <1>5, LenProperties

LEMMA ClosesAppend ==
    ASSUME NEW S, NEW s \in Seq(S), NEW x \in S
    PROVE  Closes(Append(s, x)) = Append(Closes(s), x.close)
<1> DEFINE a == Append(s, x)
<1>0. x.close \in CloseSet(S)
  BY DEF CloseSet
<1>1. /\ a \in Seq(S) /\ Len(a) = Len(s) + 1 /\ a[Len(s) + 1] = x
      /\ \A i \in 1 .. Len(s) : a[i] = s[i]
  OBVIOUS
<1> HIDE DEF a
<1>2. /\ Closes(a) \in Seq(CloseSet(S)) /\ Len(Closes(a)) = Len(a)
      /\ \A i \in 1 .. Len(a) : Closes(a)[i] = a[i].close
      /\ Closes(s) \in Seq(CloseSet(S)) /\ Len(Closes(s)) = Len(s)
      /\ \A i \in 1 .. Len(s) : Closes(s)[i] = s[i].close
  BY <1>1, ClosesType
<1> DEFINE c == Append(Closes(s), x.close)
<1>3. /\ c \in Seq(CloseSet(S)) /\ Len(c) = Len(s) + 1 /\ c[Len(s) + 1] = x.close
      /\ \A i \in 1 .. Len(s) : c[i] = Closes(s)[i]
  BY <1>0, <1>2, AppendProperties
<1> HIDE DEF c
<1>4. ASSUME NEW i \in 1 .. Len(Closes(a)) PROVE Closes(a)[i] = c[i]
  <2>1. Len(s) \in Nat
    OBVIOUS
  <2>2. CASE i = Len(s) + 1
    BY <1>1, <1>2, <1>3, <2>2
  <2>3. CASE i \in 1 .. Len(s)
    BY <1>1, <1>2, <1>3, <2>1, <2>3
  <2> QED  BY <1>1, <1>2, <2>1, <2>2, <2>3
<1>5. Closes(a) = c
  BY <1>1, <1>2, <1>3, <1>4, SeqEqual
<1> QED  BY <1>5 DEF a, c

LEMMA ClosesLastN ==
    ASSUME NEW S, NEW s \in Seq(S), NEW n \in Nat
    PROVE  Closes(LastN(s, n)) = LastN(Closes(s), n)
<1> DEFINE w == LastN(s, n)
           c == Closes(s)
<1>1. /\ w \in Seq(S) /\ Len(w) = IF Len(s) <= n THEN Len(s) ELSE n
      /\ \A i \in 1 .. Len(w) : w[i] = s[Len(s) - Len(w) + i]
  BY LastNType
<1>2. c \in Seq(CloseSet(S)) /\ Len(c) = Len(s) /\ \A i \in 1 .. Len(s) : c[i] = s[i].close
  BY ClosesType
<1> HIDE DEF w, c
<1>3. /\ Closes(w) \in Seq(CloseSet(S)) /\ Len(Closes(w)) = Len(w)
      /\ \A i \in 1 .. Len(w) : Closes(w)[i] = w[i].close
  BY <1>1, ClosesType
<1>4. /\ LastN(c, n) \in Seq(CloseSet(S)) /\ Len(LastN(c, n)) = IF Len(c) <= n THEN Len(c) ELSE n
      /\ \A i \in 1 .. Len(LastN(c, n)) : LastN(c, n)[i] = c[Len(c) - Len(LastN(c, n)) + i]
  BY <1>2, LastNType
<1>5. Len(s) \in Nat
  OBVIOUS
<1>6. Len(LastN(c, n)) = Len(w)
  BY <1>1, <1>2, <1>4
<1>7. ASSUME NEW i \in 1 .. Len(w) PROVE Closes(w)[i] = LastN(c, n)[i]
  <2> DEFINE k == Len(s) - Len(w) + i
  <2>1. k \in 1 .. Len(s)
    BY <1>1, <1>5
  <2>2. Closes(w)[i] = s[k].close /\ LastN(c, n)[i] = c[k]
    BY <1>1, <1>2, <1>3, <1>4, <1>6
  <2> HIDE DEF k
  <2> QED  BY <1>2, <2>1, <2>2
<1>8. Closes(w) = LastN(c, n)
  BY <1>3, <1>4, <1>6, <1>7, SeqEqual
<1> QED  BY <1>8 DEF w, c

-----------------------------------------------------------------------------
(* What an evaluator holds after a history.                                *)

Holds(r, bars) ==
  [window |-> LastN(bars, Warmup(r)),
   last |-> IF bars = <<>> THEN 0 ELSE bars[Len(bars)].ts,
   trend |-> IF r.family = "regime"
             THEN LastN(Closes(bars), r.parameters.trend_window_bars) ELSE <<>>,
   momentum |-> IF r.family = "regime"
                THEN LastN(Closes(bars), r.parameters.momentum_lookback_bars) ELSE <<>>]

\* The windows of the regime family are no longer than its warm-up.
LEMMA WarmupType ==
    ASSUME NEW r, ValidRule(r)
    PROVE  /\ Warmup(r) \in Nat \ {0}
           /\ r.family = "regime" =>
                /\ r.parameters.trend_window_bars \in 1 .. Warmup(r)
                /\ r.parameters.momentum_lookback_bars \in 1 .. Warmup(r)
<1> DEFINE p == r.parameters
<1>0. MaxBars \in Nat
  BY DEF MaxBars
<1>1. CASE r.family = "momentum"
  <2>1. p.lookback_bars \in 1 .. MaxBars
    BY <1>1 DEF ValidRule, MomentumParameters
  <2> QED  BY <1>0, <1>1, <2>1 DEF Warmup
<1>2. CASE r.family = "trend"
  <2>1. p.window_bars \in 2 .. MaxBars
    BY <1>2 DEF ValidRule, TrendParameters
  <2> QED  BY <1>0, <1>2, <2>1 DEF Warmup
<1>3. CASE r.family = "dual"
  <2>1. p.slow_window_bars \in 2 .. MaxBars
    BY <1>3 DEF ValidRule, DualParameters
  <2> QED  BY <1>0, <1>3, <2>1 DEF Warmup
<1>4. CASE r.family = "regime"
  <2>1. p.trend_window_bars \in 2 .. MaxBars /\ p.momentum_lookback_bars \in 1 .. MaxBars
    BY <1>4 DEF ValidRule, RegimeParameters
  <2>2. Warmup(r) = IF p.momentum_lookback_bars > p.trend_window_bars
                    THEN p.momentum_lookback_bars ELSE p.trend_window_bars
    BY <1>4 DEF Warmup
  <2> HIDE DEF p
  <2>3. /\ Warmup(r) \in Nat \ {0}
        /\ p.trend_window_bars \in 1 .. Warmup(r)
        /\ p.momentum_lookback_bars \in 1 .. Warmup(r)
    BY <1>0, <2>1, <2>2
  <2> QED  BY <2>3 DEF p
<1>5. CASE r.family = "skip"
  <2>1. p.formation_lookback_bars \in 2 .. MaxBars
    BY <1>5 DEF ValidRule, SkipParameters
  <2> QED  BY <1>0, <1>5, <2>1 DEF Warmup
<1>6. CASE r.family = "ibs"
  BY <1>6, DayBarsAssumption DEF ValidRule, Warmup
<1>7. CASE r.family = "reversion"
  <2>1. p.window_bars \in 2 .. MaxBars
    BY <1>7 DEF ValidRule, ReversionParameters
  <2> QED  BY <1>0, <1>7, <2>1 DEF Warmup
<1> QED  BY <1>1, <1>2, <1>3, <1>4, <1>5, <1>6, <1>7 DEF ValidRule

LEMMA HoldsNothing ==
    ASSUME NEW r, ValidRule(r)
    PROVE  Holds(r, <<>>) = NewEvaluator
<1>1. \A n \in Nat : LastN(<<>>, n) = <<>>
  BY DEF LastN
<1>2. Closes(<<>>) = <<>>
  BY DEF Closes
<1> QED  BY <1>1, <1>2, WarmupType DEF Holds, NewEvaluator

\* A push takes what a history left to what the history and the bar leave.
LEMMA PushHolds ==
    ASSUME NEW r, ValidRule(r), NEW S, NEW s \in Seq(S), NEW b \in S
    PROVE  Push(r, Holds(r, s), b) = Holds(r, Append(s, b))
<1> DEFINE n == Warmup(r)
           e == Holds(r, s)
           w == LastN(Append(s, b), n)
           f == [window |-> w, last |-> b.ts, trend |-> e.trend, momentum |-> e.momentum]
           t == r.parameters.trend_window_bars
           m == r.parameters.momentum_lookback_bars
<1>1. n \in Nat
  BY WarmupType
<1>2. LastN(Append(e.window, b), n) = w
  BY <1>1, LastNAppend DEF Holds
<1>3. Append(s, b) # <<>> /\ Append(s, b)[Len(Append(s, b))] = b
  OBVIOUS
<1>4. PICK old, last, trend, momentum :
        e = [window |-> old, last |-> last, trend |-> trend, momentum |-> momentum]
  BY DEF Holds
<1> HIDE DEF e, w
<1>5. [e EXCEPT !.window = LastN(Append(@, b), n), !.last = b.ts] = f
  <2>1. LastN(Append(old, b), n) = w
    BY <1>2, <1>4
  <2>2. PICK u : u = [e EXCEPT !.window = LastN(Append(@, b), n), !.last = b.ts]
    OBVIOUS
  <2>3. u = [window |-> LastN(Append(old, b), n), last |-> b.ts, trend |-> trend,
             momentum |-> momentum]
    BY <1>4, <2>2
  <2> QED  BY <1>4, <2>1, <2>2, <2>3
<1>6. Push(r, e, b) = Track(r, f, b.close)
  BY <1>5 DEF Push
<1>7. CASE r.family # "regime"
  <2>1. Push(r, e, b) = f /\ e.trend = <<>> /\ e.momentum = <<>>
    BY <1>6, <1>7 DEF Track, e, Holds
  <2> QED  BY <1>3, <1>7, <2>1 DEF Holds, e, w
<1>8. CASE r.family = "regime"
  <2>1. t \in Nat /\ m \in Nat
    BY <1>8, WarmupType
  <2>2. Closes(s) \in Seq(CloseSet(S)) /\ b.close \in CloseSet(S)
    BY ClosesType DEF CloseSet
  <2>3. Closes(Append(s, b)) = Append(Closes(s), b.close)
    BY ClosesAppend
  <2>4. e.trend = LastN(Closes(s), t) /\ e.momentum = LastN(Closes(s), m)
    BY <1>8 DEF e, Holds
  <2>5. /\ LastN(Append(e.trend, b.close), t) = LastN(Closes(Append(s, b)), t)
        /\ LastN(Append(e.momentum, b.close), m) = LastN(Closes(Append(s, b)), m)
    BY <2>1, <2>2, <2>3, <2>4, LastNAppend
  <2>6. Push(r, e, b) = [f EXCEPT !.trend = LastN(Append(@, b.close), t),
                                  !.momentum = LastN(Append(@, b.close), m)]
    BY <1>6, <1>8 DEF Track
  <2>7. Push(r, e, b) =
          [window |-> w, last |-> b.ts, trend |-> LastN(Closes(Append(s, b)), t),
           momentum |-> LastN(Closes(Append(s, b)), m)]
    BY <2>5, <2>6
  <2> QED  BY <1>3, <1>8, <2>7 DEF Holds, e, w
<1> QED  BY <1>7, <1>8 DEF e

\* A prefix of a history, and the bar that makes it one longer.
LEMMA PrefixAppend ==
    ASSUME NEW S, NEW s \in Seq(S), NEW i \in 0 .. Len(s), i < Len(s)
    PROVE  /\ SubSeq(s, 1, i) \in Seq(S) /\ Len(SubSeq(s, 1, i)) = i
           /\ s[i + 1] \in S
           /\ SubSeq(s, 1, i + 1) = Append(SubSeq(s, 1, i), s[i + 1])
           /\ SubSeq(s, 1, 0) = <<>>
<1>1. i \in Nat /\ Len(s) \in Nat /\ i + 1 \in 1 .. Len(s)
  OBVIOUS
<1>2. s[i + 1] \in S /\ \A k \in 1 .. i + 1 : s[k] \in S
  BY <1>1, ElementOfSeq
<1> DEFINE p == SubSeq(s, 1, i)
           q == SubSeq(s, 1, i + 1)
<1>3. p \in Seq(S) /\ Len(p) = i /\ \A k \in 1 .. i : p[k] = s[k]
  BY <1>1, <1>2, SubSeqProperties
<1>4. q \in Seq(S) /\ Len(q) = i + 1 /\ \A k \in 1 .. i + 1 : q[k] = s[k]
  BY <1>1, <1>2, SubSeqProperties
<1>5. SubSeq(s, 1, 0) = <<>>
  BY SubSeqEmpty
<1> HIDE DEF p, q
<1>6. q = Append(p, s[i + 1])
  <2> DEFINE a == Append(p, s[i + 1])
  <2>1. /\ a \in Seq(S) /\ Len(a) = i + 1 /\ a[i + 1] = s[i + 1]
        /\ \A k \in 1 .. i : a[k] = p[k]
    BY <1>2, <1>3
  <2> HIDE DEF a
  <2>2. ASSUME NEW k \in 1 .. Len(q) PROVE q[k] = a[k]
    <3>1. CASE k = i + 1
      BY <1>4, <2>1, <3>1
    <3>2. CASE k \in 1 .. i
      BY <1>3, <1>4, <2>1, <3>2
    <3> QED  BY <1>1, <1>4, <3>1, <3>2
  <2>3. q = a
    BY <1>4, <2>1, <2>2, SeqEqual
  <2> QED  BY <2>3 DEF a
<1> QED  BY <1>2, <1>3, <1>5, <1>6 DEF p, q

\* Two recursions over the positions of a history that start alike and step alike.
LEMMA SameRecursion ==
    ASSUME NEW n \in Nat, NEW f, NEW g, f[0] = g[0],
           \A m \in 0 .. n - 1 : f[m] = g[m] => f[m + 1] = g[m + 1]
    PROVE  \A m \in 0 .. n : f[m] = g[m]
<1> DEFINE S == {m \in 0 .. n : f[m] = g[m]}
<1>1. S \in SUBSET (0 .. n) /\ 0 \in S
  OBVIOUS
<1>2. \A m \in S : m < n => m + 1 \in S
  OBVIOUS
<1> HIDE DEF S
<1>3. S = 0 .. n
  BY <1>1, <1>2, UpTo
<1> QED  BY <1>3 DEF S

LEMMA PushesHolds ==
    ASSUME NEW r, ValidRule(r), NEW S, NEW s \in Seq(S)
    PROVE  \A i \in 0 .. Len(s) : Pushes(r, s)[i] = Holds(r, SubSeq(s, 1, i))
<1> DEFINE n == Len(s)
           g == [i \in 0 .. n |-> Holds(r, SubSeq(s, 1, i))]
           f == Pushes(r, s)
<1>0. n \in Nat
  OBVIOUS
<1>1. g[0] = NewEvaluator
  <2>1. SubSeq(s, 1, 0) = <<>>
    BY SubSeqEmpty
  <2>2. g[0] = Holds(r, SubSeq(s, 1, 0))
    BY <1>0
  <2> QED  BY <2>1, <2>2, HoldsNothing
<1>2. ASSUME NEW m \in 0 .. n - 1 PROVE g[m + 1] = Push(r, g[m], s[m + 1])
  <2>1. m \in 0 .. Len(s) /\ m < Len(s) /\ m + 1 \in 0 .. n
    BY <1>0
  <2>2. /\ SubSeq(s, 1, m) \in Seq(S) /\ s[m + 1] \in S
        /\ SubSeq(s, 1, m + 1) = Append(SubSeq(s, 1, m), s[m + 1])
    BY <2>1, PrefixAppend
  <2>3. g[m + 1] = Holds(r, SubSeq(s, 1, m + 1)) /\ g[m] = Holds(r, SubSeq(s, 1, m))
    BY <1>0, <2>1
  <2> HIDE DEF g
  <2>4. Push(r, Holds(r, SubSeq(s, 1, m)), s[m + 1]) =
          Holds(r, Append(SubSeq(s, 1, m), s[m + 1]))
    BY <2>2, PushHolds
  <2> QED  BY <2>2, <2>3, <2>4
<1>3. g = [i \in 0 .. n |-> IF i = 0 THEN NewEvaluator ELSE Push(r, g[i - 1], s[i])]
  <2>1. ASSUME NEW i \in 0 .. n
        PROVE  g[i] = IF i = 0 THEN NewEvaluator ELSE Push(r, g[i - 1], s[i])
    <3>1. CASE i = 0
      BY <1>1, <3>1
    <3>2. CASE i # 0
      <4>1. i - 1 \in 0 .. n - 1 /\ (i - 1) + 1 = i
        BY <1>0, <3>2
      <4> HIDE DEF g
      <4> QED  BY <1>2, <3>2, <4>1
    <3> QED  BY <3>1, <3>2
  <2> QED  BY <2>1
<1> HIDE DEF g
<1>4. f = [i \in 0 .. n |-> IF i = 0 THEN NewEvaluator ELSE Push(r, f[i - 1], s[i])]
  BY <1>3, Zenon DEF Pushes
<1> HIDE DEF f, n
<1>5. f[0] = g[0]
  BY <1>0, <1>1, <1>4
<1>6. ASSUME NEW m \in 0 .. n - 1, f[m] = g[m] PROVE f[m + 1] = g[m + 1]
  <2>1. m + 1 \in 0 .. n /\ m + 1 # 0 /\ (m + 1) - 1 = m
    BY <1>0
  <2>2. f[m + 1] = Push(r, f[m], s[m + 1])
    BY <1>4, <2>1
  <2> QED  BY <1>2, <1>6, <2>2
<1>7. \A i \in 0 .. n : f[i] = g[i]
  BY <1>0, <1>5, <1>6, SameRecursion
<1> QED  BY <1>7 DEF f, g, n

-----------------------------------------------------------------------------
(* The batch evaluation.                                                   *)

LEMMA BatchWindowsExact ==
    ASSUME NEW r, ValidRule(r), r.family = "regime", NEW S, NEW s \in Seq(S)
    PROVE  BatchWindows(r, s) =
             [trend |-> LastN(Closes(s), r.parameters.trend_window_bars),
              momentum |-> LastN(Closes(s), r.parameters.momentum_lookback_bars)]
<1> DEFINE n == Len(s)
           t == r.parameters.trend_window_bars
           l == r.parameters.momentum_lookback_bars
           kept(bars) == [trend |-> LastN(Closes(bars), t), momentum |-> LastN(Closes(bars), l)]
           none == [trend |-> <<>>, momentum |-> <<>>]
           next(w, b) == [trend |-> LastN(Append(w.trend, b.close), t),
                          momentum |-> LastN(Append(w.momentum, b.close), l)]
           g == [i \in 0 .. n |-> kept(SubSeq(s, 1, i))]
           f == CHOOSE f : f = [i \in 0 .. n |-> IF i = 0 THEN none ELSE next(f[i - 1], s[i])]
<1>0. n \in Nat /\ t \in Nat /\ l \in Nat
  BY WarmupType
<1>1. ASSUME NEW p \in Seq(S), NEW b \in S PROVE kept(Append(p, b)) = next(kept(p), b)
  <2>1. Closes(p) \in Seq(CloseSet(S)) /\ b.close \in CloseSet(S)
    BY ClosesType DEF CloseSet
  <2>2. Closes(Append(p, b)) = Append(Closes(p), b.close)
    BY ClosesAppend
  <2>3. /\ LastN(Append(LastN(Closes(p), t), b.close), t) = LastN(Closes(Append(p, b)), t)
        /\ LastN(Append(LastN(Closes(p), l), b.close), l) = LastN(Closes(Append(p, b)), l)
    BY <1>0, <2>1, <2>2, LastNAppend
  <2> QED  BY <2>3
<1>2. kept(<<>>) = none
  <2>1. Closes(<<>>) = <<>>
    BY DEF Closes
  <2>2. LastN(<<>>, t) = <<>> /\ LastN(<<>>, l) = <<>>
    BY <1>0 DEF LastN
  <2> QED  BY <2>1, <2>2
<1> HIDE DEF kept, next, none
<1>3. g[0] = none
  <2>1. SubSeq(s, 1, 0) = <<>>
    BY SubSeqEmpty
  <2>2. g[0] = kept(SubSeq(s, 1, 0))
    BY <1>0
  <2> HIDE DEF g
  <2> QED  BY <1>2, <2>1, <2>2
<1>4. ASSUME NEW m \in 0 .. n - 1 PROVE g[m + 1] = next(g[m], s[m + 1])
  <2>1. m \in 0 .. Len(s) /\ m < Len(s) /\ m + 1 \in 0 .. n
    BY <1>0
  <2>2. /\ SubSeq(s, 1, m) \in Seq(S) /\ s[m + 1] \in S
        /\ SubSeq(s, 1, m + 1) = Append(SubSeq(s, 1, m), s[m + 1])
    BY <2>1, PrefixAppend
  <2>3. g[m + 1] = kept(SubSeq(s, 1, m + 1)) /\ g[m] = kept(SubSeq(s, 1, m))
    BY <1>0, <2>1
  <2> HIDE DEF g
  <2>4. kept(Append(SubSeq(s, 1, m), s[m + 1])) = next(kept(SubSeq(s, 1, m)), s[m + 1])
    BY <1>1, <2>2
  <2> QED  BY <2>2, <2>3, <2>4
<1>5. g = [i \in 0 .. n |-> IF i = 0 THEN none ELSE next(g[i - 1], s[i])]
  <2>1. ASSUME NEW i \in 0 .. n
        PROVE  g[i] = IF i = 0 THEN none ELSE next(g[i - 1], s[i])
    <3>1. CASE i = 0
      BY <1>3, <3>1
    <3>2. CASE i # 0
      <4>1. i - 1 \in 0 .. n - 1 /\ (i - 1) + 1 = i
        BY <1>0, <3>2
      <4> HIDE DEF g
      <4> QED  BY <1>4, <3>2, <4>1
    <3> QED  BY <3>1, <3>2
  <2> QED  BY <2>1
<1>9. g[n] = kept(s)
  <2>1. SubSeq(s, 1, n) = s
    BY SubSeqFull
  <2>2. g[n] = kept(SubSeq(s, 1, n))
    BY <1>0
  <2> HIDE DEF g
  <2> QED  BY <2>1, <2>2
<1> HIDE DEF g
<1>6. f = [i \in 0 .. n |-> IF i = 0 THEN none ELSE next(f[i - 1], s[i])]
  BY <1>5, Zenon
<1>7. BatchWindows(r, s) = f[n]
  BY Zenon DEF BatchWindows, none, next
<1> HIDE DEF f, n
<1>8. \A i \in 0 .. n : f[i] = g[i]
  <2>1. f[0] = g[0]
    BY <1>0, <1>3, <1>6
  <2>2. ASSUME NEW m \in 0 .. n - 1, f[m] = g[m] PROVE f[m + 1] = g[m + 1]
    <3>1. m + 1 \in 0 .. n /\ m + 1 # 0 /\ (m + 1) - 1 = m
      BY <1>0
    <3>2. f[m + 1] = next(f[m], s[m + 1])
      BY <1>6, <3>1
    <3> QED  BY <1>4, <2>2, <3>2
  <2> HIDE DEF g
  <2>3. \A m \in 0 .. n - 1 : f[m] = g[m] => f[m + 1] = g[m + 1]
    BY <2>2
  <2>4. n \in Nat
    BY <1>0
  <2> QED  BY ONLY <2>1, <2>3, <2>4, SameRecursion
<1> QED  BY <1>0, <1>7, <1>8, <1>9 DEF kept

\* A full window decides LONG, FLAT or not at all.
LEMMA EvaluationType ==
    ASSUME NEW r, ValidRule(r), NEW bars, NEW momentum, NEW trend, NEW p
    PROVE  /\ Evaluate(r, bars) \in {"LONG", "FLAT", "RAISED"}
           /\ RegimeDecision(momentum, trend, p) \in {"LONG", "FLAT"}
<1>1. \A x : Intent(x) \in {"LONG", "FLAT"}
  BY DEF Intent
<1>2. \A q : IbsEvaluation(bars, q) \in {"LONG", "FLAT", "RAISED"}
  BY <1>1 DEF IbsEvaluation
<1>3. Evaluate(r, bars) \in {"LONG", "FLAT", "RAISED"}
  BY <1>1, <1>2 DEF Evaluate, ValidRule, MomentumEvaluation, TrendEvaluation,
     DualEvaluation, RegimeEvaluation, RegimeDecision, SkipEvaluation, ReversionEvaluation
<1> QED  BY <1>1, <1>3 DEF RegimeDecision

\* An evaluator answers NONE exactly while it has heard less than its warm-up.
LEMMA WarmingUp ==
    ASSUME NEW r, ValidRule(r), NEW S, NEW s \in Seq(S)
    PROVE  /\ Decision(r, Holds(r, s)) \in {"NONE", "LONG", "FLAT", "RAISED"}
           /\ Decision(r, Holds(r, s)) = "NONE" <=> Len(s) < Warmup(r)
<1> DEFINE e == Holds(r, s)
<1>1. Warmup(r) \in Nat /\ Len(s) \in Nat
  BY WarmupType
<1>2. Len(e.window) = IF Len(s) <= Warmup(r) THEN Len(s) ELSE Warmup(r)
  BY <1>1, LastNType DEF Holds
<1> HIDE DEF e
<1>3. Decision(r, e) = "NONE" \/ Decision(r, e) \in {"LONG", "FLAT", "RAISED"}
  BY EvaluationType DEF Decision
<1>4. Decision(r, e) = "NONE" <=> Len(e.window) < Warmup(r)
  BY EvaluationType DEF Decision
<1> QED  BY <1>1, <1>2, <1>3, <1>4 DEF e

\* After the warm-up an evaluator answers what the batch decides for the same bars.
LEMMA BatchIsLive ==
    ASSUME NEW r, ValidRule(r), NEW S, NEW s \in Seq(S), Len(s) >= Warmup(r)
    PROVE  BatchDecision(r, s) = Decision(r, Holds(r, s))
<1> DEFINE e == Holds(r, s)
<1>1. Warmup(r) \in Nat /\ Len(s) \in Nat
  BY WarmupType
<1>2. e.window = LastN(s, Warmup(r)) /\ Len(e.window) = Warmup(r)
  BY <1>1, LastNType DEF Holds
<1>3. CASE r.family = "regime"
  <2>1. BatchWindows(r, s).trend = e.trend /\ BatchWindows(r, s).momentum = e.momentum
    BY <1>3, BatchWindowsExact DEF Holds
  <2> HIDE DEF e
  <2> QED  BY <1>1, <1>2, <1>3, <2>1 DEF BatchDecision, Decision, e
<1>4. CASE r.family # "regime"
  <2> HIDE DEF e
  <2>1. Decision(r, e) = Evaluate(r, LastN(s, Warmup(r)))
    BY <1>1, <1>2, <1>4 DEF Decision
  <2> QED  BY <1>4, <2>1 DEF BatchDecision, e
<1> QED  BY <1>3, <1>4

\* The two windows of the fast path hold what the registered evaluation looks at.
LEMMA FastPath ==
    ASSUME NEW r, ValidRule(r), r.family = "regime", NEW S, NEW s \in Seq(S)
    PROVE  /\ BatchDecision(r, s) = Evaluate(r, LastN(s, Warmup(r)))
           /\ BatchDecision(r, s) # "RAISED"
<1> DEFINE n == Warmup(r)
           t == r.parameters.trend_window_bars
           l == r.parameters.momentum_lookback_bars
<1>1. n \in Nat /\ t \in Nat /\ l \in Nat /\ t <= n /\ l <= n
  BY WarmupType
<1>2. Closes(s) \in Seq(CloseSet(S)) /\ Closes(LastN(s, n)) = LastN(Closes(s), n)
  BY <1>1, ClosesType, ClosesLastN
<1>3. /\ LastN(Closes(LastN(s, n)), t) = LastN(Closes(s), t)
      /\ LastN(Closes(LastN(s, n)), l) = LastN(Closes(s), l)
  BY <1>1, <1>2, LastNLastN
<1>4. BatchDecision(r, s) =
        RegimeDecision(LastN(Closes(s), l), LastN(Closes(s), t), r.parameters)
  BY BatchWindowsExact DEF BatchDecision
<1>5. Evaluate(r, LastN(s, n)) = RegimeEvaluation(Closes(LastN(s, n)), r.parameters)
  BY DEF Evaluate
<1>6. Evaluate(r, LastN(s, n)) =
        RegimeDecision(LastN(Closes(s), l), LastN(Closes(s), t), r.parameters)
  BY <1>3, <1>5 DEF RegimeEvaluation
<1> QED  BY <1>4, <1>6, EvaluationType

\* A restored evaluator, fed the window of another one, holds what that one held.
LEMMA RestoreHolds ==
    ASSUME NEW r, ValidRule(r), NEW S, NEW s \in Seq(S)
    PROVE  RestoreIncremental(r, KernelSnapshot(Holds(r, s))) = Holds(r, s)
<1> DEFINE n == Warmup(r)
           w == LastN(s, n)
           t == r.parameters.trend_window_bars
           l == r.parameters.momentum_lookback_bars
<1>1. n \in Nat \ {0} /\ Len(s) \in Nat
  BY WarmupType
<1>2. /\ w \in Seq(S) /\ Len(w) = IF Len(s) <= n THEN Len(s) ELSE n
      /\ \A i \in 1 .. Len(w) : w[i] = s[Len(s) - Len(w) + i]
  BY <1>1, LastNType
<1>3. LastN(w, n) = w
  BY <1>1, LastNLastN
<1>4. r.family = "regime" => /\ LastN(Closes(w), t) = LastN(Closes(s), t)
                             /\ LastN(Closes(w), l) = LastN(Closes(s), l)
  <2> SUFFICES ASSUME r.family = "regime"
               PROVE  /\ LastN(Closes(w), t) = LastN(Closes(s), t)
                      /\ LastN(Closes(w), l) = LastN(Closes(s), l)
    OBVIOUS
  <2>1. t \in Nat /\ l \in Nat /\ t <= n /\ l <= n
    BY WarmupType
  <2>2. Closes(s) \in Seq(CloseSet(S)) /\ Closes(w) = LastN(Closes(s), n)
    BY <1>1, ClosesType, ClosesLastN
  <2> QED  BY <1>1, <2>1, <2>2, LastNLastN
<1> HIDE DEF w
<1>5. (w = <<>>) <=> (s = <<>>)
  BY <1>1, <1>2, EmptySeq
<1>6. s # <<>> => w[Len(w)] = s[Len(s)]
  <2> SUFFICES ASSUME s # <<>> PROVE w[Len(w)] = s[Len(s)]
    OBVIOUS
  <2>1. Len(s) \in Nat \ {0}
    BY EmptySeq
  <2>2. Len(w) \in 1 .. Len(w) /\ Len(s) - Len(w) + Len(w) = Len(s)
    BY <1>1, <1>2, <2>1
  <2> QED  BY <1>2, <2>2
<1>7. Holds(r, w) = Holds(r, s)
  <2>1. Holds(r, s).window = w
    BY DEF Holds, w
  <2> QED  BY <1>3, <1>4, <1>5, <1>6 DEF Holds, w
<1>8. Pushes(r, w)[Len(w)] = Holds(r, SubSeq(w, 1, Len(w)))
  BY <1>1, <1>2, PushesHolds
<1>9. SubSeq(w, 1, Len(w)) = w
  BY <1>2, SubSeqFull
<1>10. KernelSnapshot(Holds(r, s)).window = w
  BY DEF KernelSnapshot, Holds, w
<1> QED  BY <1>7, <1>8, <1>9, <1>10 DEF RestoreIncremental

-----------------------------------------------------------------------------
(* The intents and the orders.                                              *)

Intents == {"LONG", "FLAT"}

\* Recorded intents alternate, from LONG, and the last of them is the current one.
Alternating(is, i) ==
  /\ is \in Seq(Intents)
  /\ i \in Intents
  /\ \A k \in 1 .. Len(is) : is[k] = IF k % 2 = 1 THEN "LONG" ELSE "FLAT"
  /\ i = IF Len(is) % 2 = 1 THEN "LONG" ELSE "FLAT"

\* The intents a strategy or a snapshot holds.
IntentsHeld(is, i) ==
  /\ Paper => Alternating(is, i)
  /\ ~Paper => is = <<>> /\ i \in Intents

IntentInv ==
  /\ deployment \in Deployments
  /\ IntentsHeld(intents, intent)
  /\ saved # None => IntentsHeld(saved.intents, saved.intent)

\* Orders exist only for a Paper strategy with an identity; a killed one has none.
VenueInv ==
  /\ pending \in Seq({"BUY", "SELL"})
  /\ position \in Nat
  /\ bound \in BOOLEAN
  /\ bound => deployment.quantity # None
  /\ pending # <<>> \/ position > 0 => Paper /\ bound
  /\ phase = "down" => pending = <<>> /\ position = 0 /\ incidents = {}
  /\ phase = "stopped" /\ Paper => intent = "FLAT"

\* Without an incident the open orders lead from the position to the intent.
Follows ==
  /\ position \in {0, 1}
  /\ pending # <<>> /\ Head(pending) = "BUY" => position = 0
  /\ \A k \in 1 .. Len(pending) - 1 : pending[k] # pending[k + 1]
  /\ pending # <<>> => pending[Len(pending)] = Order(intent)
  /\ pending = <<>> /\ bound /\ intent = "FLAT" => position = 0

OrderInv == VenueInv /\ (incidents = {} => Follows)

Inv == IntentInv /\ OrderInv

-----------------------------------------------------------------------------
\* A family that accepts its parameters answers with one of four words.
LEMMA DecisionType ==
    ASSUME NEW r, ValidRule(r), NEW e
    PROVE  Decision(r, e) \in {"NONE", "LONG", "FLAT", "RAISED"}
  BY EvaluationType DEF Decision

\* Recording the other intent keeps the intents alternating.
LEMMA AlternatingAppend ==
    ASSUME NEW is, NEW i, Alternating(is, i), NEW j \in Intents, j # i
    PROVE  Alternating(Append(is, j), j)
<1> DEFINE js == Append(is, j)
<1>1. js \in Seq(Intents) /\ Len(js) = Len(is) + 1 /\ js[Len(js)] = j
      /\ \A k \in 1 .. Len(is) : js[k] = is[k]
  BY DEF Alternating
<1>2. Len(is) \in Nat
  BY DEF Alternating
<1>3. j = IF Len(js) % 2 = 1 THEN "LONG" ELSE "FLAT"
  BY <1>1, <1>2 DEF Alternating, Intents
<1>4. \A k \in 1 .. Len(js) : js[k] = IF k % 2 = 1 THEN "LONG" ELSE "FLAT"
  BY <1>1, <1>2, <1>3 DEF Alternating
<1> QED  BY <1>1, <1>3, <1>4 DEF Alternating

\* So does Flatten, which records FLAT when the intent is LONG.
LEMMA FlattenHeld ==
    ASSUME IntentInv, Flatten, UNCHANGED deployment
    PROVE  IntentsHeld(intents, intent)'
<1>1. Paper' = Paper
  BY DEF Paper
<1>2. CASE Paper /\ intent = "LONG"
  <2>1. Alternating(intents, "LONG")
    BY <1>2 DEF IntentInv, IntentsHeld
  <2>2. Alternating(Append(intents, "FLAT"), "FLAT")
    BY <2>1, AlternatingAppend DEF Intents
  <2> QED  BY <1>1, <1>2, <2>2 DEF Flatten, IntentsHeld
<1>3. CASE Paper /\ intent # "LONG"
  <2>1. Alternating(intents, "FLAT")
    BY <1>3 DEF IntentInv, IntentsHeld, Alternating, Intents
  <2> QED  BY <1>1, <1>3, <2>1 DEF Flatten, IntentsHeld
<1>4. CASE ~Paper
  BY <1>1, <1>4 DEF Flatten, IntentInv, IntentsHeld
<1> QED  BY <1>2, <1>3, <1>4

LEMMA NothingHeld == IntentsHeld(<<>>, "FLAT")
  BY DEF IntentsHeld, Alternating, Intents

LEMMA InvInit == Init => Inv
<1> SUFFICES ASSUME Init PROVE Inv
  OBVIOUS
<1>1. IntentInv
  BY DEF Init, IntentInv, IntentsHeld, Alternating, Intents
<1>2. VenueInv
  <2>1. bound \in BOOLEAN /\ (bound => deployment.quantity # None)
    BY Zenon DEF Init
  <2>2. pending = <<>> /\ position = 0 /\ phase = "running"
    BY DEF Init
  <2> QED  BY <2>1, <2>2 DEF VenueInv
<1>3. Follows
  BY DEF Init, Follows
<1> QED  BY <1>1, <1>2, <1>3 DEF Inv, OrderInv

LEMMA IntentStep == IntentInv /\ [Next]_vars => IntentInv'
<1> SUFFICES ASSUME IntentInv, [Next]_vars PROVE IntentInv'
  OBVIOUS
<1>0. ASSUME UNCHANGED <<deployment, intents, intent, saved>> PROVE IntentInv'
  BY <1>0 DEF IntentInv, IntentsHeld, Paper
<1>1. ASSUME UNCHANGED <<deployment, saved>>, IntentsHeld(intents, intent)' PROVE IntentInv'
  BY <1>1 DEF IntentInv, IntentsHeld, Paper
<1>2. ASSUME NEW b \in Bars, RefuseBar(b) PROVE IntentInv'
  BY <1>0, <1>2 DEF RefuseBar
<1>3. ASSUME NEW b \in Bars, TakeBar(b) PROVE IntentInv'
  <2> DEFINE d == Decision(deployment, evaluator')
  <2>1. d \in {"NONE", "LONG", "FLAT", "RAISED"}
    BY DecisionType, StrategyAssumption DEF IntentInv, ValidDeployment
  <2>2. CASE d \in {"NONE", "RAISED"}
    BY <1>0, <1>3, <2>2 DEF TakeBar
  <2>3. CASE d \in Intents /\ Follow(d)
    <3>1. IntentsHeld(intents, intent)'
      <4> HIDE DEF d
      <4>1. UNCHANGED deployment
        BY <1>3 DEF TakeBar
      <4> QED  BY <2>3, <4>1, AlternatingAppend
               DEF Follow, IntentInv, IntentsHeld, Paper
    <3> QED  BY <1>1, <1>3, <3>1 DEF TakeBar
  <2> QED  BY <1>3, <2>1, <2>2, <2>3 DEF TakeBar, Intents
<1>4. ASSUME TripCircuitBreaker PROVE IntentInv'
  BY <1>1, <1>4, FlattenHeld DEF TripCircuitBreaker
<1>5. ASSUME OnStop PROVE IntentInv'
  BY <1>1, <1>5, FlattenHeld DEF OnStop
<1>6. ASSUME Fill \/ Reject \/ StartAfresh, saved' \in {saved, None} PROVE IntentInv'
  BY <1>6 DEF Fill, Reject, StartAfresh, engine, IntentInv, IntentsHeld, Paper
<1>7. ASSUME Snapshot PROVE IntentInv'
  BY <1>7 DEF Snapshot, engine, IntentInv, IntentsHeld, Paper
<1>8. ASSUME Kill PROVE IntentInv'
  <2>1. UNCHANGED <<deployment, saved>> /\ intents' = <<>> /\ intent' = "FLAT"
    BY <1>8 DEF Kill
  <2>2. Paper' = Paper
    BY <2>1 DEF Paper
  <2> QED  BY <2>1, <2>2, NothingHeld DEF IntentInv, IntentsHeld
<1>9. ASSUME Restore PROVE IntentInv'
  BY <1>9 DEF Restore, IntentInv, IntentsHeld, Paper
<1>10. ASSUME UNCHANGED vars PROVE IntentInv'
  BY <1>0, <1>10 DEF vars, engine
<1> QED
  BY <1>2, <1>3, <1>4, <1>5, <1>6, <1>7, <1>8, <1>9, <1>10
  DEF Next, ObserveAccountLoss, CheckStale, Fill, Reject, StartAfresh

-----------------------------------------------------------------------------
\* The orders of a step that leaves the venue and the phase alone.
LEMMA OrderUnchanged ==
    ASSUME OrderInv,
           UNCHANGED <<deployment, phase, bound, pending, position, incidents, intent>>
    PROVE  OrderInv'
  BY DEF OrderInv, VenueInv, Follows, Paper, Order

\* Submitting an order that leads to a new intent.
LEMMA OrderAppend ==
    ASSUME VenueInv, Follows, intent \in Intents, Paper, bound,
           NEW j \in Intents, j # intent,
           pending' = Append(pending, Order(j)), intent' = j,
           UNCHANGED <<deployment, position, bound>>
    PROVE  Follows' /\ pending' \in Seq({"BUY", "SELL"}) /\ pending' # <<>>
<1>1. Order(j) \in {"BUY", "SELL"} /\ Order(j) # Order(intent)
  BY DEF Order, Intents
<1>2. /\ pending' \in Seq({"BUY", "SELL"}) /\ Len(pending') = Len(pending) + 1
      /\ pending'[Len(pending')] = Order(j)
      /\ \A k \in 1 .. Len(pending) : pending'[k] = pending[k]
      /\ pending' # <<>> /\ Len(pending) \in Nat
  BY <1>1 DEF VenueInv
<1>3. \A k \in 1 .. Len(pending') - 1 : pending'[k] # pending'[k + 1]
  <2>1. SUFFICES ASSUME NEW k \in 1 .. Len(pending) PROVE pending'[k] # pending'[k + 1]
    BY <1>2
  <2>2. CASE k < Len(pending)
    BY <1>2, <2>2 DEF Follows
  <2>3. CASE k = Len(pending)
    BY <1>1, <1>2, <2>3 DEF Follows, VenueInv
  <2> QED  BY <1>2, <2>2, <2>3
<1>4. Head(pending') = "BUY" => position = 0
  <2>1. CASE pending = <<>>
    BY <1>1, <2>1 DEF Follows, Order, Intents
  <2>2. CASE pending # <<>>
    BY <1>2, <2>2 DEF Follows, VenueInv
  <2> QED  BY <2>1, <2>2
<1>5. pending'[Len(pending')] = Order(intent)' /\ position' = position
  BY <1>2 DEF Order
<1> QED  BY <1>2, <1>3, <1>4, <1>5 DEF Follows

\* Taking the first order away.
LEMMA OrderTail ==
    ASSUME VenueInv, pending # <<>>, pending' = Tail(pending),
           \A k \in 1 .. Len(pending) - 1 : pending[k] # pending[k + 1]
    PROVE  /\ pending' \in Seq({"BUY", "SELL"}) /\ Len(pending') = Len(pending) - 1
           /\ \A k \in 1 .. Len(pending') - 1 : pending'[k] # pending'[k + 1]
           /\ pending' # <<>> => /\ Head(pending') # Head(pending)
                                /\ pending'[Len(pending')] = pending[Len(pending)]
           /\ pending' = <<>> => pending[Len(pending)] = Head(pending)
<1>1. /\ pending' \in Seq({"BUY", "SELL"}) /\ Len(pending') = Len(pending) - 1
      /\ \A k \in 1 .. Len(pending') : pending'[k] = pending[k + 1]
      /\ Len(pending) \in Nat \ {0} /\ Head(pending) = pending[1]
  BY DEF VenueInv
<1>2. pending' # <<>> => Len(pending') >= 1 /\ Head(pending') = pending'[1]
  BY <1>1
<1>3. pending' = <<>> => Len(pending) = 1
  <2>1. pending' = <<>> <=> Len(pending') = 0
    BY <1>1, EmptySeq
  <2> QED  BY <1>1, <2>1
<1> QED  BY <1>1, <1>2, <1>3

\* Flatten and Exit together: a position is closed when the intent is LONG.
LEMMA OrderFlattened ==
    ASSUME Inv, phase = "running", Flatten, Exit, phase' = "stopped",
           UNCHANGED <<deployment, bound, position, incidents>>
    PROVE  OrderInv'
<1>0. Paper' = Paper /\ intent \in Intents
  BY DEF Paper, Inv, IntentInv, IntentsHeld, Alternating
<1>1. CASE Paper /\ intent = "LONG" /\ bound
  <2>1. pending' = Append(pending, Order("FLAT")) /\ intent' = "FLAT"
    BY <1>1 DEF Flatten, Exit, Order
  <2>2. pending' \in Seq({"BUY", "SELL"})
    BY <2>1 DEF Inv, OrderInv, VenueInv, Order
  <2>3. incidents = {} => Follows'
    BY <1>0, <1>1, <2>1, OrderAppend DEF Inv, OrderInv, Intents
  <2> QED  BY <1>0, <1>1, <2>1, <2>2, <2>3 DEF Inv, OrderInv, VenueInv
<1>2. CASE Paper /\ intent = "FLAT"
  <2>1. pending' = pending /\ intent' = intent
    BY <1>2 DEF Flatten, Exit
  <2> QED  BY <1>0, <1>2, <2>1 DEF Inv, OrderInv, VenueInv, Follows, Order
<1>3. CASE ~(Paper /\ bound)
  <2>1. pending' = pending /\ pending = <<>> /\ position = 0
    <3>1. pending = <<>>
      BY <1>3 DEF Inv, OrderInv, VenueInv
    <3>2. position = 0
      BY <1>3 DEF Inv, OrderInv, VenueInv
    <3> QED  BY <1>3, <3>1, <3>2 DEF Exit
  <2>2. Paper => intent' = "FLAT"
    BY DEF Flatten
  <2> QED  BY <1>0, <1>3, <2>1, <2>2 DEF Inv, OrderInv, VenueInv, Follows
<1> QED  BY <1>0, <1>1, <1>2, <1>3 DEF Intents

LEMMA OrderStep == Inv /\ [Next]_vars => OrderInv'
<1> SUFFICES ASSUME Inv, [Next]_vars PROVE OrderInv'
  OBVIOUS
<1>0. OrderInv /\ VenueInv /\ IntentInv /\ intent \in Intents
  BY DEF Inv, OrderInv, IntentInv, IntentsHeld, Alternating
<1>1. ASSUME NEW b \in Bars, RefuseBar(b) PROVE OrderInv'
  BY <1>0, <1>1, OrderUnchanged DEF RefuseBar
<1>2. ASSUME NEW b \in Bars, TakeBar(b) PROVE OrderInv'
  <2> DEFINE d == Decision(deployment, evaluator')
  <2>1. d \in {"NONE", "LONG", "FLAT", "RAISED"}
    BY <1>0, DecisionType, StrategyAssumption DEF IntentInv, ValidDeployment
  <2>2. CASE d \in {"NONE", "RAISED"}
    BY <1>0, <1>2, <2>2, OrderUnchanged DEF TakeBar
  <2>3. CASE d \in Intents /\ Follow(d)
    <3> HIDE DEF d
    <3>0. UNCHANGED <<deployment, phase, bound, position, incidents>> /\ phase = "running"
      BY <1>2 DEF TakeBar
    <3>1. Paper' = Paper
      BY <3>0 DEF Paper
    <3>2. CASE Paper /\ d # intent /\ bound
      <4>1. pending' = Append(pending, Order(d)) /\ intent' = d
        BY <2>3, <3>2 DEF Follow
      <4>2. pending' \in Seq({"BUY", "SELL"})
        BY <1>0, <4>1 DEF VenueInv, Order
      <4>3. incidents = {} => Follows'
        BY <1>0, <2>3, <3>0, <3>2, <4>1, OrderAppend DEF OrderInv
      <4> QED  BY <1>0, <3>0, <3>1, <3>2, <4>2, <4>3 DEF OrderInv, VenueInv
    <3>3. CASE Paper /\ d = intent
      BY <1>0, <2>3, <3>0, <3>3, OrderUnchanged DEF Follow
    <3>4. CASE ~(Paper /\ bound)
      <4>1. pending = <<>>
        BY <1>0, <3>4 DEF VenueInv
      <4>2. position = 0
        BY <1>0, <3>4 DEF VenueInv
      <4>3. pending' = pending
        BY <2>3, <3>4 DEF Follow
      <4> QED  BY <1>0, <3>0, <3>1, <3>4, <4>1, <4>2, <4>3 DEF OrderInv, VenueInv, Follows
    <3> QED  BY <3>2, <3>3, <3>4
  <2> QED  BY <1>2, <2>1, <2>2, <2>3 DEF TakeBar, Intents
<1>3. ASSUME TripCircuitBreaker PROVE OrderInv'
  <2>0. UNCHANGED <<deployment, phase, bound, pending, position>> /\ phase = "running"
    BY <1>3 DEF TripCircuitBreaker
  <2>1. CASE Paper /\ intent = "LONG"
    BY <1>0, <1>3, <2>0, <2>1 DEF TripCircuitBreaker, OrderInv, VenueInv, Paper
  <2>2. CASE ~(Paper /\ intent = "LONG")
    <3>1. UNCHANGED <<intent, incidents>>
      BY <1>0, <1>3, <2>2 DEF TripCircuitBreaker, Flatten, Intents
    <3> QED  BY <1>0, <2>0, <3>1, OrderUnchanged
  <2> QED  BY <2>1, <2>2
<1>4. ASSUME OnStop PROVE OrderInv'
  BY <1>4, OrderFlattened DEF OnStop
<1>5. ASSUME Fill \/ Reject PROVE OrderInv'
  <2>0. /\ UNCHANGED <<deployment, phase, bound, intent>> /\ phase # "down"
        /\ pending # <<>> /\ pending' = Tail(pending)
    BY <1>5 DEF Fill, Reject, engine
  <2>1. Paper' = Paper /\ Order(intent)' = Order(intent)
    BY <2>0 DEF Paper, Order
  <2>2. pending' \in Seq({"BUY", "SELL"}) /\ Head(pending) \in {"BUY", "SELL"}
    BY <1>0, <2>0 DEF VenueInv
  <2>3. position' \in Nat
    <3>1. CASE Fill
      BY <1>0, <2>2, <3>1 DEF Fill, Filled, VenueInv
    <3>2. CASE Reject
      BY <1>0, <3>2 DEF Reject, VenueInv
    <3> QED  BY <1>5, <3>1, <3>2
  <2>4. VenueInv'
    BY <1>0, <2>0, <2>1, <2>2, <2>3 DEF VenueInv
  <2>5. incidents' = {} => Follows'
    <3> SUFFICES ASSUME incidents' = {} PROVE Follows'
      OBVIOUS
    <3>1. incidents = {} /\ Follows
      BY <1>0, <1>5 DEF Fill, Reject, OrderInv
    <3>2. Fill \/ Head(pending) = "BUY"
      BY <1>5, <2>2 DEF Reject
    <3>3. position' = IF Head(pending) = "BUY" /\ Fill THEN 1 ELSE 0
      <4>1. CASE Fill
        BY <2>0, <2>2, <3>1, <4>1 DEF Fill, Filled, Follows
      <4>2. CASE Reject /\ ~Fill
        BY <2>0, <3>1, <3>2, <4>2 DEF Reject, Follows
      <4> QED  BY <1>5, <4>1, <4>2
    <3>4. /\ \A k \in 1 .. Len(pending') - 1 : pending'[k] # pending'[k + 1]
          /\ pending' # <<>> => /\ Head(pending') # Head(pending)
                               /\ pending'[Len(pending')] = pending[Len(pending)]
          /\ pending' = <<>> => pending[Len(pending)] = Head(pending)
      BY <1>0, <2>0, <3>1, OrderTail DEF Follows
    <3>5. pending' # <<>> /\ Head(pending') = "BUY" => position' = 0
      BY <2>2, <3>3, <3>4
    <3>6. pending' = <<>> /\ intent = "FLAT" => position' = 0
      <4>1. pending[Len(pending)] = Order(intent)
        BY <2>0, <3>1 DEF Follows
      <4> QED  BY <3>3, <3>4, <4>1 DEF Order
    <3>7. pending' # <<>> => pending'[Len(pending')] = Order(intent)
      BY <2>0, <3>1, <3>4 DEF Follows
    <3> QED  BY <2>0, <2>1, <3>3, <3>4, <3>5, <3>6, <3>7 DEF Follows
  <2> QED  BY <2>4, <2>5 DEF OrderInv
<1>6. ASSUME Snapshot PROVE OrderInv'
  BY <1>0, <1>6, OrderUnchanged DEF Snapshot, engine
<1>7. ASSUME Kill PROVE OrderInv'
  <2>1. /\ phase' = "down" /\ pending' = <<>> /\ position' = 0 /\ incidents' = {}
        /\ ~bound' /\ bound' \in BOOLEAN /\ intent' = "FLAT"
    BY <1>7 DEF Kill
  <2>2. pending' \in Seq({"BUY", "SELL"}) /\ position' \in Nat
    BY <2>1
  <2>3. VenueInv'
    BY <2>1, <2>2 DEF VenueInv
  <2>4. Follows'
    BY <2>1 DEF Follows
  <2> QED  BY <2>3, <2>4 DEF OrderInv
<1>8. ASSUME phase = "down", phase' = "running", bound' \in {FALSE, deployment.quantity # None},
             UNCHANGED <<deployment, pending, position, incidents>>
      PROVE  OrderInv'
  <2>1. pending = <<>> /\ position = 0
    BY <1>0, <1>8 DEF VenueInv
  <2>2. bound' \in BOOLEAN
    BY <1>8, Zenon
  <2>3. bound' => deployment'.quantity # None
    BY <1>8, Zenon
  <2>4. /\ pending' = <<>> /\ position' = 0 /\ phase' = "running"
        /\ pending' \in Seq({"BUY", "SELL"})
    BY <1>8, <2>1
  <2>5. VenueInv'
    BY <2>2, <2>3, <2>4 DEF VenueInv
  <2> QED  BY <2>4, <2>5 DEF OrderInv, Follows
<1>9. ASSUME Restore PROVE OrderInv'
  BY <1>8, <1>9 DEF Restore
<1>10. ASSUME StartAfresh PROVE OrderInv'
  <2>1. bound' \in {FALSE, deployment.quantity # None}
    BY <1>10, Zenon DEF StartAfresh
  <2> QED  BY <1>8, <1>10, <2>1 DEF StartAfresh
<1>11. ASSUME UNCHANGED vars PROVE OrderInv'
  BY <1>0, <1>11, OrderUnchanged DEF vars, engine
<1> QED
  BY <1>1, <1>2, <1>3, <1>4, <1>5, <1>6, <1>7, <1>9, <1>10, <1>11
  DEF Next, ObserveAccountLoss, CheckStale

LEMMA InvHolds == Spec => []Inv
<1>1. Inv /\ [Next]_vars => Inv'
  BY IntentStep, OrderStep DEF Inv
<1> QED  BY <1>1, InvInit, PTL DEF Spec

-----------------------------------------------------------------------------
\* "Duplicate prevention" (live_strategy.py, on_bar and shutdown_flatten): whatever
\* bars come, whenever the breaker trips, and across kills and restores, the recorded
\* intents alternate and end with the current one; Shadow records and submits nothing.
THEOREM NoIntentRepeated == Spec => []IntentsAlternate
<1>1. Inv => IntentsAlternate
  <2> SUFFICES ASSUME Inv PROVE IntentsAlternate
    OBVIOUS
  <2>1. CASE Paper
    BY <2>1 DEF Inv, IntentInv, IntentsHeld, Alternating, IntentsAlternate
  <2>2. CASE ~Paper
    <3>1. pending = <<>>
      BY <2>2 DEF Inv, OrderInv, VenueInv
    <3>2. position = 0
      BY <2>2 DEF Inv, OrderInv, VenueInv
    <3> QED  BY <2>2, <3>1, <3>2 DEF Inv, IntentInv, IntentsHeld, IntentsAlternate
  <2> QED  BY <2>1, <2>2
<1> QED  BY <1>1, InvHolds, PTL

\* The orders of one process never add up to more than the one quantity that
\* __init__ checked against maximum_quantity, unless the breaker has tripped or the
\* venue has rejected an exit.
THEOREM PositionBounded == Spec => []WithinMaximum
<1>1. Inv => WithinMaximum
  <2> SUFFICES ASSUME Inv, incidents = {}, position > 0
               PROVE  position * deployment.quantity <= Policy.maximum_quantity
    BY DEF WithinMaximum
  <2>1. position = 1
    BY DEF Inv, OrderInv, Follows
  <2>2. deployment.quantity \in 1 .. Policy.maximum_quantity
    BY StrategyAssumption DEF Inv, IntentInv, OrderInv, VenueInv, ValidDeployment
  <2> QED  BY <2>1, <2>2
<1> QED  BY <1>1, InvHolds, PTL

\* on_stop submits the exit that shutdown_flatten records: once it is answered the
\* strategy is flat, unless the breaker has tripped or the venue has rejected an exit.
THEOREM StopFlattens == Spec => []FlattenOnStop
<1>1. Inv => FlattenOnStop
  <2> SUFFICES ASSUME Inv, phase = "stopped", pending = <<>>, incidents = {}
               PROVE  position = 0
    BY DEF FlattenOnStop
  <2>1. CASE Paper /\ bound
    BY <2>1 DEF Inv, OrderInv, VenueInv, Follows
  <2>2. CASE ~(Paper /\ bound)
    BY <2>2 DEF Inv, OrderInv, VenueInv
  <2> QED  BY <2>1, <2>2
<1> QED  BY <1>1, InvHolds, PTL

-----------------------------------------------------------------------------
(* What is heard and what is answered.                                     *)

\* Bars come in order and, with an expected interval, at that interval.
Spaced(hs) ==
  \A i \in 1 .. Len(hs) - 1 :
    /\ hs[i].ts < hs[i + 1].ts
    /\ deployment.expected_interval # None =>
         hs[i + 1].ts = hs[i].ts + deployment.expected_interval

\* The answers to a history are those of one evaluator that hears all of it.
HistoryHeld(hs, ds) ==
  /\ hs \in Seq(Rows) /\ Spaced(hs)
  /\ ds \in Seq(Decisions) /\ Len(ds) = Len(hs)
  /\ \A i \in 1 .. Len(hs) :
       ds[i] = Decision(deployment, Holds(deployment, SubSeq(hs, 1, i)))

KernelInv ==
  /\ deployment \in Deployments
  /\ HistoryHeld(heard, decided)
  /\ evaluator = Holds(deployment, heard)
  /\ saved # None =>
       /\ HistoryHeld(saved.heard, saved.decided)
       /\ saved.kernel = KernelSnapshot(Holds(deployment, saved.heard))

LEMMA PrefixAgree ==
    ASSUME NEW S, NEW s \in Seq(S), NEW t \in Seq(S), NEW n \in 0 .. Len(s), n <= Len(t),
           \A i \in 1 .. n : s[i] = t[i]
    PROVE  SubSeq(s, 1, n) = SubSeq(t, 1, n)
<1>1. \A i \in 1 .. n : s[i] \in S /\ t[i] \in S
  OBVIOUS
<1> DEFINE p == SubSeq(s, 1, n)
           q == SubSeq(t, 1, n)
<1>2. p \in Seq(S) /\ Len(p) = n /\ \A i \in 1 .. n : p[i] = s[i]
  BY <1>1, SubSeqProperties
<1>3. q \in Seq(S) /\ Len(q) = n /\ \A i \in 1 .. n : q[i] = t[i]
  BY <1>1, SubSeqProperties
<1> HIDE DEF p, q
<1>4. p = q
  BY <1>2, <1>3, SeqEqual
<1> QED  BY <1>4 DEF p, q

LEMMA NothingHeard == HistoryHeld(<<>>, <<>>)
<1>1. <<>> \in Seq(Rows) /\ <<>> \in Seq(Decisions) /\ Len(<<>>) = 0
  OBVIOUS
<1> QED  BY <1>1 DEF HistoryHeld, Spaced

\* A bar that passes the gap check and the push extends the history by one answer.
LEMMA BarHeard ==
    ASSUME KernelInv, NEW b \in Bars, ~Gap(b), ValidBar(evaluator, b)
    PROVE  LET e == Push(deployment, evaluator, b)
           IN  /\ e = Holds(deployment, Append(heard, b))
               /\ HistoryHeld(Append(heard, b), Append(decided, Decision(deployment, e)))
<1> DEFINE hs == Append(heard, b)
           e == Push(deployment, evaluator, b)
           d == Decision(deployment, e)
           ds == Append(decided, d)
           n == Len(heard)
<1>1. /\ ValidRule(deployment) /\ heard \in Seq(Rows) /\ decided \in Seq(Decisions)
      /\ Len(decided) = n /\ n \in Nat
  BY StrategyAssumption DEF KernelInv, ValidDeployment, HistoryHeld
<1>2. b \in Rows
  <2>1. deployment.horizon \in Nat
    BY StrategyAssumption DEF KernelInv, ValidDeployment
  <2> QED  BY <2>1 DEF Bars, Rows
<1>3. e = Holds(deployment, hs)
  BY <1>1, <1>2, PushHolds DEF KernelInv
<1>4. /\ hs \in Seq(Rows) /\ Len(hs) = n + 1 /\ hs[n + 1] = b
      /\ \A i \in 1 .. n : hs[i] = heard[i]
  BY <1>1, <1>2
<1> HIDE DEF hs, e
<1>5. d \in Decisions
  BY <1>1, <1>3, <1>4, WarmingUp DEF Decisions
<1>6. /\ ds \in Seq(Decisions) /\ Len(ds) = n + 1 /\ ds[n + 1] = d
      /\ \A i \in 1 .. n : ds[i] = decided[i]
  BY <1>1, <1>5
<1> HIDE DEF ds, n, d
<1>7. ASSUME NEW i \in 1 .. n + 1
      PROVE  ds[i] = Decision(deployment, Holds(deployment, SubSeq(hs, 1, i)))
  <2>1. CASE i = n + 1
    <3>1. SubSeq(hs, 1, i) = hs
      BY <1>4, <2>1, SubSeqFull
    <3> QED  BY <1>3, <1>6, <2>1, <3>1 DEF d
  <2>2. CASE i \in 1 .. n
    <3>1. SubSeq(hs, 1, i) = SubSeq(heard, 1, i)
      BY <1>1, <1>4, <2>2, PrefixAgree DEF n
    <3>2. ds[i] = decided[i]
      BY <1>6, <2>2
    <3>3. decided[i] = Decision(deployment, Holds(deployment, SubSeq(heard, 1, i)))
      BY <2>2 DEF KernelInv, HistoryHeld, n
    <3> QED  BY <3>1, <3>2, <3>3
  <2> QED  BY <1>1, <2>1, <2>2
<1>8. Spaced(hs)
  <2> SUFFICES ASSUME NEW i \in 1 .. n
               PROVE  /\ hs[i].ts < hs[i + 1].ts
                      /\ deployment.expected_interval # None =>
                           hs[i + 1].ts = hs[i].ts + deployment.expected_interval
    BY <1>1, <1>4 DEF Spaced
  <2>1. CASE i = n
    <3>1. heard # <<>> /\ heard[n] \in Rows
      BY <1>1, <2>1, EmptySeq DEF n
    <3>2. evaluator.last = heard[n].ts /\ heard[n].ts \in Nat \ {0}
      BY <3>1 DEF KernelInv, Holds, Rows, n
    <3>3. hs[i] = heard[n] /\ hs[i + 1] = b
      BY <1>4, <2>1
    <3>4. b.ts > heard[n].ts
      BY <3>2 DEF ValidBar
    <3>5. deployment.expected_interval # None =>
            b.ts = heard[n].ts + deployment.expected_interval
      <4> SUFFICES ASSUME deployment.expected_interval # None
                   PROVE  b.ts = heard[n].ts + deployment.expected_interval
        OBVIOUS
      <4>1. b.ts - heard[n].ts = deployment.expected_interval
        BY <3>2 DEF Gap
      <4> QED  BY <1>2, <3>2, <4>1 DEF Rows
    <3> QED  BY <1>2, <3>2, <3>3, <3>4, <3>5 DEF Rows
  <2>2. CASE i # n
    <3>1. i \in 1 .. n - 1 /\ hs[i] = heard[i] /\ hs[i + 1] = heard[i + 1]
      BY <1>1, <1>4, <2>2
    <3> QED  BY <3>1 DEF KernelInv, HistoryHeld, Spaced, n
  <2> QED  BY <2>1, <2>2
<1>9. HistoryHeld(hs, ds)
  BY <1>4, <1>6, <1>7, <1>8 DEF HistoryHeld
<1> QED  BY <1>3, <1>9 DEF hs, e, d, ds

LEMMA KernelInit == Init => KernelInv
<1> SUFFICES ASSUME Init PROVE KernelInv
  OBVIOUS
<1>1. /\ deployment \in Deployments /\ heard = <<>> /\ decided = <<>> /\ saved = None
      /\ evaluator = NewEvaluator
  BY DEF Init
<1>2. Holds(deployment, <<>>) = NewEvaluator
  BY <1>1, HoldsNothing, StrategyAssumption DEF ValidDeployment
<1> QED  BY <1>1, <1>2, NothingHeard DEF KernelInv

LEMMA KernelStep == KernelInv /\ [Next]_vars => KernelInv'
<1> SUFFICES ASSUME KernelInv, [Next]_vars PROVE KernelInv'
  OBVIOUS
<1>a. ValidRule(deployment)
  BY StrategyAssumption DEF KernelInv, ValidDeployment
<1>0. ASSUME UNCHANGED <<deployment, evaluator, saved, heard, decided>> PROVE KernelInv'
  BY <1>0 DEF KernelInv, HistoryHeld, Spaced
<1>1. ASSUME NEW b \in Bars, RefuseBar(b) PROVE KernelInv'
  BY <1>0, <1>1 DEF RefuseBar, history
<1>2. ASSUME NEW b \in Bars, TakeBar(b) PROVE KernelInv'
  <2>1. /\ evaluator' = Push(deployment, evaluator, b)
        /\ heard' = Append(heard, b)
        /\ decided' = Append(decided, Decision(deployment, evaluator'))
        /\ UNCHANGED <<deployment, saved>> /\ ~Gap(b) /\ ValidBar(evaluator, b)
    BY <1>2 DEF TakeBar
  <2>2. evaluator' = Holds(deployment, heard') /\ HistoryHeld(heard', decided')
    BY <2>1, BarHeard
  <2> QED  BY <2>1, <2>2 DEF KernelInv, HistoryHeld, Spaced
<1>3. ASSUME TripCircuitBreaker \/ OnStop \/ Fill \/ Reject PROVE KernelInv'
  BY <1>0, <1>3 DEF TripCircuitBreaker, OnStop, Fill, Reject, engine, history
<1>4. ASSUME Snapshot PROVE KernelInv'
  <2>1. /\ UNCHANGED <<deployment, evaluator, heard, decided>>
        /\ saved'.heard = heard /\ saved'.decided = decided
        /\ saved'.kernel = KernelSnapshot(evaluator)
    BY <1>4 DEF Snapshot, engine, history
  <2> QED  BY <2>1 DEF KernelInv, HistoryHeld, Spaced
<1>5. ASSUME Kill PROVE KernelInv'
  <2>1. /\ UNCHANGED <<deployment, saved>> /\ heard' = <<>> /\ decided' = <<>>
        /\ evaluator' = NewEvaluator
    BY <1>5 DEF Kill
  <2>2. Holds(deployment, <<>>) = NewEvaluator
    BY <1>a, HoldsNothing
  <2> QED  BY <2>1, <2>2, NothingHeard DEF KernelInv, HistoryHeld, Spaced
<1>6. ASSUME Restore PROVE KernelInv'
  <2>1. /\ UNCHANGED <<deployment, saved>> /\ saved # None
        /\ heard' = saved.heard /\ decided' = saved.decided
        /\ evaluator' = RestoreIncremental(deployment, saved.kernel)
    BY <1>6 DEF Restore
  <2>2. HistoryHeld(saved.heard, saved.decided)
    BY <2>1 DEF KernelInv
  <2>3. evaluator' = Holds(deployment, saved.heard)
    BY <1>a, <2>1, <2>2, RestoreHolds DEF KernelInv, HistoryHeld
  <2> QED  BY <2>1, <2>2, <2>3 DEF KernelInv, HistoryHeld, Spaced
<1>7. ASSUME StartAfresh PROVE KernelInv'
  BY <1>7 DEF StartAfresh, engine, history, KernelInv, HistoryHeld, Spaced
<1>8. ASSUME UNCHANGED vars PROVE KernelInv'
  BY <1>0, <1>8 DEF vars, engine, history
<1> QED
  BY <1>1, <1>2, <1>3, <1>4, <1>5, <1>6, <1>7, <1>8
  DEF Next, ObserveAccountLoss, CheckStale

LEMMA KernelHolds == Spec => []KernelInv
  BY KernelInit, KernelStep, PTL DEF Spec

\* What the batch evaluation of a history holds: the answers of a live evaluator after
\* the warm-up, all of them or those up to one that raises.
LEMMA BatchOfHistory ==
    ASSUME NEW r, ValidRule(r), NEW S, NEW s \in Seq(S)
    PROVE  LET batch == EvaluateBatch(r, s)
               n == Len(s) - Warmup(r) + 1
           IN  /\ batch \in Seq(Decisions)
               /\ Len(batch) <= IF n > 0 THEN n ELSE 0
               /\ \A k \in 1 .. Len(batch) :
                    /\ batch[k] = BatchDecision(r, SubSeq(s, 1, Warmup(r) + k - 1))
                    /\ batch[k] = Decision(r, Holds(r, SubSeq(s, 1, Warmup(r) + k - 1)))
               /\ \/ Len(batch) = IF n > 0 THEN n ELSE 0
                  \/ \E k \in 1 .. Len(batch) : batch[k] = "RAISED"
<1> DEFINE w == Warmup(r)
           n == Len(s) - w + 1
           size == IF n > 0 THEN n ELSE 0
           decisions == [k \in 1 .. n |-> BatchDecision(r, SubSeq(s, 1, w + k - 1))]
           raised == {k \in DOMAIN decisions : decisions[k] = "RAISED"}
           batch == EvaluateBatch(r, s)
<1>1. w \in Nat \ {0} /\ Len(s) \in Nat
  BY WarmupType
<1>2. batch = IF raised = {} THEN decisions ELSE SubSeq(decisions, 1, Min(raised))
  BY Zenon DEF EvaluateBatch
<1>3. ASSUME NEW k \in 1 .. n
      PROVE  /\ decisions[k] = BatchDecision(r, SubSeq(s, 1, w + k - 1))
             /\ decisions[k] = Decision(r, Holds(r, SubSeq(s, 1, w + k - 1)))
             /\ decisions[k] \in Decisions
  <2> DEFINE p == SubSeq(s, 1, w + k - 1)
  <2>1. w + k - 1 \in 0 .. Len(s)
    BY <1>1
  <2>2. p \in Seq(S) /\ Len(p) = w + k - 1
    BY <1>1, <2>1, SubSeqProperties
  <2>3. decisions[k] = BatchDecision(r, p)
    OBVIOUS
  <2> HIDE DEF p, decisions
  <2>4. BatchDecision(r, p) = Decision(r, Holds(r, p)) /\ Decision(r, Holds(r, p)) \in Decisions
    BY <1>1, <2>2, BatchIsLive, WarmingUp DEF Decisions
  <2> QED  BY <2>3, <2>4 DEF p
<1>4. 1 .. n = 1 .. size /\ size \in Nat
  BY <1>1
<1>5. decisions \in [1 .. size -> Decisions]
  BY <1>3, <1>4
<1>6. decisions \in Seq(Decisions) /\ Len(decisions) = size
  <2> HIDE DEF decisions, size
  <2>1. decisions \in Seq(Decisions)
    BY <1>4, <1>5, SeqDef
  <2>2. Len(decisions) \in Nat /\ 1 .. size = 1 .. Len(decisions)
    BY <1>5, <2>1, LenProperties
  <2> QED  BY <1>4, <2>1, <2>2
<1>7. CASE raised = {}
  <2>1. batch = decisions
    BY <1>2, <1>7
  <2> HIDE DEF batch, decisions, raised
  <2>2. \A k \in 1 .. n : /\ decisions[k] = BatchDecision(r, SubSeq(s, 1, w + k - 1))
                          /\ decisions[k] = Decision(r, Holds(r, SubSeq(s, 1, w + k - 1)))
    BY <1>3
  <2> HIDE DEF n, size
  <2>3. /\ batch \in Seq(Decisions) /\ Len(batch) = size
        /\ \A k \in 1 .. Len(batch) :
             /\ batch[k] = BatchDecision(r, SubSeq(s, 1, w + k - 1))
             /\ batch[k] = Decision(r, Holds(r, SubSeq(s, 1, w + k - 1)))
    BY <1>4, <1>6, <2>1, <2>2
  <2>4. Len(batch) <= size
    BY <1>4, <2>3
  <2> QED  BY <2>3, <2>4 DEF batch, n, size
<1>8. CASE raised # {}
  <2> DEFINE m == Min(raised)
  <2>1. raised \in SUBSET Nat
    BY <1>1
  <2>2. m \in raised
    <3> HIDE DEF raised
    <3>1. \E x \in raised : \A y \in raised : x <= y
      BY <1>8, <2>1, LeastNumber
    <3> QED  BY <3>1, Zenon DEF Min
  <2>3. m \in 1 .. size /\ decisions[m] = "RAISED"
    BY <1>4, <2>2
  <2> HIDE DEF m, raised, decisions
  <2>4. batch = SubSeq(decisions, 1, m)
    BY <1>2, <1>8 DEF m
  <2>5. \A i \in 1 .. m : decisions[i] \in Decisions
    BY <1>4, <1>6, <2>3
  <2>6. /\ batch \in Seq(Decisions) /\ Len(batch) = m
        /\ \A i \in 1 .. m : batch[i] = decisions[i]
    BY <1>4, <2>3, <2>4, <2>5, SubSeqProperties
  <2>7. m <= size /\ batch[m] = "RAISED" /\ 1 .. m \subseteq 1 .. n
    BY <1>4, <2>3, <2>6
  <2> HIDE DEF batch, n
  <2>8. \A k \in 1 .. m : /\ batch[k] = BatchDecision(r, SubSeq(s, 1, w + k - 1))
                          /\ batch[k] = Decision(r, Holds(r, SubSeq(s, 1, w + k - 1)))
    BY <1>3, <2>6, <2>7
  <2>9. Len(batch) <= size /\ \E k \in 1 .. Len(batch) : batch[k] = "RAISED"
    BY <2>3, <2>6, <2>7
  <2> QED  BY <2>6, <2>8, <2>9 DEF batch, n
<1> QED  BY <1>7, <1>8

-----------------------------------------------------------------------------
\* _expected_interval_ns: with a gap check no bar of the history that the decisions
\* rest on is missing, whatever was refused, and across kills and restores.
THEOREM HistoryComplete == Spec => []NoBarMissed
<1>1. KernelInv => NoBarMissed
  BY DEF KernelInv, HistoryHeld, Spaced, NoBarMissed
<1> QED  BY <1>1, KernelHolds, PTL

\* test_live_strategy.py, "parity": for every family and its parameters a live strategy
\* answers, bar by bar and across kills and restores, what evaluate_batch makes of the
\* same bars, up to the bar at which the batch raises.
THEOREM ParityOfPaths == Spec => []LiveMatchesBatch
<1>1. KernelInv => LiveMatchesBatch
  <2> SUFFICES ASSUME KernelInv PROVE LiveMatchesBatch
    OBVIOUS
  <2> DEFINE w == Warmup(deployment)
             n == Len(heard) - w + 1
             size == IF n > 0 THEN n ELSE 0
             batch == EvaluateBatch(deployment, heard)
             answers == SubSeq(decided, w, Len(decided))
  <2>1. /\ ValidRule(deployment) /\ heard \in Seq(Rows) /\ decided \in Seq(Decisions)
        /\ Len(decided) = Len(heard) /\ Len(heard) \in Nat
        /\ \A i \in 1 .. Len(heard) :
             decided[i] = Decision(deployment, Holds(deployment, SubSeq(heard, 1, i)))
    BY StrategyAssumption DEF KernelInv, ValidDeployment, HistoryHeld
  <2>2. w \in Nat \ {0}
    BY <2>1, WarmupType
  <2>3. \A i \in 1 .. Len(heard) : decided[i] = "NONE" <=> i < w
    <3> SUFFICES ASSUME NEW i \in 1 .. Len(heard) PROVE decided[i] = "NONE" <=> i < w
      OBVIOUS
    <3>1. SubSeq(heard, 1, i) \in Seq(Rows) /\ Len(SubSeq(heard, 1, i)) = i
      BY <2>1, SubSeqProperties
    <3> QED  BY <2>1, <3>1, WarmingUp
  <2>4. /\ batch \in Seq(Decisions) /\ Len(batch) <= size
        /\ \A k \in 1 .. Len(batch) :
             batch[k] = Decision(deployment, Holds(deployment, SubSeq(heard, 1, w + k - 1)))
        /\ Len(batch) = size \/ \E k \in 1 .. Len(batch) : batch[k] = "RAISED"
    BY <2>1, BatchOfHistory
  <2>5. \A i \in w .. Len(decided) : decided[i] \in Decisions
    BY <2>1, <2>2
  <2>6. /\ answers \in Seq(Decisions) /\ Len(answers) = size
        /\ \A k \in 1 .. size : answers[k] = decided[w + k - 1]
    BY <2>1, <2>2, <2>5, SubSeqProperties
  <2> HIDE DEF batch, answers, w, size
  <2>7. Len(batch) \in Nat /\ size \in Nat /\ (size = 0 \/ size = n)
    BY <2>1, <2>2, <2>4 DEF size
  <2>8. \A k \in 1 .. Len(batch) : batch[k] = answers[k]
    <3> SUFFICES ASSUME NEW k \in 1 .. Len(batch) PROVE batch[k] = answers[k]
      OBVIOUS
    <3>1. k \in 1 .. size /\ w + k - 1 \in 1 .. Len(heard)
      BY <2>1, <2>2, <2>4, <2>7
    <3> QED  BY <2>1, <2>4, <2>6, <3>1
  <2>9. IsPrefix(batch, answers)
    <3>1. Len(batch) \in 0 .. Len(batch) /\ Len(batch) <= Len(answers)
      BY <2>4, <2>6, <2>7
    <3>2. SubSeq(batch, 1, Len(batch)) = SubSeq(answers, 1, Len(batch))
      BY <2>4, <2>6, <2>8, <3>1, PrefixAgree
    <3> QED  BY <3>1, <3>2 DEF IsPrefix
  <2>10. (\E k \in DOMAIN batch : batch[k] = "RAISED") \/ batch = answers
    <3>1. CASE Len(batch) = size
      BY <2>4, <2>6, <2>8, <3>1, SeqEqual
    <3>2. DOMAIN batch = 1 .. Len(batch)
      BY <2>4
    <3> QED  BY <2>4, <3>1, <3>2
  <2>11. \A i \in DOMAIN decided : decided[i] = "NONE" <=> i < w
    <3>1. DOMAIN decided = 1 .. Len(heard)
      BY <2>1
    <3> QED  BY <2>3, <3>1
  <2>12. Len(decided) = Len(heard)
    BY <2>1
  <2> QED  BY <2>9, <2>10, <2>11, <2>12, Zenon DEF LiveMatchesBatch, w, batch, answers
<1> QED  BY <1>1, KernelHolds, PTL

\* _evaluate_batch_momentum_sma_regime, "exact-semantics fast path": its two close
\* windows decide what the registered evaluation decides from the window of bars.
THEOREM FastPathIsExact == Spec => []FastPathExact
<1>1. KernelInv => FastPathExact
  <2> DEFINE w == Warmup(deployment)
  <2> SUFFICES ASSUME KernelInv, deployment.family = "regime", NEW i \in w .. Len(heard)
               PROVE  EvaluateBatch(deployment, heard)[i - w + 1] =
                        Evaluate(deployment, LastN(SubSeq(heard, 1, i), w))
    BY DEF FastPathExact
  <2> DEFINE batch == EvaluateBatch(deployment, heard)
  <2>1. ValidRule(deployment) /\ heard \in Seq(Rows) /\ Len(heard) \in Nat
    BY StrategyAssumption DEF KernelInv, ValidDeployment, HistoryHeld
  <2>2. w \in Nat \ {0} /\ i - w + 1 \in 1 .. Len(heard) - w + 1 /\ w + (i - w + 1) - 1 = i
    BY <2>1, WarmupType
  <2>3. \A k \in 1 .. Len(heard) :
          /\ BatchDecision(deployment, SubSeq(heard, 1, k)) # "RAISED"
          /\ BatchDecision(deployment, SubSeq(heard, 1, k)) =
               Evaluate(deployment, LastN(SubSeq(heard, 1, k), w))
    <3> SUFFICES ASSUME NEW k \in 1 .. Len(heard)
                 PROVE  /\ BatchDecision(deployment, SubSeq(heard, 1, k)) # "RAISED"
                        /\ BatchDecision(deployment, SubSeq(heard, 1, k)) =
                             Evaluate(deployment, LastN(SubSeq(heard, 1, k), w))
      OBVIOUS
    <3>1. SubSeq(heard, 1, k) \in Seq(Rows)
      BY <2>1, SubSeqProperties
    <3> QED  BY <2>1, <3>1, FastPath
  <2>9. LET n == Len(heard) - w + 1
        IN  /\ batch \in Seq(Decisions)
            /\ Len(batch) <= IF n > 0 THEN n ELSE 0
            /\ \A k \in 1 .. Len(batch) :
                 batch[k] = BatchDecision(deployment, SubSeq(heard, 1, w + k - 1))
            /\ \/ Len(batch) = IF n > 0 THEN n ELSE 0
               \/ \E k \in 1 .. Len(batch) : batch[k] = "RAISED"
    BY <2>1, BatchOfHistory
  <2> HIDE DEF batch, w
  <2>4. /\ batch \in Seq(Decisions) /\ Len(batch) <= Len(heard) - w + 1
        /\ \A k \in 1 .. Len(batch) :
             batch[k] = BatchDecision(deployment, SubSeq(heard, 1, w + k - 1))
        /\ Len(batch) = Len(heard) - w + 1 \/ \E k \in 1 .. Len(batch) : batch[k] = "RAISED"
    BY <2>1, <2>2, <2>9
  <2>5. ASSUME NEW k \in 1 .. Len(batch) PROVE batch[k] # "RAISED"
    <3>1. w + k - 1 \in 1 .. Len(heard)
      BY <2>1, <2>2, <2>4
    <3> QED  BY <2>3, <2>4, <3>1
  <2>6. Len(batch) = Len(heard) - w + 1
    BY <2>4, <2>5
  <2>7. batch[i - w + 1] = BatchDecision(deployment, SubSeq(heard, 1, i))
    BY <2>2, <2>4, <2>6
  <2>8. i \in 1 .. Len(heard)
    BY <2>1, <2>2
  <2> QED  BY <2>3, <2>7, <2>8 DEF batch, w
<1> QED  BY <1>1, KernelHolds, PTL

-----------------------------------------------------------------------------
\* The rest of what has a type.
RestInv ==
  /\ phase \in {"running", "stopped", "down"}
  /\ status \in {"PASS", "ERROR"}
  /\ saved # None => saved.status \in {"PASS", "ERROR"}
  /\ restarts \in 0 .. MaxRestarts
  /\ incidents \subseteq {"trip", "reject"}

\* Every variable keeps its type, in every process and across kills and restores.
THEOREM TypesHold == Spec => []TypeOK
<1>1. Init => RestInv
  BY StrategyAssumption DEF Init, RestInv
<1>2. RestInv /\ [Next]_vars => RestInv'
  <2> SUFFICES ASSUME RestInv, [Next]_vars PROVE RestInv'
    OBVIOUS
  <2>1. ASSUME NEW b \in Bars, RefuseBar(b) \/ TakeBar(b) PROVE RestInv'
    BY <2>1 DEF RefuseBar, TakeBar, RestInv
  <2>2. ASSUME TripCircuitBreaker \/ OnStop \/ Fill \/ Reject PROVE RestInv'
    BY <2>2 DEF TripCircuitBreaker, OnStop, Fill, Reject, engine, RestInv
  <2>3. ASSUME Snapshot PROVE RestInv'
    BY <2>3 DEF Snapshot, engine, RestInv
  <2>4. ASSUME Kill PROVE RestInv'
    BY <2>4, StrategyAssumption DEF Kill, RestInv
  <2>5. ASSUME Restore PROVE RestInv'
    BY <2>5 DEF Restore, RestInv
  <2>6. ASSUME StartAfresh PROVE RestInv'
    BY <2>6 DEF StartAfresh, engine, RestInv
  <2>7. ASSUME UNCHANGED vars PROVE RestInv'
    BY <2>7 DEF vars, engine, RestInv
  <2> QED
    BY <2>1, <2>2, <2>3, <2>4, <2>5, <2>6, <2>7 DEF Next, ObserveAccountLoss, CheckStale
<1>3. Inv /\ KernelInv /\ RestInv => TypeOK
  <2> SUFFICES ASSUME Inv, KernelInv, RestInv PROVE TypeOK
    OBVIOUS
  <2>1. intent \in Intents /\ intents \in Seq(Intents)
    <3>1. CASE Paper
      BY <3>1 DEF Inv, IntentInv, IntentsHeld, Alternating
    <3>2. CASE ~Paper
      BY <3>2 DEF Inv, IntentInv, IntentsHeld
    <3> QED  BY <3>1, <3>2
  <2>2. /\ ValidRule(deployment) /\ heard \in Seq(Rows) /\ decided \in Seq(Decisions)
        /\ deployment \in Deployments
    BY StrategyAssumption DEF KernelInv, ValidDeployment, HistoryHeld
  <2>3. evaluator.window \in Seq(Rows)
    BY <2>2, WarmupType, LastNType DEF KernelInv, Holds
  <2>4. evaluator.last \in Nat
    <3>1. heard # <<>> => heard[Len(heard)] \in Rows
      BY <2>2, EmptySeq
    <3> QED  BY <3>1 DEF KernelInv, Holds, Rows
  <2>5. bound \in BOOLEAN /\ pending \in Seq({"BUY", "SELL"}) /\ position \in Nat
    BY DEF Inv, OrderInv, VenueInv
  <2> QED  BY <2>1, <2>2, <2>3, <2>4, <2>5 DEF TypeOK, RestInv, Intents
<1> QED  BY <1>1, <1>2, <1>3, InvHolds, KernelHolds, PTL DEF Spec
=============================================================================
