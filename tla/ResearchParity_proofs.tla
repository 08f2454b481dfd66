------------------------ MODULE ResearchParity_proofs ------------------------
(***************************************************************************)
(* What a candidate's replay does with the bars that a live strategy has   *)
(* heard, for every family and its parameters, every history and window    *)
(* of it, and every delay.                                                 *)
(***************************************************************************)
EXTENDS FamilyStrategy_proofs, ResearchParity
LOCAL INSTANCE SequencesExt
LOCAL INSTANCE FiniteSetTheorems

-----------------------------------------------------------------------------
(* Times that rise, and the signals before a time.                         *)

\* The entries of a sequence come in the order of their times.
Rising(s) == \A i, j \in 1 .. Len(s) : i < j => s[i].ts < s[j].ts

\* What a plan is made of.
SignalSet == [intent : {"LONG", "FLAT"}, ts : Nat]

\* The greatest of some positions.
LEMMA MaxOf ==
    ASSUME NEW n \in Nat, NEW S \in SUBSET (0 .. n), S # {}
    PROVE  Max(S) \in S /\ \A x \in S : x <= Max(S)
<1> DEFINE T == {n - x : x \in S}
<1>1. T \in SUBSET Nat /\ T # {}
  OBVIOUS
<1> HIDE DEF T
<1>2. PICK m \in T : \A k \in T : m <= k
  BY <1>1, LeastNumber
<1>3. PICK x \in S : m = n - x
  BY <1>2 DEF T
<1>4. \A y \in S : x >= y
  <2> TAKE y \in S
  <2>1. n - y \in T
    BY DEF T
  <2> QED  BY <1>2, <1>3, <2>1
<1>5. \E z \in S : \A y \in S : z >= y
  BY <1>3, <1>4
<1>6. Max(S) \in S /\ \A y \in S : Max(S) >= y
  BY <1>5, Zenon DEF Max
<1>7. S \subseteq Int
  OBVIOUS
<1> HIDE DEF T
<1> DEFINE z == Max(S)
<1>8. z \in S /\ \A y \in S : z >= y
  BY <1>6
<1> HIDE DEF z
<1>9. \A y \in S : y <= z
  BY <1>7, <1>8
<1> QED  BY <1>8, <1>9 DEF z

LEMMA MaxUpTo ==
    ASSUME NEW n \in Nat, NEW a \in 1 .. n
    PROVE  Max(a .. n) = n
<1>1. a .. n \in SUBSET (0 .. n) /\ a .. n # {} /\ n \in a .. n
  OBVIOUS
<1> DEFINE z == Max(a .. n)
<1>2. z \in a .. n /\ \A x \in a .. n : x <= z
  BY <1>1, MaxOf
<1> HIDE DEF z
<1>3. z = n
  BY <1>1, <1>2
<1> QED  BY <1>3 DEF z

\* How many of the signals come before a time.
Cutoff(signals, ts) ==
  CHOOSE c \in 0 .. Len(signals) :
    \A i \in 1 .. Len(signals) : signals[i].ts < ts <=> i <= c

LEMMA CutoffHolds ==
    ASSUME NEW s, NEW n \in Nat, Len(s) = n, \A i \in 1 .. n : s[i].ts \in Nat,
           Rising(s), NEW ts \in Nat
    PROVE  /\ Cutoff(s, ts) \in 0 .. n
           /\ \A i \in 1 .. n : s[i].ts < ts <=> i <= Cutoff(s, ts)
<1> DEFINE D == {i \in 1 .. n : ~(s[i].ts < ts)}
<1>1. \E c \in 0 .. n : \A i \in 1 .. n : s[i].ts < ts <=> i <= c
  <2>1. CASE D = {}
    <3>1. \A i \in 1 .. n : s[i].ts < ts <=> i <= n
      BY <2>1
    <3> HIDE DEF D
    <3> QED  BY <3>1
  <2>2. CASE D # {}
    <3>1. D \in SUBSET Nat
      OBVIOUS
    <3>2. PICK m \in D : \A k \in D : m <= k
      <4> HIDE DEF D
      <4> QED  BY <2>2, <3>1, LeastNumber
    <3> DEFINE c == m - 1
    <3>3. c \in 0 .. n /\ m \in 1 .. n /\ m = c + 1
      BY <3>2
    <3>4. ASSUME NEW i \in 1 .. n PROVE s[i].ts < ts <=> i <= c
      <4>1. CASE i < m
        BY <3>2, <3>3, <4>1
      <4>2. CASE i = m
        BY <3>2, <3>3, <4>2
      <4>3. CASE i > m
        <5>1. s[m].ts < s[i].ts
          BY <3>3, <4>3 DEF Rising
        <5>2. ~(s[m].ts < ts)
          BY <3>2
        <5>3. s[m].ts \in Nat /\ s[i].ts \in Nat
          BY <3>3
        <5> QED  BY <3>3, <4>3, <5>1, <5>2, <5>3
      <4> QED  BY <3>3, <4>1, <4>2, <4>3
    <3> HIDE DEF c, D
    <3> QED  BY <3>3, <3>4
  <2> QED  BY <2>1, <2>2
<1>2. \E c \in 0 .. Len(s) : \A i \in 1 .. Len(s) : s[i].ts < ts <=> i <= c
  BY <1>1, Zenon
<1>3. /\ Cutoff(s, ts) \in 0 .. Len(s)
      /\ \A i \in 1 .. Len(s) : s[i].ts < ts <=> i <= Cutoff(s, ts)
  BY <1>2, Zenon DEF Cutoff
<1> QED  BY <1>3, Zenon

\* The intent of the c-th signal; before the first one it is FLAT.
Wanted(signals, c) == IF c = 0 THEN "FLAT" ELSE signals[c].intent

LEMMA SignalsRise ==
    ASSUME NEW signals \in Seq(SignalSet), Rising(signals), NEW ts \in Nat
    PROVE  /\ Cutoff(signals, ts) \in 0 .. Len(signals)
           /\ \A i \in 1 .. Len(signals) : signals[i].ts < ts <=> i <= Cutoff(signals, ts)
           /\ IntentBefore(signals, ts) = Wanted(signals, Cutoff(signals, ts))
<1>0. Len(signals) \in Nat /\ DOMAIN signals = 1 .. Len(signals)
  OBVIOUS
<1>1. \A i \in 1 .. Len(signals) : signals[i].ts \in Nat
  <2>1. \A i \in 1 .. Len(signals) : signals[i] \in SignalSet
    OBVIOUS
  <2> QED  BY <2>1 DEF SignalSet
<1> DEFINE c == Cutoff(signals, ts)
           known == {i \in DOMAIN signals : signals[i].ts < ts}
<1>2. c \in 0 .. Len(signals) /\ \A i \in 1 .. Len(signals) : signals[i].ts < ts <=> i <= c
  BY <1>0, <1>1, CutoffHolds
<1> HIDE DEF c
<1>3. known = 1 .. c
  BY <1>0, <1>2
<1>4. c # 0 => Max(1 .. c) = c
  BY <1>2, MaxUpTo
<1> HIDE DEF known
<1>5. known = {} <=> c = 0
  BY <1>2, <1>3
<1>6. IntentBefore(signals, ts) = IF known = {} THEN "FLAT" ELSE signals[Max(known)].intent
  BY DEF IntentBefore, known
<1>7. IntentBefore(signals, ts) = Wanted(signals, c)
  BY <1>3, <1>4, <1>5, <1>6 DEF Wanted
<1> QED  BY <1>2, <1>7 DEF c

LEMMA WantedType ==
    ASSUME NEW signals \in Seq(SignalSet), NEW c \in 0 .. Len(signals)
    PROVE  Wanted(signals, c) \in {"LONG", "FLAT"}
<1>1. CASE c = 0
  BY <1>1 DEF Wanted
<1>2. CASE c # 0
  <2>1. signals[c] \in SignalSet
    BY <1>2
  <2> QED  BY <1>2, <2>1 DEF Wanted, SignalSet
<1> QED  BY <1>1, <1>2

\* Signals that change nothing leave the intent as it was.
LEMMA WantedConstant ==
    ASSUME NEW signals, NEW a \in Nat, NEW b \in Nat, a <= b,
           \A i \in a + 1 .. b : Wanted(signals, i) = Wanted(signals, i - 1)
    PROVE  Wanted(signals, b) = Wanted(signals, a)
<1> DEFINE n == b - a
           S == {m \in 0 .. n : Wanted(signals, a + m) = Wanted(signals, a)}
<1>1. n \in Nat /\ a + n = b
  OBVIOUS
<1>2. 0 \in S /\ S \in SUBSET (0 .. n)
  <2>1. a + 0 = a
    OBVIOUS
  <2> QED  BY <1>1, <2>1
<1>3. ASSUME NEW m \in S, m < n PROVE m + 1 \in S
  <2>1. a + (m + 1) \in a + 1 .. b /\ (a + (m + 1)) - 1 = a + m /\ m + 1 \in 0 .. n
    BY <1>1, <1>3
  <2> DEFINE j == a + (m + 1)
  <2>2. Wanted(signals, j) = Wanted(signals, j - 1)
    BY <2>1
  <2>3. Wanted(signals, a + m) = Wanted(signals, a)
    BY <1>3
  <2> QED  BY <2>1, <2>2, <2>3
<1> HIDE DEF S, n
<1>4. S = 0 .. n
  BY <1>1, <1>2, <1>3, UpTo
<1>5. n \in S
  BY <1>1, <1>4
<1> QED  BY <1>1, <1>5 DEF S

-----------------------------------------------------------------------------
(* Reading the signals of a bar.                                           *)

\* Up to where a replay has read, and what it desires there.
ReadTo(plan, s, c) ==
  /\ c \in 0 .. Len(plan.signals)
  /\ s.cursor = c
  /\ s.desired = Wanted(plan.signals, c)

\* A bar reads on to the signals before it; what has changed, if anything has, is the
\* last change, which leads to what is desired then.
LEMMA Reading ==
    ASSUME NEW plan, plan.signals \in Seq(SignalSet), Rising(plan.signals),
           NEW s, NEW c, ReadTo(plan, s, c), NEW b, b.ts \in Nat,
           c <= Cutoff(plan.signals, b.ts)
    PROVE  LET t == ReadSignals(plan, s, b)
               to == Cutoff(plan.signals, b.ts)
           IN  /\ t.cursor = to
               /\ t.desired = Wanted(plan.signals, to)
               /\ \/ t.changed = None /\ t.desired = s.desired
                  \/ /\ t.changed \in SignalSet
                     /\ t.changed.intent = t.desired
                     /\ t.changed.ts < b.ts
<1> DEFINE signals == plan.signals
           to == Cutoff(signals, b.ts)
           known == Known(plan, s, b)
           changes == {i \in known : signals[i].intent # DesiredBefore(plan, s, i)}
           cursor == IF known = {} THEN s.cursor ELSE Max(known)
           changed == IF changes = {} THEN None ELSE signals[Max(changes)]
           t == ReadSignals(plan, s, b)
<1>1. /\ Len(signals) \in Nat /\ to \in 0 .. Len(signals)
      /\ \A i \in 1 .. Len(signals) : signals[i].ts < b.ts <=> i <= to
  <2>1. Len(signals) \in Nat
    OBVIOUS
  <2>2. signals \in Seq(SignalSet) /\ Rising(signals)
    OBVIOUS
  <2> HIDE DEF signals
  <2>3. /\ to \in 0 .. Len(signals)
        /\ \A i \in 1 .. Len(signals) : signals[i].ts < b.ts <=> i <= to
    BY <2>2, SignalsRise
  <2> QED  BY <2>1, <2>3
<1>2. t.cursor = cursor /\ t.desired = DesiredBefore(plan, s, cursor + 1) /\ t.changed = changed
  BY DEF ReadSignals
<1>3. c \in 0 .. Len(signals) /\ s.cursor = c /\ s.desired = Wanted(signals, c) /\ c <= to
  BY DEF ReadTo
<1> HIDE DEF t, to
<1>4. known = c + 1 .. to
  <2>1. known = {i \in c + 1 .. Len(signals) : \A j \in c + 1 .. i : signals[j].ts < b.ts}
    BY <1>3 DEF Known
  <2> HIDE DEF known
  <2>2. ASSUME NEW i \in c + 1 .. Len(signals)
        PROVE  (\A j \in c + 1 .. i : signals[j].ts < b.ts) <=> i <= to
    <3>1. i \in 1 .. Len(signals) /\ i \in c + 1 .. i
      BY <1>1, <1>3
    <3>2. ASSUME i <= to, NEW j \in c + 1 .. i PROVE signals[j].ts < b.ts
      <4>1. j \in 1 .. Len(signals) /\ j <= to
        BY <1>1, <1>3, <3>2
      <4> QED  BY <1>1, <4>1
    <3> QED  BY <1>1, <3>1, <3>2
  <2> QED  BY <1>1, <1>3, <2>1, <2>2
<1>5. ASSUME NEW i \in c + 1 .. to + 1 PROVE DesiredBefore(plan, s, i) = Wanted(signals, i - 1)
  <2>1. CASE i = c + 1
    BY <1>3, <2>1 DEF DesiredBefore
  <2>2. CASE i # c + 1
    <3>1. i - 1 # 0
      BY <1>1, <1>3, <2>2
    <3> QED  BY <1>3, <2>2, <3>1 DEF DesiredBefore, Wanted
  <2> QED  BY <2>1, <2>2
<1>6. ASSUME NEW i \in c + 1 .. to
      PROVE  signals[i].intent = Wanted(signals, i) /\ i \in 1 .. Len(signals)
  BY <1>1, <1>3 DEF Wanted
<1>7. changes = {i \in c + 1 .. to : Wanted(signals, i) # Wanted(signals, i - 1)}
  <2>1. \A i \in c + 1 .. to : i \in c + 1 .. to + 1
    BY <1>1, <1>3
  <2> HIDE DEF known
  <2> QED  BY <1>4, <1>5, <1>6, <2>1
<1>8. cursor = to
  <2>1. CASE c = to
    <3>1. known = {}
      BY <1>1, <1>3, <1>4, <2>1
    <3> HIDE DEF known
    <3> QED  BY <1>3, <2>1, <3>1
  <2>2. CASE c # to
    <3> HIDE DEF known
    <3>1. c + 1 \in 1 .. to /\ to \in Nat /\ known # {}
      <4>1. c + 1 \in 1 .. to /\ to \in Nat /\ c + 1 \in c + 1 .. to
        BY <1>1, <1>3, <2>2
      <4> QED  BY <1>4, <4>1
    <3>2. Max(c + 1 .. to) = to
      BY <3>1, MaxUpTo
    <3> QED  BY <1>4, <3>1, <3>2
  <2> QED  BY <2>1, <2>2
<1> HIDE DEF cursor, known
<1>9. t.desired = Wanted(signals, to)
  <2>1. to + 1 \in c + 1 .. to + 1 /\ (to + 1) - 1 = to
    BY <1>1, <1>3
  <2> DEFINE e == to + 1
  <2>2. DesiredBefore(plan, s, e) = Wanted(signals, e - 1)
    BY <1>5, <2>1
  <2> QED  BY <1>2, <1>8, <2>1, <2>2
<1>10. \/ changed = None /\ t.desired = s.desired
       \/ changed \in SignalSet /\ changed.intent = t.desired /\ changed.ts < b.ts
  <2>1. CASE changes = {}
    <3>1. \A i \in c + 1 .. to : Wanted(signals, i) = Wanted(signals, i - 1)
      <4> HIDE DEF changes
      <4> QED  BY <1>7, <2>1
    <3>2. Wanted(signals, to) = Wanted(signals, c)
      BY <1>1, <1>3, <3>1, WantedConstant
    <3>3. changed = None
      BY <2>1
    <3> QED  BY <1>3, <1>9, <3>2, <3>3
  <2>2. CASE changes # {}
    <3> DEFINE m == Max(changes)
    <3>1. changes \in SUBSET (0 .. to) /\ to \in Nat
      BY <1>1, <1>3, <1>7
    <3>2. m \in changes /\ \A x \in changes : x <= m
      <4> HIDE DEF changes
      <4> QED  BY <2>2, <3>1, MaxOf
    <3>3. changed = signals[m]
      BY <2>2
    <3> HIDE DEF m, changed, changes
    <3>4. m \in c + 1 .. to /\ m \in 1 .. Len(signals)
      BY <1>1, <1>3, <1>7, <3>2
    <3>5. \A i \in m + 1 .. to : Wanted(signals, i) = Wanted(signals, i - 1)
      <4> TAKE i \in m + 1 .. to
      <4>1. i \in c + 1 .. to /\ ~(i <= m)
        BY <1>1, <1>3, <3>4
      <4> QED  BY <1>7, <3>2, <4>1
    <3>6. Wanted(signals, to) = Wanted(signals, m)
      <4>1. m \in Nat /\ to \in Nat /\ m <= to
        BY <1>1, <3>4
      <4> QED  BY <3>5, <4>1, WantedConstant
    <3>7. signals[m] \in SignalSet /\ signals[m].intent = Wanted(signals, m)
      BY <1>6, <3>4
    <3>8. signals[m].ts < b.ts
      BY <1>1, <3>4
    <3> QED  BY <1>9, <3>3, <3>6, <3>7, <3>8
  <2> QED  BY <2>1, <2>2
<1> HIDE DEF changed
<1> QED  BY <1>2, <1>8, <1>9, <1>10 DEF t, to

-----------------------------------------------------------------------------
(* The steps of a replay.                                                  *)

\* A replay has its fields and no others.
HasFields(s) ==
  s = [cursor |-> s.cursor, desired |-> s.desired, pending |-> s.pending,
       deduped |-> s.deduped, flattened |-> s.flattened, long |-> s.long, fills |-> s.fills]

\* The signal that an ordinary bar acts on.
ActsOn(plan, s, b) == IF plan.delay_bars = 0 THEN ReadSignals(plan, s, b).changed ELSE Due(s)

\* From s to o over the bar b, when the signals t are read and x is acted on.
OrdinaryStep(plan, s, b, t, x, o) ==
  /\ HasFields(o)
  /\ o.cursor = t.cursor /\ o.desired = t.desired
  /\ o.pending = Waiting(plan, s, t.changed)
  /\ o.flattened = s.flattened
  /\ \/ /\ x = None \/ s.long = (x.intent = "LONG")
        /\ o.long = s.long /\ o.fills = s.fills
     \/ /\ x # None /\ s.long # (x.intent = "LONG")
        /\ o.long = (x.intent = "LONG")
        /\ o.fills = Append(s.fills, FillFor(x.intent, x.ts, b))

LEMMA OrdinaryBar ==
    ASSUME NEW plan, NEW s, HasFields(s), s.long \in BOOLEAN, NEW b, ~AtBoundary(plan, b)
    PROVE  OrdinaryStep(plan, s, b, ReadSignals(plan, s, b), ActsOn(plan, s, b),
                        OnBar(plan, s, b))
<1> DEFINE t == ReadSignals(plan, s, b)
           x == ActsOn(plan, s, b)
           o == OnBar(plan, s, b)
           p == Waiting(plan, s, t.changed)
<1>1. PICK read : read = [s EXCEPT !.cursor = t.cursor, !.desired = t.desired,
                                   !.deduped = t.deduped]
  OBVIOUS
<1>2. PICK waits : waits = [read EXCEPT !.pending = p]
  OBVIOUS
<1>3. o = Act(waits, x, b)
  BY <1>1, <1>2, Zenon DEF OnBar, ActsOn
<1> SUFFICES OrdinaryStep(plan, s, b, t, x, o)
  OBVIOUS
<1> HIDE DEF t, x, o, p
<1>4. read = [cursor |-> t.cursor, desired |-> t.desired, pending |-> s.pending,
              deduped |-> t.deduped, flattened |-> s.flattened, long |-> s.long,
              fills |-> s.fills]
  BY <1>1 DEF HasFields
<1>5. waits = [cursor |-> t.cursor, desired |-> t.desired, pending |-> p,
               deduped |-> t.deduped, flattened |-> s.flattened, long |-> s.long,
               fills |-> s.fills]
  BY <1>2, <1>4
<1>6. CASE x = None \/ s.long = (x.intent = "LONG")
  <2>1. o = waits
    BY <1>3, <1>5, <1>6 DEF Act
  <2> QED  BY <1>5, <1>6, <2>1 DEF OrdinaryStep, HasFields, p
<1>7. CASE x # None /\ s.long # (x.intent = "LONG")
  <2> DEFINE f == FillFor(x.intent, x.ts, b)
  <2>1. PICK acted : acted = [waits EXCEPT !.long = ~@, !.fills = Append(@, f)]
    OBVIOUS
  <2>2. o = acted
    BY <1>3, <1>5, <1>7, <2>1 DEF Act
  <2> HIDE DEF f
  <2>3. acted = [cursor |-> t.cursor, desired |-> t.desired, pending |-> p,
                 deduped |-> t.deduped, flattened |-> s.flattened, long |-> ~s.long,
                 fills |-> Append(s.fills, f)]
    BY <1>5, <2>1
  <2>4. ~s.long = (x.intent = "LONG")
    BY <1>7
  <2> QED  BY <1>7, <2>2, <2>3, <2>4 DEF OrdinaryStep, HasFields, f, p
<1> QED  BY <1>6, <1>7

LEMMA BoundaryBar ==
    ASSUME NEW plan, NEW s, HasFields(s), s.long \in BOOLEAN, NEW b, AtBoundary(plan, b),
           s.flattened = FALSE
    PROVE  LET source == ExitSource(Due(s), ReadSignals(plan, s, b).changed)
               o == OnBar(plan, s, b)
           IN  /\ o.long = FALSE
               /\ \/ s.long = FALSE /\ o.flattened = FALSE /\ o.fills = s.fills
                  \/ /\ s.long /\ o.flattened = (source = None)
                     /\ o.fills = Append(s.fills, FillFor("FLAT", source, b))
<1> DEFINE t == ReadSignals(plan, s, b)
           source == ExitSource(Due(s), t.changed)
           o == OnBar(plan, s, b)
           f == FillFor("FLAT", source, b)
<1>1. PICK read : read = [s EXCEPT !.cursor = t.cursor, !.desired = t.desired,
                                   !.deduped = t.deduped]
  OBVIOUS
<1>2. PICK flat : flat = [read EXCEPT !.pending = <<>>, !.flattened = (source = None),
                                      !.long = FALSE, !.fills = Append(@, f)]
  OBVIOUS
<1>3. PICK idle : idle = [read EXCEPT !.pending = <<>>]
  OBVIOUS
<1>4. o = IF s.long THEN flat ELSE idle
  BY <1>1, <1>2, <1>3, Zenon DEF OnBar
<1> HIDE DEF t, source, o, f
<1>5. read = [cursor |-> t.cursor, desired |-> t.desired, pending |-> s.pending,
              deduped |-> t.deduped, flattened |-> s.flattened, long |-> s.long,
              fills |-> s.fills]
  BY <1>1 DEF HasFields
<1>6. /\ flat.long = FALSE /\ flat.flattened = (source = None)
      /\ flat.fills = Append(s.fills, f)
  BY <1>2, <1>5
<1>7. idle.long = s.long /\ idle.flattened = s.flattened /\ idle.fills = s.fills
  BY <1>3, <1>5
<1>8. CASE s.long
  BY <1>4, <1>6, <1>8 DEF f, o, source, t
<1>9. CASE ~s.long
  BY <1>4, <1>7, <1>9 DEF o
<1> QED  BY <1>8, <1>9

\* A replay goes through a window bar by bar.
LEMMA ReplayTakesBars ==
    ASSUME NEW plan, NEW window, NEW n \in Nat, Len(window) = n
    PROVE  LET after == ReplayStates(plan, window)
           IN  /\ after[0] = NewReplay
               /\ \A k \in 0 .. n - 1 : after[k + 1] = OnBar(plan, after[k], window[k + 1])
<1> DEFINE Solves(f, m) ==
             f = [i \in 0 .. m |-> IF i = 0 THEN NewReplay ELSE OnBar(plan, f[i - 1], window[i])]
           S == {m \in 0 .. n : \E f : Solves(f, m)}
           after == ReplayStates(plan, window)
<1>1. 0 \in S
  <2> DEFINE f == [i \in 0 .. 0 |-> NewReplay]
  <2>1. \A i \in 0 .. 0 : i = 0
    OBVIOUS
  <2>2. Solves(f, 0)
    BY <2>1
  <2> HIDE DEF f, Solves
  <2> QED  BY <2>2
<1>2. ASSUME NEW m \in S, m < n PROVE m + 1 \in S
  <2>1. PICK f : Solves(f, m)
    OBVIOUS
  <2>2. m \in Nat /\ m + 1 \in 0 .. n
    BY <1>2
  <2> DEFINE b == OnBar(plan, f[m], window[m + 1])
             g == [i \in 0 .. m + 1 |-> IF i = m + 1 THEN b ELSE f[i]]
  <2>3. ASSUME NEW i \in 0 .. m + 1
        PROVE  g[i] = IF i = 0 THEN NewReplay ELSE OnBar(plan, g[i - 1], window[i])
    <3>1. CASE i = m + 1
      <4>1. i # 0 /\ i - 1 = m /\ m \in 0 .. m + 1 /\ m # m + 1
        BY <2>2, <3>1
      <4>2. g[i] = b
        BY <3>1
      <4>3. g[i - 1] = f[m]
        BY <4>1
      <4> HIDE DEF g
      <4> QED  BY <3>1, <4>1, <4>2, <4>3
    <3>2. CASE i # m + 1
      <4>1. i \in 0 .. m
        BY <2>2, <3>2
      <4>2. g[i] = f[i]
        BY <3>2
      <4>3. i # 0 => i - 1 \in 0 .. m + 1 /\ i - 1 # m + 1
        BY <2>2, <4>1
      <4>4. i # 0 => g[i - 1] = f[i - 1]
        BY <4>3
      <4> HIDE DEF g
      <4> QED  BY <2>1, <4>1, <4>2, <4>4
    <3> QED  BY <3>1, <3>2
  <2>4. g = [i \in 0 .. m + 1 |-> g[i]]
    OBVIOUS
  <2> HIDE DEF g
  <2>5. Solves(g, m + 1)
    BY <2>3, <2>4
  <2> HIDE DEF Solves
  <2> QED  BY <2>2, <2>5
<1>3. S = 0 .. n
  <2>1. S \in SUBSET (0 .. n)
    OBVIOUS
  <2> HIDE DEF S
  <2> QED  BY <1>1, <1>2, <2>1, UpTo
<1>4. \E f : Solves(f, n)
  <2>1. n \in S
    BY <1>3
  <2> QED  BY <2>1
<1>5. Solves(after, n)
  BY <1>4, Zenon DEF ReplayStates
<1> HIDE DEF after
<1>6. after[0] = NewReplay
  BY <1>5
<1>7. ASSUME NEW k \in 0 .. n - 1 PROVE after[k + 1] = OnBar(plan, after[k], window[k + 1])
  <2>1. k + 1 \in 0 .. n /\ k + 1 # 0 /\ (k + 1) - 1 = k
    OBVIOUS
  <2> QED  BY <1>5, <2>1
<1> QED  BY <1>6, <1>7 DEF after

-----------------------------------------------------------------------------
(* What a replay holds after each bar but the boundary.                    *)

\* A plan over a window.
Replayed(plan, window) ==
  /\ plan.signals \in Seq(SignalSet) /\ Rising(plan.signals)
  /\ plan.delay_bars \in Nat
  /\ window \in Seq(Rows) /\ window # <<>> /\ Rising(window)
  /\ plan.boundary = window[Len(window)].ts

\* What the signals before the k-th bar ask for; before the window, nothing.
Wish(plan, window, k) ==
  IF k \in 1 .. Len(window) THEN IntentBefore(plan.signals, window[k].ts) ELSE "FLAT"

\* The k-th bar has made x known: nothing when it changed no wish.
Brings(plan, window, x, k) ==
  \/ x = None /\ Wish(plan, window, k) = Wish(plan, window, k - 1)
  \/ /\ x \in SignalSet /\ k \in 1 .. Len(window)
     /\ x.intent = Wish(plan, window, k) /\ x.ts < window[k].ts

\* What waits r bars is what the bar brought that came delay_bars - 1 - r bars ago.
QueueHeld(plan, window, k, queue) ==
  LET d == plan.delay_bars
  IN  /\ DOMAIN queue \subseteq 0 .. d - 1
      /\ \A r \in 0 .. d - 1 :
           Brings(plan, window, IF r \in DOMAIN queue THEN queue[r] ELSE None,
                  k - (d - 1 - r))

FillSet == [intent : {"LONG", "FLAT"}, source : Nat \cup {None}, action : Nat]

\* The fills alternate up to the position, each after the signal it comes from.
FillsHeld(fills, long, ts) ==
  /\ fills \in Seq(FillSet)
  /\ long = (Len(fills) % 2 = 1)
  /\ \A i \in 1 .. Len(fills) :
       /\ fills[i].intent = IF i % 2 = 1 THEN "LONG" ELSE "FLAT"
       /\ fills[i].source \in Nat
       /\ fills[i].source < fills[i].action
       /\ fills[i].action <= ts

TimeAt(window, k) == IF k = 0 THEN 0 ELSE window[k].ts

ReplayHeld(plan, window, k, s) ==
  /\ HasFields(s)
  /\ ReadTo(plan, s, IF k = 0 THEN 0 ELSE Cutoff(plan.signals, window[k].ts))
  /\ s.flattened = FALSE
  /\ s.long = (Wish(plan, window, k - plan.delay_bars) = "LONG")
  /\ QueueHeld(plan, window, k, s.pending)
  /\ FillsHeld(s.fills, s.long, TimeAt(window, k))

LEMMA WindowTimes ==
    ASSUME NEW plan, NEW window, Replayed(plan, window)
    PROVE  /\ Len(window) \in Nat \ {0}
           /\ \A k \in 1 .. Len(window) : window[k].ts \in Nat \ {0}
           /\ \A j, k \in 1 .. Len(window) : j <= k => window[j].ts <= window[k].ts
<1>1. Len(window) \in Nat \ {0} /\ \A k \in 1 .. Len(window) : window[k] \in Rows
  BY DEF Replayed
<1>2. \A k \in 1 .. Len(window) : window[k].ts \in Nat \ {0}
  BY <1>1 DEF Rows
<1>3. ASSUME NEW j \in 1 .. Len(window), NEW k \in 1 .. Len(window), j <= k
      PROVE  window[j].ts <= window[k].ts
  <2>1. j < k => window[j].ts < window[k].ts
    BY DEF Replayed, Rising
  <2>2. j < k \/ j = k
    BY <1>1, <1>3
  <2> QED  BY <1>2, <2>1, <2>2
<1> QED  BY <1>1, <1>2, <1>3

LEMMA BarBrings ==
    ASSUME NEW plan, NEW window, Replayed(plan, window), NEW k \in 0 .. Len(window) - 1,
           NEW s, ReplayHeld(plan, window, k, s)
    PROVE  LET t == ReadSignals(plan, s, window[k + 1])
           IN  /\ Brings(plan, window, t.changed, k + 1)
               /\ ReadTo(plan, t, Cutoff(plan.signals, window[k + 1].ts))
<1> DEFINE signals == plan.signals
           b == window[k + 1]
           c == IF k = 0 THEN 0 ELSE Cutoff(signals, window[k].ts)
           to == Cutoff(signals, b.ts)
           t == ReadSignals(plan, s, b)
<1>1. /\ signals \in Seq(SignalSet) /\ Rising(signals) /\ Len(signals) \in Nat
      /\ ReadTo(plan, s, c)
  BY DEF Replayed, ReplayHeld
<1>2. /\ k \in Nat /\ k + 1 \in 1 .. Len(window) /\ b.ts \in Nat
      /\ (k + 1) - 1 = k
  BY WindowTimes
<1>3. k # 0 => k \in 1 .. Len(window) /\ window[k].ts \in Nat /\ window[k].ts <= b.ts
  <2>1. k # 0 => k \in 1 .. Len(window) /\ k <= k + 1
    BY <1>2, WindowTimes
  <2> QED  BY <1>2, <2>1, WindowTimes
<1>4. /\ to \in 0 .. Len(signals) /\ Wish(plan, window, k + 1) = Wanted(signals, to)
      /\ \A i \in 1 .. Len(signals) : signals[i].ts < b.ts <=> i <= to
  BY <1>1, <1>2, SignalsRise DEF Wish
<1>5. Wish(plan, window, k) = Wanted(signals, c)
  <2>1. CASE k = 0
    BY <1>2, <2>1 DEF Wish, Wanted
  <2>2. CASE k # 0
    BY <1>1, <1>3, <2>2, SignalsRise DEF Wish
  <2> QED  BY <2>1, <2>2
<1>6. c <= to
  <2>1. CASE k = 0
    BY <1>4, <2>1
  <2>2. CASE k # 0
    <3>1. /\ c \in 0 .. Len(signals)
          /\ \A i \in 1 .. Len(signals) : signals[i].ts < window[k].ts <=> i <= c
      BY <1>1, <1>3, <2>2, SignalsRise
    <3>2. ASSUME c > to PROVE FALSE
      <4>1. c \in 1 .. Len(signals) /\ c <= c
        BY <1>1, <1>4, <3>1, <3>2
      <4>2. signals[c].ts < window[k].ts /\ ~(signals[c].ts < b.ts)
        BY <1>1, <1>4, <3>1, <3>2, <4>1
      <4>3. signals[c] \in SignalSet
        BY <1>1, <4>1
      <4>4. signals[c].ts \in Nat
        BY <4>3 DEF SignalSet
      <4> QED  BY <1>2, <1>3, <2>2, <4>2, <4>4
    <3> QED  BY <1>1, <1>4, <3>1, <3>2
  <2> QED  BY <2>1, <2>2
<1> HIDE DEF c, b
<1>7. /\ t.cursor = to /\ t.desired = Wanted(signals, to)
      /\ \/ t.changed = None /\ t.desired = s.desired
         \/ /\ t.changed \in SignalSet
            /\ t.changed.intent = t.desired
            /\ t.changed.ts < b.ts
  BY <1>1, <1>2, <1>6, Reading
<1>8. s.desired = Wanted(signals, c)
  BY <1>1 DEF ReadTo
<1> HIDE DEF t, to, signals
<1>9. Brings(plan, window, t.changed, k + 1)
  BY <1>2, <1>4, <1>5, <1>7, <1>8 DEF Brings, b
<1>10. ReadTo(plan, t, to)
  BY <1>4, <1>7 DEF ReadTo, signals
<1> QED  BY <1>9, <1>10 DEF t, to, b, signals

LEMMA ActsBrings ==
    ASSUME NEW plan, NEW window, Replayed(plan, window), NEW k \in 0 .. Len(window) - 1,
           NEW s, ReplayHeld(plan, window, k, s)
    PROVE  Brings(plan, window, ActsOn(plan, s, window[k + 1]), k + 1 - plan.delay_bars)
<1> DEFINE d == plan.delay_bars
<1>1. d \in Nat /\ Len(window) \in Nat /\ k \in Int
  BY WindowTimes DEF Replayed
<1>2. CASE d = 0
  <2>1. k + 1 - d = k + 1
    BY <1>1, <1>2
  <2>2. ActsOn(plan, s, window[k + 1]) = ReadSignals(plan, s, window[k + 1]).changed
    BY <1>2 DEF ActsOn
  <2> QED  BY <2>1, <2>2, BarBrings
<1>3. CASE d # 0
  <2>1. 0 \in 0 .. d - 1 /\ k - (d - 1 - 0) = k + 1 - d
    BY <1>1, <1>3
  <2>2. QueueHeld(plan, window, k, s.pending)
    BY DEF ReplayHeld
  <2>3. Brings(plan, window, IF 0 \in DOMAIN s.pending THEN s.pending[0] ELSE None,
               k - (d - 1 - 0))
    BY <2>1, <2>2 DEF QueueHeld
  <2>4. ActsOn(plan, s, window[k + 1]) = Due(s)
    BY <1>3 DEF ActsOn
  <2> QED  BY <2>1, <2>3, <2>4 DEF Due
<1> QED  BY <1>2, <1>3

LEMMA QueueMoves ==
    ASSUME NEW plan, plan.delay_bars \in Nat, NEW window, NEW k \in Nat, NEW s,
           QueueHeld(plan, window, k, s.pending),
           NEW changed, Brings(plan, window, changed, k + 1)
    PROVE  QueueHeld(plan, window, k + 1, Waiting(plan, s, changed))
<1> DEFINE d == plan.delay_bars
           q == s.pending
           delays == changed # None /\ d > 0
           left == {n - 1 : n \in DOMAIN q \ {0}} \cup (IF delays THEN {d - 1} ELSE {})
           w == [n \in left |-> IF delays /\ n = d - 1 THEN changed ELSE q[n + 1]]
<1>1. Waiting(plan, s, changed) = w
  BY DEF Waiting
<1>2. /\ d \in Nat /\ DOMAIN q \subseteq 0 .. d - 1
      /\ \A r \in 0 .. d - 1 :
           Brings(plan, window, IF r \in DOMAIN q THEN q[r] ELSE None, k - (d - 1 - r))
  BY DEF QueueHeld
<1>3. DOMAIN w = left
  OBVIOUS
<1>4. ASSUME NEW r \in 0 .. d - 1
      PROVE  r \in left <=> IF r = d - 1 THEN changed # None ELSE r + 1 \in DOMAIN q
  <2>1. CASE r = d - 1
    <3>1. ASSUME NEW n \in DOMAIN q \ {0}, n - 1 = r PROVE FALSE
      <4>1. n \in 0 .. d - 1
        BY <1>2
      <4> QED  BY <1>2, <2>1, <3>1, <4>1
    <3>2. d > 0
      BY <1>2
    <3> QED  BY <2>1, <3>1, <3>2
  <2>2. CASE r # d - 1
    <3>1. r + 1 \in DOMAIN q => r \in {n - 1 : n \in DOMAIN q \ {0}}
      <4> DEFINE n == r + 1
      <4>1. n # 0 /\ n - 1 = r
        BY <1>2
      <4> HIDE DEF n
      <4>2. n \in DOMAIN q => r \in {j - 1 : j \in DOMAIN q \ {0}}
        BY <4>1
      <4> QED  BY <4>2 DEF n
    <3>2. ASSUME NEW n \in DOMAIN q \ {0}, n - 1 = r PROVE r + 1 \in DOMAIN q
      <4>1. n = r + 1
        BY <1>2, <3>2
      <4> QED  BY <4>1
    <3> QED  BY <2>2, <3>1, <3>2
  <2> QED  BY <2>1, <2>2
<1>5. left \subseteq 0 .. d - 1
  <2>1. \A n \in DOMAIN q \ {0} : n - 1 \in 0 .. d - 1
    BY <1>2
  <2>2. delays => d - 1 \in 0 .. d - 1
    BY <1>2
  <2> QED  BY <2>1, <2>2
<1>6. ASSUME NEW r \in 0 .. d - 1
      PROVE  Brings(plan, window, IF r \in DOMAIN w THEN w[r] ELSE None, k + 1 - (d - 1 - r))
  <2>1. CASE r = d - 1
    <3>1. k + 1 - (d - 1 - r) = k + 1
      BY <1>2, <2>1
    <3>2. (IF r \in DOMAIN w THEN w[r] ELSE None) = changed
      <4>1. CASE changed = None
        <5>1. r \notin DOMAIN w
          BY <1>3, <1>4, <2>1, <4>1
        <5> QED  BY <4>1, <5>1, Zenon
      <4>2. CASE changed # None
        <5>1. r \in left /\ delays
          BY <1>2, <1>4, <2>1, <4>2
        <5>2. w[r] = changed
          BY <2>1, <5>1
        <5> QED  BY <1>3, <5>1, <5>2, Zenon
      <4> QED  BY <4>1, <4>2
    <3> QED  BY <3>1, <3>2
  <2>2. CASE r # d - 1
    <3>1. r + 1 \in 0 .. d - 1 /\ k - (d - 1 - (r + 1)) = k + 1 - (d - 1 - r)
      BY <1>2, <2>2
    <3>2. (IF r \in DOMAIN w THEN w[r] ELSE None) = IF r + 1 \in DOMAIN q THEN q[r + 1] ELSE None
      <4>1. CASE r + 1 \in DOMAIN q
        <5>1. r \in left
          BY <1>4, <2>2, <4>1
        <5>2. w[r] = q[r + 1]
          BY <2>2, <5>1
        <5> QED  BY <1>3, <4>1, <5>1, <5>2, Zenon
      <4>2. CASE r + 1 \notin DOMAIN q
        <5>1. r \notin left
          BY <1>4, <2>2, <4>2
        <5> QED  BY <1>3, <4>2, <5>1, Zenon
      <4> QED  BY <4>1, <4>2
    <3> DEFINE j == r + 1
    <3>3. Brings(plan, window, IF j \in DOMAIN q THEN q[j] ELSE None, k - (d - 1 - j))
      BY <1>2, <3>1
    <3> QED  BY <3>1, <3>2, <3>3
  <2> QED  BY <2>1, <2>2
<1>7. DOMAIN w \subseteq 0 .. d - 1
  BY <1>3, <1>5, Zenon
<1> HIDE DEF w, left
<1>8. QueueHeld(plan, window, k + 1, w)
  BY <1>6, <1>7 DEF QueueHeld
<1> QED  BY <1>1, <1>8

LEMMA FillsAppend ==
    ASSUME NEW fills, NEW long, NEW ts \in Nat, FillsHeld(fills, long, ts),
           NEW other, other = (long = FALSE),
           NEW f \in FillSet, f.intent = IF long THEN "FLAT" ELSE "LONG",
           f.source \in Nat, f.source < f.action, NEW to \in Nat, ts <= to, f.action <= to
    PROVE  FillsHeld(Append(fills, f), other, to)
<1> DEFINE n == Len(fills)
           fs == Append(fills, f)
<1>1. /\ fills \in Seq(FillSet) /\ n \in Nat /\ long = (n % 2 = 1)
      /\ \A i \in 1 .. n : /\ fills[i].intent = IF i % 2 = 1 THEN "LONG" ELSE "FLAT"
                           /\ fills[i].source \in Nat
                           /\ fills[i].source < fills[i].action
                           /\ fills[i].action <= ts
  BY DEF FillsHeld
<1>2. /\ fs \in Seq(FillSet) /\ Len(fs) = n + 1 /\ fs[n + 1] = f
      /\ \A i \in 1 .. n : fs[i] = fills[i]
  BY <1>1
<1>3. \A i \in 1 .. n : fills[i] \in FillSet
  BY <1>1
<1> HIDE DEF n, fs
<1>4. (n + 1) % 2 = 1 <=> ~(n % 2 = 1)
  BY <1>1
<1>5. ASSUME NEW i \in 1 .. Len(fs)
      PROVE  /\ fs[i].intent = IF i % 2 = 1 THEN "LONG" ELSE "FLAT"
             /\ fs[i].source \in Nat
             /\ fs[i].source < fs[i].action
             /\ fs[i].action <= to
  <2>1. CASE i = n + 1
    BY <1>1, <1>2, <1>4, <2>1
  <2>2. CASE i # n + 1
    <3>1. i \in 1 .. n
      BY <1>1, <1>2, <2>2
    <3>2. fills[i] \in FillSet
      BY <1>3, <3>1
    <3>3. fills[i].action \in Nat
      BY <3>2 DEF FillSet
    <3>4. fs[i] = fills[i]
      BY <1>2, <3>1
    <3>5. /\ fills[i].intent = IF i % 2 = 1 THEN "LONG" ELSE "FLAT"
          /\ fills[i].source \in Nat /\ fills[i].source < fills[i].action
      BY <1>1, <3>1
    <3>6. fills[i].action <= ts
      BY <1>1, <3>1
    <3>7. fills[i].action <= to
      BY <3>3, <3>6
    <3> QED  BY <3>4, <3>5, <3>7
  <2> QED  BY <2>1, <2>2
<1>6. other = (Len(fs) % 2 = 1)
  BY <1>1, <1>2, <1>4
<1> QED  BY <1>2, <1>5, <1>6 DEF FillsHeld, fs

LEMMA ReplayStarts ==
    ASSUME NEW plan, NEW window, Replayed(plan, window)
    PROVE  ReplayHeld(plan, window, 0, NewReplay)
<1> DEFINE d == plan.delay_bars
<1>1. /\ d \in Nat /\ Len(window) \in Nat /\ plan.signals \in Seq(SignalSet)
      /\ Len(plan.signals) \in Nat
  BY WindowTimes DEF Replayed
<1>2. \A m \in Int : m <= 0 => Wish(plan, window, m) = "FLAT"
  BY <1>1 DEF Wish
<1>3. HasFields(NewReplay) /\ NewReplay.flattened = FALSE
  BY DEF HasFields, NewReplay
<1>4. ReadTo(plan, NewReplay, 0)
  BY <1>1 DEF ReadTo, NewReplay, Wanted
<1>5. NewReplay.long = (Wish(plan, window, 0 - d) = "LONG")
  <2>1. Wish(plan, window, 0 - d) = "FLAT"
    BY <1>1, <1>2
  <2>2. NewReplay.long = FALSE
    BY DEF NewReplay
  <2> QED  BY <2>1, <2>2
<1>6. QueueHeld(plan, window, 0, NewReplay.pending)
  <2>1. DOMAIN NewReplay.pending = {}
    BY DEF NewReplay
  <2>2. ASSUME NEW r \in 0 .. d - 1 PROVE Brings(plan, window, None, 0 - (d - 1 - r))
    <3> DEFINE m == 0 - (d - 1 - r)
    <3>1. m \in Int /\ m - 1 \in Int /\ m <= 0 /\ m - 1 <= 0
      BY <1>1
    <3> HIDE DEF m
    <3>2. Brings(plan, window, None, m)
      BY <1>2, <3>1 DEF Brings
    <3> QED  BY <3>2 DEF m
  <2> QED  BY <2>1, <2>2 DEF QueueHeld
<1>7. FillsHeld(NewReplay.fills, NewReplay.long, TimeAt(window, 0))
  <2>1. NewReplay.fills = <<>> /\ NewReplay.long = FALSE
    BY DEF NewReplay
  <2>2. <<>> \in Seq(FillSet) /\ Len(<<>>) = 0 /\ 0 % 2 # 1
    OBVIOUS
  <2>3. FALSE = (Len(<<>>) % 2 = 1)
    BY <2>2
  <2>4. FillsHeld(<<>>, FALSE, TimeAt(window, 0))
    BY <2>2, <2>3 DEF FillsHeld
  <2> QED  BY <2>1, <2>4
<1> QED  BY <1>3, <1>4, <1>5, <1>6, <1>7 DEF ReplayHeld

\* A signal that is acted on leads to the other position and comes from before the bar.
LEMMA FillOfSignal ==
    ASSUME NEW plan, NEW window, Replayed(plan, window), NEW k \in 1 .. Len(window),
           NEW m, m <= k, NEW x, Brings(plan, window, x, m), x # None
    PROVE  /\ x.intent = Wish(plan, window, m) /\ x.ts \in Nat /\ x.ts < window[k].ts
           /\ FillFor(x.intent, x.ts, window[k]) \in FillSet
<1>1. /\ x \in SignalSet /\ m \in 1 .. Len(window)
      /\ x.intent = Wish(plan, window, m) /\ x.ts < window[m].ts
  BY DEF Brings
<1>2. x.intent \in {"LONG", "FLAT"} /\ x.ts \in Nat
  BY <1>1 DEF SignalSet
<1>3. window[m].ts <= window[k].ts /\ window[m].ts \in Nat /\ window[k].ts \in Nat
  BY <1>1, WindowTimes
<1>4. x.ts < window[k].ts
  BY <1>1, <1>2, <1>3
<1>5. FillFor(x.intent, x.ts, window[k]) \in FillSet
  BY <1>2, <1>3 DEF FillFor, FillSet
<1> QED  BY <1>1, <1>2, <1>4, <1>5

LEMMA ReplayGoesOn ==
    ASSUME NEW plan, NEW window, Replayed(plan, window),
           NEW k \in Nat, k + 1 < Len(window), NEW s, ReplayHeld(plan, window, k, s)
    PROVE  ReplayHeld(plan, window, k + 1, OnBar(plan, s, window[k + 1]))
<1> DEFINE d == plan.delay_bars
           b == window[k + 1]
           m == k + 1 - d
           t == ReadSignals(plan, s, b)
           x == ActsOn(plan, s, b)
           o == OnBar(plan, s, b)
<1>1. /\ d \in Nat /\ Len(window) \in Nat
      /\ k \in 0 .. Len(window) - 1 /\ k + 1 \in 1 .. Len(window)
      /\ m <= k + 1 /\ m - 1 = k - d /\ k + 1 # 0
  BY WindowTimes DEF Replayed
<1>2. /\ HasFields(s) /\ s.flattened = FALSE
      /\ s.long = (Wish(plan, window, m - 1) = "LONG")
      /\ QueueHeld(plan, window, k, s.pending)
      /\ FillsHeld(s.fills, s.long, TimeAt(window, k))
  BY <1>1 DEF ReplayHeld
<1>3. ~AtBoundary(plan, b)
  <2>1. Len(window) \in 1 .. Len(window)
    BY <1>1
  <2>2. b.ts < window[Len(window)].ts
    BY <1>1, <2>1 DEF Replayed, Rising
  <2>3. b.ts \in Nat /\ window[Len(window)].ts \in Nat
    BY <1>1, <2>1, WindowTimes
  <2> QED  BY <2>2, <2>3 DEF AtBoundary, Replayed
<1>4. TimeAt(window, k) \in Nat /\ b.ts \in Nat /\ TimeAt(window, k) <= b.ts
  <2>1. b.ts \in Nat
    BY <1>1, WindowTimes
  <2>2. CASE k = 0
    BY <2>1, <2>2 DEF TimeAt
  <2>3. CASE k # 0
    <3>1. k \in 1 .. Len(window) /\ k <= k + 1
      BY <1>1, <2>3
    <3>2. window[k].ts \in Nat /\ window[k].ts <= b.ts
      BY <1>1, <3>1, WindowTimes
    <3> QED  BY <2>1, <2>3, <3>2 DEF TimeAt
  <2> QED  BY <2>2, <2>3
<1>5. /\ Brings(plan, window, t.changed, k + 1)
      /\ ReadTo(plan, t, Cutoff(plan.signals, b.ts))
  BY <1>1, BarBrings
<1>6. Brings(plan, window, x, m)
  BY <1>1, ActsBrings
<1> HIDE DEF b, m, t, x, o
<1>7. /\ HasFields(o)
      /\ o.cursor = t.cursor /\ o.desired = t.desired
      /\ o.pending = Waiting(plan, s, t.changed)
      /\ o.flattened = s.flattened
      /\ \/ /\ x = None \/ s.long = (x.intent = "LONG")
            /\ o.long = s.long /\ o.fills = s.fills
         \/ /\ x # None /\ s.long # (x.intent = "LONG")
            /\ o.long = (x.intent = "LONG")
            /\ o.fills = Append(s.fills, FillFor(x.intent, x.ts, b))
  <2>1. s.long \in BOOLEAN
    BY <1>2
  <2>2. HasFields(s)
    BY <1>2
  <2>3. OrdinaryStep(plan, s, b, t, x, o)
    BY <1>3, <2>1, <2>2, OrdinaryBar DEF t, x, o
  <2> QED  BY <2>3 DEF OrdinaryStep
<1>8. ReadTo(plan, o, Cutoff(plan.signals, b.ts))
  BY <1>5, <1>7 DEF ReadTo
<1>9. QueueHeld(plan, window, k + 1, o.pending)
  <2>1. QueueHeld(plan, window, k + 1, Waiting(plan, s, t.changed))
    BY <1>1, <1>2, <1>5, QueueMoves
  <2> QED  BY <1>7, <2>1
<1>10. x # None => /\ x.intent = Wish(plan, window, m) /\ x.ts \in Nat /\ x.ts < b.ts
                  /\ FillFor(x.intent, x.ts, b) \in FillSet
  BY <1>1, <1>6, FillOfSignal DEF b
<1>11. o.long = (Wish(plan, window, m) = "LONG")
  <2>1. CASE x = None
    <3>1. Wish(plan, window, m) = Wish(plan, window, m - 1)
      <4>1. None \notin SignalSet
        BY ReplayAssumption DEF SignalSet
      <4> QED  BY <1>6, <2>1, <4>1 DEF Brings
    <3>2. o.long = s.long
      BY <1>7, <2>1
    <3> QED  BY <1>2, <3>1, <3>2
  <2>2. CASE x # None
    BY <1>7, <1>10, <2>2
  <2> QED  BY <2>1, <2>2
<1>12. FillsHeld(o.fills, o.long, b.ts)
  <2>1. CASE o.long = s.long /\ o.fills = s.fills
    <3>1. /\ s.fills \in Seq(FillSet)
          /\ \A i \in 1 .. Len(s.fills) : s.fills[i].action <= TimeAt(window, k)
      BY <1>2 DEF FillsHeld
    <3>2. ASSUME NEW i \in 1 .. Len(s.fills) PROVE s.fills[i].action <= b.ts
      <4>1. s.fills[i] \in FillSet /\ s.fills[i].action <= TimeAt(window, k)
        BY <3>1
      <4>2. s.fills[i].action \in Nat
        BY <4>1 DEF FillSet
      <4> QED  BY <1>4, <4>1, <4>2
    <3>3. FillsHeld(s.fills, s.long, b.ts)
      BY <1>2, <3>2 DEF FillsHeld
    <3> QED  BY <2>1, <3>3
  <2>2. CASE /\ x # None /\ s.long # (x.intent = "LONG")
             /\ o.long = (x.intent = "LONG")
             /\ o.fills = Append(s.fills, FillFor(x.intent, x.ts, b))
    <3> DEFINE f == FillFor(x.intent, x.ts, b)
    <3>1. f \in FillSet /\ f.source = x.ts /\ f.action = b.ts /\ f.intent = x.intent
      BY <1>10, <2>2 DEF FillFor
    <3>2. f.intent = IF s.long THEN "FLAT" ELSE "LONG"
      <4>1. f.intent \in {"LONG", "FLAT"}
        BY <3>1 DEF FillSet
      <4> QED  BY <1>2, <2>2, <3>1, <4>1
    <3>3. o.long = (s.long = FALSE)
      BY <1>2, <2>2
    <3>4. f.source \in Nat /\ f.source < f.action /\ f.action <= b.ts
      BY <1>4, <1>10, <2>2, <3>1
    <3> HIDE DEF f
    <3>5. FillsHeld(Append(s.fills, f), o.long, b.ts)
      BY <1>2, <1>4, <3>1, <3>2, <3>3, <3>4, FillsAppend
    <3>6. o.fills = Append(s.fills, f)
      BY <2>2 DEF f
    <3> QED  BY <3>5, <3>6
  <2> QED  BY <1>7, <2>1, <2>2
<1>13. TimeAt(window, k + 1) = b.ts
  BY <1>1 DEF TimeAt, b
<1> QED
  BY <1>1, <1>2, <1>7, <1>8, <1>9, <1>11, <1>12, <1>13 DEF ReplayHeld, o, b, m

\* After every bar but the boundary.
LEMMA ReplayInv ==
    ASSUME NEW plan, NEW window, Replayed(plan, window)
    PROVE  \A k \in 0 .. Len(window) - 1 :
             ReplayHeld(plan, window, k, ReplayStates(plan, window)[k])
<1> DEFINE n == Len(window) - 1
           after == ReplayStates(plan, window)
           S == {k \in 0 .. n : ReplayHeld(plan, window, k, after[k])}
<1>1. n \in Nat /\ Len(window) \in Nat /\ Len(window) = n + 1
  BY WindowTimes
<1>2. /\ after[0] = NewReplay
      /\ \A k \in 0 .. Len(window) - 1 : after[k + 1] = OnBar(plan, after[k], window[k + 1])
  BY <1>1, ReplayTakesBars
<1> HIDE DEF after
<1>3. 0 \in S
  BY <1>1, <1>2, ReplayStarts
<1>4. ASSUME NEW k \in S, k < n PROVE k + 1 \in S
  <2>1. /\ k \in Nat /\ k + 1 < Len(window) /\ k \in 0 .. Len(window) - 1 /\ k + 1 \in 0 .. n
        /\ ReplayHeld(plan, window, k, after[k])
    BY <1>1, <1>4
  <2>2. ReplayHeld(plan, window, k + 1, OnBar(plan, after[k], window[k + 1]))
    BY <2>1, ReplayGoesOn
  <2>3. after[k + 1] = OnBar(plan, after[k], window[k + 1])
    BY <1>2, <2>1
  <2> QED  BY <2>1, <2>2, <2>3
<1>5. S = 0 .. n
  <2>1. S \in SUBSET (0 .. n)
    OBVIOUS
  <2> HIDE DEF S, n
  <2> QED  BY <1>1, <1>3, <1>4, <2>1, UpTo
<1>6. \A k \in 0 .. n : ReplayHeld(plan, window, k, after[k])
  BY <1>5
<1> QED  BY <1>6 DEF after

-----------------------------------------------------------------------------
(* The signals of a history.                                               *)

\* How many answers a history has after the warm-up.
Answers(r, i) == IF i < Warmup(r) THEN 0 ELSE i - Warmup(r) + 1

\* The signal of the i-th bar.
SignalAt(r, bars, i) ==
  [intent |-> Decision(r, Holds(r, SubSeq(bars, 1, i))), ts |-> bars[i].ts]

\* The signals of the first i bars.
SignalsUpTo(r, bars, i) ==
  [k \in 1 .. Answers(r, i) |-> SignalAt(r, bars, Warmup(r) + k - 1)]

LEMMA DecisionsOfFamily ==
    ASSUME NEW r, ValidRule(r), NEW S, NEW bars \in Seq(S)
    PROVE  FamilyDecisions(r, bars) = SignalsUpTo(r, bars, Len(bars))
<1> DEFINE n == Len(bars)
           w == Warmup(r)
           e == Pushes(r, bars)
           next(ds, i) == LET decision == Decision(r, e[i])
                          IN  IF decision = "NONE" THEN ds
                              ELSE Append(ds, [intent |-> decision, ts |-> bars[i].ts])
           g == [i \in 0 .. n |-> SignalsUpTo(r, bars, i)]
           f == CHOOSE f : f = [i \in 0 .. n |-> IF i = 0 THEN <<>> ELSE next(f[i - 1], i)]
<1>1. n \in Nat /\ w \in Nat \ {0}
  BY WarmupType
<1>2. g[0] = <<>>
  <2>1. Answers(r, 0) = 0
    BY <1>1 DEF Answers
  <2>2. g[0] = SignalsUpTo(r, bars, 0)
    BY <1>1
  <2>3. SignalsUpTo(r, bars, 0) = [k \in 1 .. 0 |-> SignalAt(r, bars, Warmup(r) + k - 1)]
    BY <2>1 DEF SignalsUpTo
  <2> QED  BY <2>2, <2>3
<1>3. ASSUME NEW i \in 1 .. n PROVE SignalsUpTo(r, bars, i) = next(SignalsUpTo(r, bars, i - 1), i)
  <2> DEFINE h == SubSeq(bars, 1, i)
             decision == Decision(r, e[i])
             a == SignalsUpTo(r, bars, i - 1)
             b == SignalsUpTo(r, bars, i)
             m == Answers(r, i - 1)
  <2>1. e[i] = Holds(r, h)
    <3>1. i \in 0 .. Len(bars)
      BY <1>1
    <3> QED  BY <3>1, PushesHolds
  <2>2. h \in Seq(S) /\ Len(h) = i
    BY <1>1
  <2> HIDE DEF h, e
  <2>3. decision = "NONE" <=> i < w
    BY <2>1, <2>2, WarmingUp
  <2>4. CASE i < w
    <3>1. Answers(r, i) = 0 /\ m = 0
      BY <1>1, <2>4 DEF Answers
    <3>2. a = b
      BY <3>1 DEF SignalsUpTo
    <3> HIDE DEF a, b
    <3> QED  BY <2>3, <2>4, <3>2 DEF a, b
  <2>5. CASE ~(i < w)
    <3>1. m \in Nat /\ Answers(r, i) = m + 1 /\ w + (m + 1) - 1 = i
      BY <1>1, <2>5 DEF Answers
    <3> DEFINE x == SignalAt(r, bars, i)
    <3>2. x = [intent |-> decision, ts |-> bars[i].ts]
      BY <2>1 DEF SignalAt, h
    <3> HIDE DEF m, decision, x
    <3>3. a = [k \in 1 .. m |-> SignalAt(r, bars, w + k - 1)]
      BY DEF SignalsUpTo, m
    <3>4. b = [k \in 1 .. m + 1 |-> SignalAt(r, bars, w + k - 1)]
      BY <3>1 DEF SignalsUpTo
    <3> HIDE DEF a, b
    <3>5. /\ Len(Append(a, x)) = m + 1 /\ Append(a, x)[m + 1] = x
          /\ \A k \in 1 .. m : Append(a, x)[k] = a[k]
          /\ Append(a, x) = [k \in 1 .. m + 1 |-> Append(a, x)[k]]
      <4> DEFINE T == {a[k] : k \in 1 .. m} \cup {x}
      <4>1. a \in [1 .. m -> T]
        BY <3>3
      <4>2. a \in Seq(T) /\ Len(a) = m /\ x \in T
        BY <3>1, <4>1
      <4> HIDE DEF T
      <4>3. Append(a, x) \in Seq(T) /\ Len(Append(a, x)) = m + 1
        BY <3>1, <4>2
      <4> DEFINE c == Append(a, x)
      <4>4. c \in [1 .. m + 1 -> T]
        <5>1. Append(a, x) \in [1 .. Len(Append(a, x)) -> T]
          BY <4>3, LenProperties
        <5> QED  BY <4>3, <5>1
      <4> HIDE DEF c
      <4>5. c = [k \in 1 .. m + 1 |-> c[k]]
        BY <4>4
      <4>6. /\ Append(a, x)[m + 1] = x
            /\ \A k \in 1 .. m : Append(a, x)[k] = a[k]
        BY <3>1, <4>2
      <4> QED  BY <4>3, <4>5, <4>6 DEF c
    <3>6. b[m + 1] = x
      <4>1. m + 1 \in 1 .. m + 1
        BY <3>1
      <4> QED  BY <3>1, <3>4, <4>1 DEF x
    <3>7. \A k \in 1 .. m : b[k] = a[k]
      BY <3>1, <3>3, <3>4
    <3>8. b = Append(a, x)
      <4> DEFINE c == Append(a, x)
      <4>1. c = [k \in 1 .. m + 1 |-> c[k]]
        BY <3>5
      <4>2. b = [k \in 1 .. m + 1 |-> b[k]]
        BY <3>4
      <4>3. ASSUME NEW k \in 1 .. m + 1 PROVE b[k] = c[k]
        <5>1. k = m + 1 \/ k \in 1 .. m
          BY <3>1
        <5> QED  BY <3>5, <3>6, <3>7, <5>1
      <4> HIDE DEF c
      <4>4. b = c
        BY <4>1, <4>2, <4>3
      <4> QED  BY <4>4 DEF c
    <3>9. decision # "NONE"
      BY <2>3, <2>5
    <3> QED  BY <3>2, <3>8, <3>9, Zenon DEF a, b, decision
  <2> QED  BY <2>4, <2>5
<1>4. g = [i \in 0 .. n |-> IF i = 0 THEN <<>> ELSE next(g[i - 1], i)]
  <2>1. ASSUME NEW i \in 0 .. n PROVE g[i] = IF i = 0 THEN <<>> ELSE next(g[i - 1], i)
    <3>1. CASE i = 0
      BY <1>2, <3>1
    <3>2. CASE i # 0
      <4>1. i \in 1 .. n /\ i - 1 \in 0 .. n
        BY <1>1, <3>2
      <4>2. g[i] = SignalsUpTo(r, bars, i) /\ g[i - 1] = SignalsUpTo(r, bars, i - 1)
        BY <4>1
      <4> HIDE DEF g, next
      <4> QED  BY <1>3, <3>2, <4>1, <4>2
    <3> HIDE DEF g, next
    <3> QED  BY <3>1, <3>2
  <2> HIDE DEF next
  <2> QED  BY <2>1
<1>5. FamilyDecisions(r, bars) = f[n]
  BY Zenon DEF FamilyDecisions
<1> HIDE DEF g, next
<1>6. f = [i \in 0 .. n |-> IF i = 0 THEN <<>> ELSE next(f[i - 1], i)]
  BY <1>4, Zenon
<1> HIDE DEF f
<1>7. f[0] = g[0]
  BY <1>1, <1>2, <1>6
<1>8. ASSUME NEW m \in 0 .. n - 1, f[m] = g[m] PROVE f[m + 1] = g[m + 1]
  <2>1. m + 1 \in 0 .. n /\ m + 1 # 0 /\ (m + 1) - 1 = m
    BY <1>1
  <2>2. f[m + 1] = next(f[m], m + 1)
    BY <1>6, <2>1
  <2>3. g[m + 1] = next(g[m], m + 1)
    BY <1>4, <2>1
  <2> QED  BY <1>8, <2>2, <2>3
<1>9. f[n] = g[n]
  <2>1. \A i \in 0 .. n : f[i] = g[i]
    BY <1>1, <1>7, <1>8, SameRecursion
  <2> QED  BY <1>1, <2>1
<1>10. g[n] = SignalsUpTo(r, bars, n)
  BY <1>1 DEF g
<1> QED  BY <1>5, <1>9, <1>10

\* A candidate is replayed on what a live strategy answers after its warm-up.
SignalsAreAnswers ==
  LET w == Warmup(deployment)
  IN  FamilyDecisions(deployment, heard) =
        [k \in 1 .. Answers(deployment, Len(heard)) |->
           [intent |-> decided[w + k - 1], ts |-> heard[w + k - 1].ts]]

\* _family_decisions and on_closed_bar: the signals a replay is planned with are the answers
\* of a live strategy to the same bars, whatever restarts it has been through.
THEOREM SignalsOfLive == Spec => []SignalsAreAnswers
<1>1. KernelInv => SignalsAreAnswers
  <2> SUFFICES ASSUME KernelInv PROVE SignalsAreAnswers
    OBVIOUS
  <2> DEFINE w == Warmup(deployment)
             n == Len(heard)
             a == Answers(deployment, n)
             answered(k) == [intent |-> decided[w + k - 1], ts |-> heard[w + k - 1].ts]
  <2>1. /\ ValidRule(deployment) /\ heard \in Seq(Rows) /\ n \in Nat
        /\ \A i \in 1 .. n :
             decided[i] = Decision(deployment, Holds(deployment, SubSeq(heard, 1, i)))
    BY StrategyAssumption DEF KernelInv, HistoryHeld, ValidDeployment
  <2>2. w \in Nat \ {0}
    BY <2>1, WarmupType
  <2>3. FamilyDecisions(deployment, heard) = SignalsUpTo(deployment, heard, n)
    BY <2>1, DecisionsOfFamily
  <2> HIDE DEF w, n
  <2>4. \A k \in 1 .. a : w + k - 1 \in 1 .. n
    BY <2>1, <2>2 DEF Answers, w
  <2>5. SignalsUpTo(deployment, heard, n) =
          [k \in 1 .. a |-> SignalAt(deployment, heard, w + k - 1)]
    BY DEF SignalsUpTo, w
  <2> HIDE DEF a
  <2>6. \A k \in 1 .. a : SignalAt(deployment, heard, w + k - 1) = answered(k)
    <3> TAKE k \in 1 .. a
    <3>1. decided[w + k - 1] =
            Decision(deployment, Holds(deployment, SubSeq(heard, 1, w + k - 1)))
      BY <2>1, <2>4
    <3> QED  BY <3>1 DEF SignalAt
  <2> QED  BY <2>3, <2>5, <2>6 DEF SignalsAreAnswers, w, n, a
<1> QED  BY <1>1, KernelHolds, PTL

\* Bars that come one after the other rise.
LEMMA SpacedRises ==
    ASSUME NEW hs \in Seq(Rows), \A i \in 1 .. Len(hs) - 1 : hs[i].ts < hs[i + 1].ts
    PROVE  Rising(hs)
<1>1. Len(hs) \in Nat /\ \A i \in 1 .. Len(hs) : hs[i] \in Rows
  OBVIOUS
<1>2. \A i \in 1 .. Len(hs) : hs[i].ts \in Nat
  BY <1>1 DEF Rows
<1> SUFFICES ASSUME NEW i \in 1 .. Len(hs), NEW j \in 1 .. Len(hs), i < j
             PROVE  hs[i].ts < hs[j].ts
  BY DEF Rising
<1> DEFINE n == j - i - 1
           S == {m \in 0 .. n : hs[i].ts < hs[i + 1 + m].ts}
<1>3. n \in Nat /\ i + 1 + n = j
  OBVIOUS
<1>4. 0 \in S
  <2>1. i \in 1 .. Len(hs) - 1 /\ i + 1 + 0 = i + 1
    BY <1>1
  <2> QED  BY <1>3, <2>1
<1>5. ASSUME NEW m \in S, m < n PROVE m + 1 \in S
  <2> DEFINE k == i + 1 + m
  <2>1. k \in 1 .. Len(hs) - 1 /\ k + 1 = i + 1 + (m + 1) /\ m + 1 \in 0 .. n
        /\ k \in 1 .. Len(hs) /\ k + 1 \in 1 .. Len(hs)
    BY <1>1, <1>3, <1>5
  <2>2. hs[i].ts < hs[k].ts
    OBVIOUS
  <2> HIDE DEF k
  <2>3. hs[k].ts < hs[k + 1].ts
    BY <2>1
  <2>4. hs[i].ts \in Nat /\ hs[k].ts \in Nat /\ hs[k + 1].ts \in Nat
    BY <1>2, <2>1
  <2>5. hs[i].ts < hs[k + 1].ts
    BY <2>2, <2>3, <2>4
  <2> QED  BY <2>1, <2>5
<1>6. S = 0 .. n
  <2>1. S \in SUBSET (0 .. n)
    OBVIOUS
  <2> HIDE DEF S, n
  <2> QED  BY <1>3, <1>4, <1>5, <2>1, UpTo
<1>7. n \in S
  <2>1. n \in 0 .. n
    BY <1>3
  <2> HIDE DEF S
  <2> QED  BY <1>6, <2>1
<1> QED  BY <1>3, <1>7

\* The signals of a history whose evaluator never raises.
LEMMA SignalsOfHistory ==
    ASSUME NEW r, ValidRule(r), NEW bars \in Seq(Rows), Rising(bars),
           \A i \in 1 .. Len(bars) : Decision(r, Holds(r, SubSeq(bars, 1, i))) # "RAISED"
    PROVE  /\ FamilyDecisions(r, bars) \in Seq(SignalSet)
           /\ Rising(FamilyDecisions(r, bars))
<1> DEFINE n == Len(bars)
           w == Warmup(r)
           a == Answers(r, n)
           signals == SignalsUpTo(r, bars, n)
<1>1. n \in Nat /\ w \in Nat \ {0} /\ \A i \in 1 .. n : bars[i] \in Rows
  BY WarmupType
<1>2. a \in Nat /\ \A k \in 1 .. a : w + k - 1 \in w .. n /\ w + k - 1 \in 1 .. n
  BY <1>1 DEF Answers
<1> HIDE DEF a
<1>3. signals = [k \in 1 .. a |-> SignalAt(r, bars, w + k - 1)]
  BY DEF SignalsUpTo, a
<1> HIDE DEF signals
<1>4. ASSUME NEW i \in w .. n, i \in 1 .. n PROVE SignalAt(r, bars, i) \in SignalSet
  <2>1. SubSeq(bars, 1, i) \in Seq(Rows) /\ Len(SubSeq(bars, 1, i)) = i
    BY <1>1, <1>4
  <2> DEFINE d == Decision(r, Holds(r, SubSeq(bars, 1, i)))
  <2>2. d \in {"NONE", "LONG", "FLAT", "RAISED"} /\ (d = "NONE" <=> i < w)
    BY <2>1, WarmingUp
  <2>3. d # "RAISED" /\ ~(i < w)
    BY <1>1, <1>4
  <2>4. bars[i].ts \in Nat
    BY <1>1, <1>4 DEF Rows
  <2> HIDE DEF d
  <2>5. d \in {"LONG", "FLAT"}
    BY <2>2, <2>3
  <2> QED  BY <2>4, <2>5 DEF SignalAt, SignalSet, d
<1>5. signals \in Seq(SignalSet) /\ Len(signals) = a
  <2>1. \A k \in 1 .. a : SignalAt(r, bars, w + k - 1) \in SignalSet
    <3> TAKE k \in 1 .. a
    <3> DEFINE i == w + k - 1
    <3>1. i \in w .. n /\ i \in 1 .. n
      BY <1>2
    <3> HIDE DEF i
    <3>2. SignalAt(r, bars, i) \in SignalSet
      BY <1>4, <3>1
    <3> QED  BY <3>2 DEF i
  <2>2. signals \in [1 .. a -> SignalSet]
    BY <1>3, <2>1
  <2> QED  BY <1>2, <2>2
<1>6. Rising(signals)
  <2> SUFFICES ASSUME NEW i \in 1 .. a, NEW j \in 1 .. a, i < j
               PROVE  signals[i].ts < signals[j].ts
    BY <1>5 DEF Rising
  <2>1. w + i - 1 \in 1 .. n /\ w + j - 1 \in 1 .. n /\ w + i - 1 < w + j - 1
    BY <1>1, <1>2
  <2>2. signals[i].ts = bars[w + i - 1].ts /\ signals[j].ts = bars[w + j - 1].ts
    BY <1>3 DEF SignalAt
  <2> QED  BY <2>1, <2>2 DEF Rising
<1> QED  BY <1>5, <1>6, DecisionsOfFamily DEF signals

\* A window of a history.
LEMMA WindowOfHistory ==
    ASSUME NEW bars \in Seq(Rows), Rising(bars), NEW window \in Windows(bars)
    PROVE  window \in Seq(Rows) /\ window # <<>> /\ Rising(window) /\ Len(window) \in Nat \ {0}
<1>1. PICK i \in 1 .. Len(bars), j \in 1 .. Len(bars) : window = SubSeq(bars, i, j)
  <2>1. DOMAIN bars = 1 .. Len(bars)
    OBVIOUS
  <2>2. \E i \in DOMAIN bars, j \in DOMAIN bars : window = SubSeq(bars, i, j)
    <3> DEFINE T == {SubSeq(bars, i, j) : i \in DOMAIN bars, j \in DOMAIN bars}
    <3>1. window \in T \ {<<>>}
      BY DEF Windows
    <3>2. window \in T
      <4> HIDE DEF T
      <4> QED  BY <3>1
    <3> QED  BY <3>2
  <2> QED  BY <2>1, <2>2
<1>2. window # <<>>
  BY DEF Windows
<1>3. Len(bars) \in Nat /\ \A k \in 1 .. Len(bars) : bars[k] \in Rows
  OBVIOUS
<1>4. window \in Seq(Rows)
  BY <1>1
<1>5. Len(window) \in Nat \ {0}
  BY <1>2, <1>4
<1>6. Len(window) = j - i + 1 /\ i <= j
  <2>1. Len(window) = IF i <= j THEN j - i + 1 ELSE 0
    BY <1>1, <1>3
  <2> QED  BY <1>5, <2>1
<1>7. \A k \in 1 .. Len(window) : window[k] = bars[i + k - 1] /\ i + k - 1 \in 1 .. Len(bars)
  BY <1>1, <1>3, <1>6
<1>8. Rising(window)
  <2> SUFFICES ASSUME NEW k \in 1 .. Len(window), NEW m \in 1 .. Len(window), k < m
               PROVE  window[k].ts < window[m].ts
    BY DEF Rising
  <2>1. /\ i + k - 1 \in 1 .. Len(bars) /\ i + m - 1 \in 1 .. Len(bars)
        /\ i + k - 1 < i + m - 1
    BY <1>3, <1>5, <1>7
  <2> QED  BY <1>7, <2>1 DEF Rising
<1> QED  BY <1>2, <1>4, <1>5, <1>8

\* What is replayed of a history that a live strategy has heard.
LEMMA ReplayedHistory ==
    ASSUME KernelInv, Replayable, NEW window \in Windows(heard), NEW delay \in Delays
    PROVE  LET plan == Plan(FamilyDecisions(deployment, heard), window, delay)
           IN  /\ Replayed(plan, window)
               /\ plan.signals = FamilyDecisions(deployment, heard)
               /\ plan.delay_bars = delay
<1> DEFINE signals == FamilyDecisions(deployment, heard)
           plan == Plan(signals, window, delay)
<1>1. /\ ValidRule(deployment) /\ heard \in Seq(Rows) /\ Len(decided) = Len(heard)
      /\ decided \in Seq(Decisions)
      /\ \A i \in 1 .. Len(heard) - 1 : heard[i].ts < heard[i + 1].ts
      /\ \A i \in 1 .. Len(heard) :
           decided[i] = Decision(deployment, Holds(deployment, SubSeq(heard, 1, i)))
  BY StrategyAssumption DEF KernelInv, HistoryHeld, Spaced, ValidDeployment
<1>2. \A i \in 1 .. Len(heard) :
        Decision(deployment, Holds(deployment, SubSeq(heard, 1, i))) # "RAISED"
  <2>1. \A i \in 1 .. Len(heard) : decided[i] # "RAISED"
    BY <1>1 DEF Replayable
  <2> QED  BY <1>1, <2>1
<1>3. Rising(heard)
  BY <1>1, SpacedRises
<1>4. signals \in Seq(SignalSet) /\ Rising(signals)
  BY <1>1, <1>2, <1>3, SignalsOfHistory
<1>5. window \in Seq(Rows) /\ window # <<>> /\ Rising(window) /\ Len(window) \in Nat \ {0}
  BY <1>1, <1>3, WindowOfHistory
<1>6. delay \in Nat
  BY ReplayAssumption
<1> HIDE DEF signals
<1>7. plan.signals = signals /\ plan.delay_bars = delay /\ plan.boundary = window[Len(window)].ts
  BY <1>5 DEF Plan, Last
<1> HIDE DEF plan
<1>8. Replayed(plan, window)
  BY <1>4, <1>5, <1>6, <1>7 DEF Replayed
<1> QED  BY <1>7, <1>8 DEF plan, signals

\* "bar-close; effective no earlier than next event" (_CandidateReplayStrategy.on_bar):
\* after every bar but the boundary the replay holds what the last signal before the bar
\* delay_bars earlier asked for.
THEOREM SignalsFollowed == Spec => []ReplayFollowsSignals
<1>1. KernelInv => ReplayFollowsSignals
  <2> DEFINE signals == FamilyDecisions(deployment, heard)
  <2> SUFFICES ASSUME KernelInv, Replayable, NEW window \in Windows(heard), NEW delay \in Delays,
                      NEW k \in 1 .. Len(window) - 1
               PROVE  ReplayStates(Plan(signals, window, delay), window)[k].long =
                        (k > delay /\ IntentBefore(signals, window[k - delay].ts) = "LONG")
    BY DEF ReplayFollowsSignals
  <2> DEFINE plan == Plan(signals, window, delay)
             s == ReplayStates(plan, window)[k]
  <2>1. Replayed(plan, window) /\ plan.signals = signals /\ plan.delay_bars = delay
    BY ReplayedHistory
  <2> HIDE DEF plan, signals
  <2>2. delay \in Nat /\ Len(window) \in Nat /\ k \in 0 .. Len(window) - 1
    BY <2>1, WindowTimes DEF Replayed
  <2>3. ReplayHeld(plan, window, k, s)
    BY <2>1, <2>2, ReplayInv
  <2> HIDE DEF s
  <2>4. s.long = (Wish(plan, window, k - delay) = "LONG")
    BY <2>1, <2>3 DEF ReplayHeld
  <2>5. k > delay <=> k - delay \in 1 .. Len(window)
    BY <2>2
  <2>6. (Wish(plan, window, k - delay) = "LONG")
          <=> (k > delay /\ IntentBefore(signals, window[k - delay].ts) = "LONG")
    BY <2>1, <2>5 DEF Wish
  <2>7. s.long = (k > delay /\ IntentBefore(signals, window[k - delay].ts) = "LONG")
    BY <2>4, <2>6
  <2> QED  BY <2>7 DEF s, plan
<1> QED  BY <1>1, KernelHolds, PTL

-----------------------------------------------------------------------------
(* The boundary.                                                           *)

\* What explains an exit at the boundary comes from before it.
LEMMA SourceBefore ==
    ASSUME NEW plan, NEW window, Replayed(plan, window), NEW k \in Nat, k + 1 = Len(window),
           NEW s, ReplayHeld(plan, window, k, s)
    PROVE  LET b == window[k + 1]
               source == ExitSource(Due(s), ReadSignals(plan, s, b).changed)
           IN  source = None \/ (source \in Nat /\ source < b.ts)
<1> DEFINE b == window[k + 1]
           d == plan.delay_bars
           due == Due(s)
           changed == ReadSignals(plan, s, b).changed
<1>1. /\ d \in Nat /\ Len(window) \in Nat /\ k \in 0 .. Len(window) - 1
      /\ k + 1 \in 1 .. Len(window)
  BY WindowTimes DEF Replayed
<1>2. Brings(plan, window, changed, k + 1)
  BY <1>1, BarBrings
<1>3. QueueHeld(plan, window, k, s.pending)
  BY DEF ReplayHeld
<1>4. due = None \/ Brings(plan, window, due, k + 1 - d)
  <2>1. CASE 0 \in DOMAIN s.pending
    <3>1. 0 \in 0 .. d - 1
      BY <1>3, <2>1 DEF QueueHeld
    <3>2. Brings(plan, window, IF 0 \in DOMAIN s.pending THEN s.pending[0] ELSE None,
                 k - (d - 1 - 0))
      BY <1>3, <3>1 DEF QueueHeld
    <3>3. k - (d - 1 - 0) = k + 1 - d
      BY <1>1
    <3> QED  BY <2>1, <3>2, <3>3 DEF Due
  <2>2. CASE 0 \notin DOMAIN s.pending
    BY <2>2 DEF Due
  <2> QED  BY <2>1, <2>2
<1> HIDE DEF b, due, changed
<1>5. changed # None => changed.ts \in Nat /\ changed.ts < b.ts
  <2>1. k + 1 <= k + 1 /\ k + 1 \in Int
    BY <1>1
  <2> QED  BY <1>1, <1>2, <2>1, FillOfSignal DEF b
<1>6. due # None => due.ts \in Nat /\ due.ts < b.ts
  <2>1. k + 1 - d <= k + 1
    BY <1>1
  <2> QED  BY <1>1, <1>4, <2>1, FillOfSignal DEF b
<1>7. LET source == ExitSource(due, changed)
      IN  source = None \/ (source \in Nat /\ source < b.ts)
  BY <1>5, <1>6 DEF ExitSource
<1> QED  BY <1>7 DEF b, due, changed

\* The fills of a replay that has ended: they alternate, the last of them is an exit, and
\* only that one may have no signal.
FillsEnd(s) ==
  /\ s.long = FALSE
  /\ s.fills \in Seq(FillSet)
  /\ \A i \in 1 .. Len(s.fills) :
       /\ s.fills[i].intent = IF i % 2 = 1 THEN "LONG" ELSE "FLAT"
       /\ s.fills[i].source = None <=> (s.flattened /\ i = Len(s.fills))
       /\ s.fills[i].source # None => s.fills[i].source < s.fills[i].action

LEMMA ReplayEnds ==
    ASSUME NEW plan, NEW window, Replayed(plan, window)
    PROVE  FillsEnd(Replay(plan, window))
<1> DEFINE k == Len(window) - 1
           b == window[k + 1]
           s == ReplayStates(plan, window)[k]
           o == OnBar(plan, s, b)
           source == ExitSource(Due(s), ReadSignals(plan, s, b).changed)
           f == FillFor("FLAT", source, b)
           n == Len(s.fills)
<1>1. /\ Len(window) \in Nat /\ k \in Nat /\ k + 1 = Len(window) /\ k \in 0 .. Len(window) - 1
      /\ b.ts \in Nat
  BY WindowTimes
<1>2. Replay(plan, window) = o
  <2> DEFINE after == ReplayStates(plan, window)
  <2>1. \A j \in 0 .. Len(window) - 1 : after[j + 1] = OnBar(plan, after[j], window[j + 1])
    BY <1>1, ReplayTakesBars
  <2> HIDE DEF after
  <2>2. after[k + 1] = OnBar(plan, after[k], window[k + 1])
    BY <1>1, <2>1
  <2>3. after[Len(window)] = after[k + 1]
    BY <1>1
  <2> QED  BY <2>2, <2>3 DEF Replay, after
<1>3. ReplayHeld(plan, window, k, s)
  BY <1>1, ReplayInv
<1> HIDE DEF k, s
<1>4. /\ HasFields(s) /\ s.flattened = FALSE /\ s.long = (n % 2 = 1) /\ n \in Nat
      /\ FillsHeld(s.fills, s.long, TimeAt(window, k)) /\ s.fills \in Seq(FillSet)
  <2>1. FillsHeld(s.fills, s.long, TimeAt(window, k)) /\ HasFields(s) /\ s.flattened = FALSE
    BY <1>3 DEF ReplayHeld
  <2>2. s.fills \in Seq(FillSet) /\ s.long = (n % 2 = 1)
    BY <2>1 DEF FillsHeld
  <2> QED  BY <2>1, <2>2
<1>5. AtBoundary(plan, b)
  BY <1>1 DEF AtBoundary, Replayed
<1>6. source = None \/ (source \in Nat /\ source < b.ts)
  BY <1>1, <1>3, SourceBefore
<1>7. /\ o.long = FALSE
      /\ \/ s.long = FALSE /\ o.flattened = FALSE /\ o.fills = s.fills
         \/ s.long /\ o.flattened = (source = None) /\ o.fills = Append(s.fills, f)
  <2>1. s.long \in BOOLEAN
    BY <1>4
  <2> QED  BY <1>4, <1>5, <2>1, BoundaryBar
<1> HIDE DEF o, source, b
<1>8. ASSUME NEW i \in 1 .. n
      PROVE  /\ s.fills[i].intent = IF i % 2 = 1 THEN "LONG" ELSE "FLAT"
             /\ s.fills[i].source \in Nat
             /\ s.fills[i].source < s.fills[i].action
  BY <1>4 DEF FillsHeld
<1>9. CASE s.long = FALSE /\ o.flattened = FALSE /\ o.fills = s.fills
  <2>1. ASSUME NEW i \in 1 .. Len(o.fills)
        PROVE  /\ o.fills[i].intent = IF i % 2 = 1 THEN "LONG" ELSE "FLAT"
               /\ o.fills[i].source = None <=> (o.flattened /\ i = Len(o.fills))
               /\ o.fills[i].source # None => o.fills[i].source < o.fills[i].action
    BY <1>8, <1>9, StrategyAssumption
  <2> QED  BY <1>2, <1>4, <1>7, <1>9, <2>1 DEF FillsEnd
<1>10. CASE s.long /\ o.flattened = (source = None) /\ o.fills = Append(s.fills, f)
  <2>1. f \in FillSet /\ f.source = source /\ f.action = b.ts /\ f.intent = "FLAT"
    BY <1>1, <1>6 DEF FillFor, FillSet
  <2> HIDE DEF f
  <2>2. /\ o.fills \in Seq(FillSet) /\ Len(o.fills) = n + 1 /\ o.fills[n + 1] = f
        /\ \A i \in 1 .. n : o.fills[i] = s.fills[i]
    BY <1>4, <1>10, <2>1
  <2> HIDE DEF n
  <2>3. (n + 1) % 2 # 1
    <3>1. n \in Nat /\ n % 2 = 1
      <4>1. s.long = (n % 2 = 1) /\ n \in Nat
        BY <1>4
      <4>2. s.long
        BY <1>10
      <4> QED  BY <4>1, <4>2
    <3> QED  BY <3>1
  <2>4. ASSUME NEW i \in 1 .. Len(o.fills)
        PROVE  /\ o.fills[i].intent = IF i % 2 = 1 THEN "LONG" ELSE "FLAT"
               /\ o.fills[i].source = None <=> (o.flattened /\ i = Len(o.fills))
               /\ o.fills[i].source # None => o.fills[i].source < o.fills[i].action
    <3>1. CASE i = n + 1
      <4>1. o.fills[i] = f /\ i = Len(o.fills) /\ i % 2 # 1
        BY <2>2, <2>3, <3>1
      <4> QED  BY <1>6, <1>10, <2>1, <4>1
    <3>2. CASE i # n + 1
      <4>1. i \in 1 .. n /\ i # Len(o.fills)
        BY <1>4, <2>2, <3>2
      <4>2. o.fills[i] = s.fills[i]
        BY <2>2, <4>1
      <4>3. s.fills[i].source \in Nat
        BY <1>8, <4>1
      <4>4. s.fills[i].source # None
        BY <4>3, StrategyAssumption
      <4> QED  BY <1>8, <4>1, <4>2, <4>4
    <3> QED  BY <3>1, <3>2
  <2> QED  BY <1>2, <1>7, <2>2, <2>4 DEF FillsEnd
<1> QED  BY <1>7, <1>9, <1>10

\* run_candidate_backtest's own demands: the replay ends flat, its fills alternate, each
\* comes after its signal, and only a forced exit at the boundary has none.
THEOREM EndsFlat == Spec => []ReplayEndsFlat
<1>1. KernelInv => ReplayEndsFlat
  <2> DEFINE signals == FamilyDecisions(deployment, heard)
  <2> SUFFICES ASSUME KernelInv, Replayable, NEW window \in Windows(heard), NEW delay \in Delays
               PROVE  LET s == Replay(Plan(signals, window, delay), window)
                      IN  /\ VerdictAccepted(s)
                          /\ \A i \in DOMAIN s.fills :
                               /\ s.fills[i].intent = IF i % 2 = 1 THEN "LONG" ELSE "FLAT"
                               /\ s.fills[i].source = None
                                    <=> (s.flattened /\ i = Len(s.fills))
    BY DEF ReplayEndsFlat
  <2> DEFINE plan == Plan(signals, window, delay)
             s == Replay(plan, window)
  <2>1. Replayed(plan, window)
    BY ReplayedHistory
  <2> HIDE DEF plan, signals
  <2>2. FillsEnd(s)
    BY <2>1, ReplayEnds
  <2> HIDE DEF s
  <2>3. DOMAIN s.fills = 1 .. Len(s.fills)
    BY <2>2 DEF FillsEnd
  <2>4. VerdictAccepted(s)
    BY <2>2, <2>3 DEF FillsEnd, VerdictAccepted
  <2>5. \A i \in DOMAIN s.fills :
          /\ s.fills[i].intent = IF i % 2 = 1 THEN "LONG" ELSE "FLAT"
          /\ s.fills[i].source = None <=> (s.flattened /\ i = Len(s.fills))
    BY <2>2, <2>3 DEF FillsEnd
  <2> QED  BY <2>4, <2>5 DEF s, plan
<1> QED  BY <1>1, KernelHolds, PTL

-----------------------------------------------------------------------------
(* Funding.                                                                *)

\* The net quantity when the first p fills, which alternate, are those before a time.
LEMMA NetOfFills ==
    ASSUME NEW fills, NEW n \in Nat, Len(fills) = n, NEW p \in 0 .. n, NEW t,
           \A i \in 1 .. n : fills[i].intent = IF i % 2 = 1 THEN "LONG" ELSE "FLAT",
           \A i \in 1 .. n : Instant(fills[i].action) < SettledAt(t) <=> i <= p
    PROVE  NetQuantity(fills, t) = p % 2
<1> DEFINE counts(i) == Instant(fills[i].action) < SettledAt(t)
           next(net, i) == CASE ~counts(i) -> net
                             [] counts(i) /\ fills[i].intent = "LONG" -> net + 1
                             [] OTHER -> net - 1
           g == [i \in 0 .. n |-> IF i <= p THEN i % 2 ELSE p % 2]
           f == CHOOSE f : f = [i \in 0 .. n |-> IF i = 0 THEN 0 ELSE next(f[i - 1], i)]
<1>1. g[0] = 0
  BY SMT
<1>2. ASSUME NEW i \in 1 .. n PROVE g[i] = next(g[i - 1], i)
  <2>1. /\ i \in 0 .. n /\ i - 1 \in 0 .. n /\ p \in Nat /\ i \in Nat
        /\ i - 1 <= p <=> i <= p + 1
    OBVIOUS
  <2>2. g[i] = IF i <= p THEN i % 2 ELSE p % 2
    BY <2>1
  <2>3. g[i - 1] = IF i <= p + 1 THEN (i - 1) % 2 ELSE p % 2
    BY <2>1
  <2> HIDE DEF g
  <2>4. CASE i > p
    <3>1. ~counts(i)
      BY <2>1, <2>4
    <3> HIDE DEF counts
    <3>2. next(g[i - 1], i) = g[i - 1]
      BY <3>1
    <3>3. g[i] = p % 2
      BY <2>1, <2>2, <2>4
    <3>4. g[i - 1] = p % 2
      <4>1. CASE i = p + 1
        <5>1. i - 1 = p /\ i <= p + 1
          BY <2>1, <4>1
        <5> QED  BY <2>3, <5>1
      <4>2. CASE i # p + 1
        BY <2>1, <2>3, <2>4, <4>2
      <4> QED  BY <4>1, <4>2
    <3> QED  BY <3>2, <3>3, <3>4
  <2>5. CASE i <= p
    <3>1. counts(i)
      BY <2>1, <2>5
    <3> HIDE DEF counts
    <3>2. g[i] = i % 2 /\ g[i - 1] = (i - 1) % 2
      BY <2>1, <2>2, <2>3, <2>5
    <3>3. CASE i % 2 = 1
      <4>1. fills[i].intent = "LONG"
        BY <3>3
      <4>2. next(g[i - 1], i) = g[i - 1] + 1
        BY <3>1, <4>1
      <4>3. (i - 1) % 2 = 0
        BY <2>1, <3>3
      <4> QED  BY <3>2, <3>3, <4>2, <4>3
    <3>4. CASE i % 2 # 1
      <4>1. fills[i].intent # "LONG"
        BY <3>4
      <4>2. next(g[i - 1], i) = g[i - 1] - 1
        BY <3>1, <4>1
      <4>3. (i - 1) % 2 = 1 /\ i % 2 = 0
        BY <2>1, <3>4
      <4> QED  BY <3>2, <4>2, <4>3
    <3> QED  BY <3>3, <3>4
  <2> QED  BY <2>1, <2>4, <2>5
<1>3. g = [i \in 0 .. n |-> IF i = 0 THEN 0 ELSE next(g[i - 1], i)]
  <2>1. ASSUME NEW i \in 0 .. n PROVE g[i] = IF i = 0 THEN 0 ELSE next(g[i - 1], i)
    <3> HIDE DEF g, next
    <3>1. CASE i = 0
      BY <1>1, <3>1
    <3>2. CASE i # 0
      <4>1. i \in 1 .. n
        BY <3>2
      <4> QED  BY <1>2, <3>2, <4>1
    <3> QED  BY <3>1, <3>2
  <2>2. g = [i \in 0 .. n |-> g[i]]
    OBVIOUS
  <2> HIDE DEF g, next
  <2> QED  BY <2>1, <2>2
<1>4. NetQuantity(fills, t) = f[n]
  BY Zenon DEF NetQuantity
<1>5. g[n] = p % 2
  <2>1. n \in 0 .. n /\ (n <= p => n = p)
    OBVIOUS
  <2> QED  BY <2>1
<1> HIDE DEF g, next
<1>6. f = [i \in 0 .. n |-> IF i = 0 THEN 0 ELSE next(f[i - 1], i)]
  BY <1>3, Zenon
<1> HIDE DEF f
<1>7. f[0] = g[0]
  BY <1>1, <1>6
<1>8. ASSUME NEW m \in 0 .. n - 1, f[m] = g[m] PROVE f[m + 1] = g[m + 1]
  <2>1. m + 1 \in 0 .. n /\ m + 1 # 0 /\ (m + 1) - 1 = m
    OBVIOUS
  <2>2. f[m + 1] = next(f[m], m + 1) /\ g[m + 1] = next(g[m], m + 1)
    BY <1>3, <1>6, <2>1
  <2> QED  BY <1>8, <2>2
<1>9. f[n] = g[n]
  <2>0. n \in Nat
    OBVIOUS
  <2>1. \A i \in 0 .. n : f[i] = g[i]
    BY ONLY <1>7, <1>8, <2>0, SameRecursion
  <2> QED  BY <2>1
<1> QED  BY <1>4, <1>5, <1>9

\* Each bar adds at most one fill, ordered at that bar.
LEMMA BarAddsFill ==
    ASSUME NEW plan, NEW window, Replayed(plan, window), NEW k \in 0 .. Len(window) - 1
    PROVE  LET before == ReplayStates(plan, window)[k].fills
               after == ReplayStates(plan, window)[k + 1].fills
           IN  /\ before \in Seq(FillSet)
               /\ \/ after = before
                  \/ \E f \in FillSet : f.action = window[k + 1].ts /\ after = Append(before, f)
<1> DEFINE b == window[k + 1]
           s == ReplayStates(plan, window)[k]
           x == ActsOn(plan, s, b)
           o == OnBar(plan, s, b)
           source == ExitSource(Due(s), ReadSignals(plan, s, b).changed)
<1>1. /\ Len(window) \in Nat /\ k \in Nat /\ k + 1 \in 1 .. Len(window) /\ b.ts \in Nat
      /\ plan.delay_bars \in Nat
  BY WindowTimes DEF Replayed
<1>2. ReplayStates(plan, window)[k + 1] = o
  BY <1>1, ReplayTakesBars
<1>3. ReplayHeld(plan, window, k, s)
  BY ReplayInv
<1> HIDE DEF s
<1>4. HasFields(s) /\ s.flattened = FALSE /\ s.fills \in Seq(FillSet) /\ s.long \in BOOLEAN
  <2>1. FillsHeld(s.fills, s.long, TimeAt(window, k)) /\ HasFields(s) /\ s.flattened = FALSE
    BY <1>3 DEF ReplayHeld
  <2> QED  BY <2>1 DEF FillsHeld
<1>5. o.fills = s.fills \/ \E f \in FillSet : f.action = b.ts /\ o.fills = Append(s.fills, f)
  <2>1. CASE AtBoundary(plan, b)
    <3> DEFINE f == FillFor("FLAT", source, b)
    <3>0. /\ o.long = FALSE
          /\ \/ s.long = FALSE /\ o.flattened = FALSE /\ o.fills = s.fills
             \/ s.long /\ o.flattened = (source = None) /\ o.fills = Append(s.fills, f)
      BY <1>4, <2>1, BoundaryBar
    <3>1. o.fills = s.fills \/ o.fills = Append(s.fills, f)
      <4> HIDE DEF o, source
      <4> QED  BY <3>0
    <3>2. source = None \/ source \in Nat
      <4>1. k + 1 = Len(window)
        <5>1. ASSUME k + 1 # Len(window) PROVE FALSE
          <6>1. k + 1 < Len(window) /\ Len(window) \in 1 .. Len(window)
            BY <1>1, <5>1
          <6>2. b.ts < window[Len(window)].ts /\ window[Len(window)].ts \in Nat
            BY <1>1, <6>1, WindowTimes DEF Replayed, Rising
          <6> QED  BY <1>1, <2>1, <6>2 DEF AtBoundary, Replayed
        <5> QED  BY <5>1
      <4> QED  BY <1>1, <1>3, <4>1, SourceBefore
    <3> HIDE DEF source, o
    <3>3. f \in FillSet /\ f.action = b.ts
      BY <1>1, <3>2 DEF FillFor, FillSet
    <3> HIDE DEF f
    <3> QED  BY <3>1, <3>3
  <2>2. CASE ~AtBoundary(plan, b)
    <3> DEFINE f == FillFor(x.intent, x.ts, b)
               t == ReadSignals(plan, s, b)
    <3>1. OrdinaryStep(plan, s, b, t, x, o)
      BY <1>4, <2>2, OrdinaryBar
    <3>2. Brings(plan, window, x, k + 1 - plan.delay_bars)
      BY <1>3, ActsBrings
    <3> HIDE DEF o, x, t
    <3>3. x # None => f \in FillSet /\ f.action = b.ts
      <4>1. k + 1 - plan.delay_bars <= k + 1
        BY <1>1
      <4>2. x # None => f \in FillSet
        BY <1>1, <3>2, <4>1, FillOfSignal
      <4> QED  BY <4>2 DEF FillFor
    <3>4. \/ o.fills = s.fills
          \/ x # None /\ o.fills = Append(s.fills, f)
      BY <3>1 DEF OrdinaryStep
    <3> HIDE DEF f
    <3> QED  BY <3>3, <3>4
  <2> QED  BY <2>1, <2>2
<1> HIDE DEF o
<1> QED  BY <1>2, <1>4, <1>5 DEF s

\* The fills of the bars up to the k-th are the first ones of the replay; the others are
\* ordered at later bars.
LEMMA FillsGrow ==
    ASSUME NEW plan, NEW window, Replayed(plan, window), NEW k \in 1 .. Len(window) - 1
    PROVE  LET early == ReplayStates(plan, window)[k].fills
               fills == Replay(plan, window).fills
           IN  /\ Len(early) <= Len(fills)
               /\ \A i \in 1 .. Len(early) : fills[i] = early[i]
               /\ \A i \in Len(early) + 1 .. Len(fills) :
                    fills[i].action >= window[k + 1].ts
<1> DEFINE n == Len(window) - k
           after == ReplayStates(plan, window)
           early == after[k].fills
           p == Len(early)
           Grown(fills) == /\ fills \in Seq(FillSet) /\ p <= Len(fills)
                           /\ \A i \in 1 .. p : fills[i] = early[i]
                           /\ \A i \in p + 1 .. Len(fills) : fills[i].action >= window[k + 1].ts
           S == {m \in 0 .. n : Grown(after[k + m].fills)}
<1>1. /\ Len(window) \in Nat /\ k \in Nat /\ n \in Nat /\ k + n = Len(window)
      /\ k \in 0 .. Len(window) - 1 /\ k + 1 \in 1 .. Len(window)
  BY WindowTimes
<1>2. \A j \in 0 .. Len(window) - 1 :
        /\ after[j].fills \in Seq(FillSet)
        /\ \/ after[j + 1].fills = after[j].fills
           \/ \E f \in FillSet : /\ f.action = window[j + 1].ts
                              /\ after[j + 1].fills = Append(after[j].fills, f)
  <2> TAKE j \in 0 .. Len(window) - 1
  <2> QED  BY BarAddsFill
<1> HIDE DEF after
<1>3. early \in Seq(FillSet) /\ p \in Nat
  BY <1>1, <1>2
<1> HIDE DEF early
<1>4. 0 \in S
  <2>1. k + 0 = k
    BY <1>1
  <2>2. Grown(early)
    BY <1>3
  <2> HIDE DEF Grown
  <2> QED  BY <1>1, <2>1, <2>2 DEF early
<1>5. ASSUME NEW m \in S, m < n PROVE m + 1 \in S
  <2> DEFINE j == k + m
             fills == after[j].fills
             grown == after[j + 1].fills
  <2>1. /\ j \in 0 .. Len(window) - 1 /\ m + 1 \in 0 .. n /\ j + 1 = k + (m + 1)
        /\ j + 1 \in 1 .. Len(window) /\ k + 1 <= j + 1
    BY <1>1, <1>5
  <2>2. Grown(fills)
    BY <1>5
  <2> HIDE DEF j
  <2>3. \/ grown = fills
        \/ \E f \in FillSet : f.action = window[j + 1].ts /\ grown = Append(fills, f)
    BY <1>2, <2>1
  <2> HIDE DEF fills, grown
  <2>4. ASSUME NEW f \in FillSet, f.action = window[j + 1].ts, grown = Append(fills, f)
        PROVE  Grown(grown)
    <3> DEFINE q == Len(fills)
    <3>1. /\ fills \in Seq(FillSet) /\ q \in Nat /\ p <= q
          /\ \A i \in 1 .. p : fills[i] = early[i]
          /\ \A i \in p + 1 .. q : fills[i].action >= window[k + 1].ts
      BY <2>2
    <3>2. /\ grown \in Seq(FillSet) /\ Len(grown) = q + 1 /\ grown[q + 1] = f
          /\ \A i \in 1 .. q : grown[i] = fills[i]
      BY <2>4, <3>1
    <3>3. f.action >= window[k + 1].ts
      <4>1. /\ window[k + 1].ts <= window[j + 1].ts
            /\ window[k + 1].ts \in Nat /\ window[j + 1].ts \in Nat
        BY <1>1, <2>1, WindowTimes
      <4> QED  BY <2>4, <4>1
    <3> HIDE DEF q, p
    <3>4. p \in Nat /\ p <= Len(grown)
      BY <1>3, <3>1, <3>2 DEF p
    <3>5. \A i \in 1 .. p : grown[i] = early[i]
      BY <3>1, <3>2, <3>4
    <3>6. \A i \in p + 1 .. Len(grown) : grown[i].action >= window[k + 1].ts
      <4> TAKE i \in p + 1 .. Len(grown)
      <4>1. i = q + 1 \/ (i \in p + 1 .. q /\ i \in 1 .. q)
        BY <3>1, <3>2, <3>4
      <4> QED  BY <3>1, <3>2, <3>3, <4>1
    <3> QED  BY <3>2, <3>4, <3>5, <3>6
  <2>5. Grown(grown)
    <3> HIDE DEF Grown
    <3> QED  BY <2>2, <2>3, <2>4
  <2> HIDE DEF Grown
  <2>6. grown = after[k + (m + 1)].fills
    BY <2>1 DEF grown
  <2> QED  BY <2>1, <2>5, <2>6
<1> HIDE DEF Grown
<1>6. S = 0 .. n
  <2>1. S \in SUBSET (0 .. n)
    OBVIOUS
  <2> HIDE DEF S, n
  <2> QED  BY <1>1, <1>4, <1>5, <2>1, UpTo
<1>7. Grown(after[Len(window)].fills)
  <2>1. n \in 0 .. n
    BY <1>1
  <2> HIDE DEF n
  <2>2. n \in S
    BY <1>6, <2>1
  <2>3. Grown(after[k + n].fills)
    BY <2>2
  <2> QED  BY <1>1, <2>3
<1> QED  BY <1>7 DEF Grown, Replay, early, after

\* The account of a replay at a time after the first bar and up to the last.
LEMMA FundingAt ==
    ASSUME NEW plan, NEW window, Replayed(plan, window), NEW t \in EvaluatedFunding(window)
    PROVE  LET k == Cardinality({i \in DOMAIN window : window[i].ts < t})
               long == ReplayStates(plan, window)[k].long
           IN  /\ k \in 1 .. Len(window) - 1
               /\ NetQuantity(Replay(plan, window).fills, t) # 0 <=> long
               /\ EnginePositions(plan, window, t) = {long}
               /\ FallbackMark(window, t) = window[k]
<1> DEFINE n == Len(window)
           prior == {i \in DOMAIN window : window[i].ts < t}
           k == Cutoff(window, t)
           s == ReplayStates(plan, window)[k]
           fills == Replay(plan, window).fills
           p == Len(s.fills)
           m == Len(fills)
<1>1. /\ n \in Nat \ {0} /\ DOMAIN window = 1 .. n /\ window \in Seq(Rows) /\ Rising(window)
      /\ \A i \in 1 .. n : window[i].ts \in Nat
  BY WindowTimes DEF Replayed
<1>2. t \in window[1].ts + 1 .. window[n].ts
  <2>1. window # <<>>
    BY DEF Replayed
  <2>2. Head(window) = window[1]
    BY <1>1, <2>1
  <2>3. Last(window) = window[n]
    BY DEF Last
  <2>4. t \in Head(window).ts + 1 .. Last(window).ts
    BY DEF EvaluatedFunding
  <2> QED  BY <2>2, <2>3, <2>4
<1>3. t \in Nat /\ window[1].ts < t /\ ~(window[n].ts < t)
  BY <1>1, <1>2
<1>4. k \in 0 .. n /\ \A i \in 1 .. n : window[i].ts < t <=> i <= k
  BY <1>1, <1>3, CutoffHolds
<1> HIDE DEF k
<1>5. k \in 1 .. n - 1 /\ k + 1 \in 1 .. n /\ k \in 0 .. n - 1 /\ k \in Nat
  <2>1. 1 <= k
    BY <1>1, <1>3, <1>4
  <2>2. ~(n <= k)
    BY <1>1, <1>3, <1>4
  <2> QED  BY <1>1, <1>4, <2>1, <2>2
<1>6. prior = 1 .. k
  BY <1>1, <1>4, <1>5
<1>7. Cardinality(1 .. k) = k
  BY <1>5, FS_Interval
<1>8. Cardinality(prior) = k
  BY <1>6, <1>7
<1>9. \A x \in Nat : Instant(x) < SettledAt(t) <=> x < t
  BY <1>3 DEF Instant, SettledAt
<1>10. \A x \in Nat : Instant(x) <= SettledAt(t) <=> x < t
  BY <1>3 DEF Instant, SettledAt
<1>11. EnginePositions(plan, window, t) = {s.long}
  <2>1. {i \in DOMAIN window : Instant(window[i].ts) < SettledAt(t)} = 1 .. k
    BY <1>1, <1>4, <1>5, <1>9
  <2>2. {i \in DOMAIN window : Instant(window[i].ts) <= SettledAt(t)} = 1 .. k
    BY <1>1, <1>4, <1>5, <1>10
  <2> QED  BY <1>7, <2>1, <2>2 DEF EnginePositions
<1>12. FallbackMark(window, t) = window[k]
  <2>1. Max(1 .. k) = k
    <3>1. 1 \in 1 .. k
      BY <1>5
    <3> QED  BY <1>5, <3>1, MaxUpTo
  <2> HIDE DEF prior
  <2>2. prior # {} /\ Max(prior) = k
    <3>1. 1 \in 1 .. k
      BY <1>5
    <3>2. Max(prior) = Max(1 .. k)
      BY <1>6
    <3> QED  BY <1>6, <2>1, <3>1, <3>2
  <2>3. FallbackMark(window, t) = IF prior = {} THEN None ELSE window[Max(prior)]
    BY DEF FallbackMark, prior
  <2> QED  BY <2>2, <2>3
<1>13. FillsHeld(s.fills, s.long, window[k].ts)
  <2>1. ReplayHeld(plan, window, k, s)
    BY <1>5, ReplayInv
  <2> HIDE DEF s
  <2>2. TimeAt(window, k) = window[k].ts
    BY <1>5 DEF TimeAt
  <2> QED  BY <2>1, <2>2 DEF ReplayHeld
<1>14. FillsEnd(Replay(plan, window))
  BY ReplayEnds
<1>15. /\ p <= m
       /\ \A i \in 1 .. p : fills[i] = s.fills[i]
       /\ \A i \in p + 1 .. m : fills[i].action >= window[k + 1].ts
  BY <1>5, FillsGrow
<1> HIDE DEF s, fills
<1>16. /\ s.fills \in Seq(FillSet) /\ p \in Nat /\ s.long = (p % 2 = 1)
       /\ \A i \in 1 .. p : s.fills[i].action <= window[k].ts
  BY <1>13 DEF FillsHeld
<1>17. /\ fills \in Seq(FillSet) /\ m \in Nat
       /\ \A i \in 1 .. m : fills[i].intent = IF i % 2 = 1 THEN "LONG" ELSE "FLAT"
  BY <1>14 DEF FillsEnd, fills
<1>18. ASSUME NEW i \in 1 .. m PROVE Instant(fills[i].action) < SettledAt(t) <=> i <= p
  <2> DEFINE a == fills[i].action
  <2>1. fills[i] \in FillSet
    BY <1>17
  <2>2. a \in Nat
    BY <2>1 DEF FillSet
  <2>3. CASE i <= p
    <3>1. i \in 1 .. p
      BY <1>16, <1>17, <2>3
    <3>2. a <= window[k].ts
      BY <1>15, <1>16, <3>1
    <3>3. window[k].ts < t /\ window[k].ts \in Nat
      BY <1>1, <1>4, <1>5
    <3> HIDE DEF a
    <3>4. a < t
      BY <1>3, <2>2, <3>2, <3>3
    <3> QED  BY <1>9, <2>2, <2>3, <3>4 DEF a
  <2>4. CASE ~(i <= p)
    <3>1. i \in p + 1 .. m
      BY <1>16, <1>17, <2>4
    <3>2. a >= window[k + 1].ts
      BY <1>15, <3>1
    <3>3. ~(window[k + 1].ts < t) /\ window[k + 1].ts \in Nat
      BY <1>1, <1>4, <1>5
    <3> HIDE DEF a
    <3>4. ~(a < t)
      BY <1>3, <2>2, <3>2, <3>3
    <3> QED  BY <1>9, <2>2, <2>4, <3>4 DEF a
  <2> QED  BY <2>3, <2>4
<1>19. NetQuantity(fills, t) = p % 2
  <2>1. p \in 0 .. m /\ m \in Nat
    BY <1>15, <1>16, <1>17
  <2> HIDE DEF p
  <2> QED  BY <1>17, <1>18, <2>1, NetOfFills
<1>20. NetQuantity(fills, t) # 0 <=> s.long
  <2>1. p % 2 # 0 <=> p % 2 = 1
    <3>1. p \in Nat
      BY <1>16
    <3> HIDE DEF p
    <3> QED  BY <3>1
  <2>2. s.long <=> p % 2 = 1
    <3>1. s.long = (p % 2 = 1)
      BY <1>16
    <3> HIDE DEF p
    <3> QED  BY <3>1
  <2> QED  BY <1>19, <2>1, <2>2
<1> QED  BY <1>5, <1>8, <1>11, <1>12, <1>20 DEF s, fills

\* test_candidate_backtest.py:548 and :598: funding at a time is charged exactly when the
\* signals before it ask for a position, at the price of the last bar before it, and the
\* engine's account and the fills agree on it.
THEOREM FundingFollows == Spec => []FundingFollowsPosition
<1>1. KernelInv => FundingFollowsPosition
  <2> DEFINE signals == FamilyDecisions(deployment, heard)
             planned(window, delay) == Plan(signals, window, delay)
             before(window, t) == Cardinality({i \in DOMAIN window : window[i].ts < t})
  <2> SUFFICES ASSUME KernelInv, Replayable, NEW window \in Windows(heard), NEW delay \in Delays,
                      NEW t \in EvaluatedFunding(window)
               PROVE  /\ SettlementAccepted(planned(window, delay), window, t)
                      /\ FallbackMark(window, t) = window[before(window, t)]
                      /\ t \in FundingEvents(planned(window, delay), window)
                           <=> (before(window, t) > delay
                                /\ IntentBefore(signals, window[before(window, t) - delay].ts)
                                      = "LONG")
    BY DEF FundingFollowsPosition
  <2> DEFINE plan == planned(window, delay)
             k == before(window, t)
             s == ReplayStates(plan, window)[k]
             net == NetQuantity(Replay(plan, window).fills, t)
  <2>1. Replayed(plan, window) /\ plan.signals = signals /\ plan.delay_bars = delay
    BY ReplayedHistory
  <2> HIDE DEF plan, planned, signals
  <2>2. /\ k \in 1 .. Len(window) - 1
        /\ net # 0 <=> s.long
        /\ EnginePositions(plan, window, t) = {s.long}
        /\ FallbackMark(window, t) = window[k]
    BY <2>1, FundingAt
  <2> HIDE DEF k, before
  <2>3. delay \in Nat /\ Len(window) \in Nat /\ k \in 0 .. Len(window) - 1
    BY <2>1, <2>2, WindowTimes DEF Replayed
  <2>4. ReplayHeld(plan, window, k, s)
    BY <2>1, <2>3, ReplayInv
  <2> HIDE DEF s, net
  <2>5. s.long = (Wish(plan, window, k - delay) = "LONG")
    BY <2>1, <2>4 DEF ReplayHeld
  <2>6. k > delay <=> k - delay \in 1 .. Len(window)
    BY <2>2, <2>3
  <2>7. s.long <=> (k > delay /\ IntentBefore(signals, window[k - delay].ts) = "LONG")
    BY <2>1, <2>5, <2>6 DEF Wish
  <2>8. SettlementAccepted(plan, window, t)
    BY <2>2 DEF SettlementAccepted, net
  <2>9. t \in FundingEvents(plan, window) <=> net # 0
    BY DEF FundingEvents, net
  <2> QED  BY <2>2, <2>7, <2>8, <2>9 DEF plan, k
<1> QED  BY <1>1, KernelHolds, PTL
==============================================================================
