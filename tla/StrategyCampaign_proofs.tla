------------------------ MODULE StrategyCampaign_proofs ------------------------
(***************************************************************************)
(* What StrategyCampaign guarantees for every number of campaigns, plans,  *)
(* strategies and worlds, with rivals, faults and deaths.                  *)
(***************************************************************************)
EXTENDS StrategyCampaign, SequenceTheorems, TLAPS

\* The steps between the two locks of a campaign, those of one attempt, and those at
\* which the attempt's experiment was seen absent and nobody else can count it.
OutsideSteps   == {"idle", "waiting"}
AttemptSteps   == {"lookup", "execute", "claim", "running", "returned", "reused"}
UncountedSteps == AttemptSteps \ {"lookup"}
CensusSteps    == {"attempt", "reconcile", "publish"} \cup AttemptSteps

Working(c) == pc[c] \notin OutsideSteps

\* The trials of c, whether they are published or still in memory.
Book(c) == IF census[c] # <<>> THEN census[c] ELSE evidence[c]

\* The experiment of the current attempt in the world of the campaign.
Expected(c) == [strategy |-> Attempt(c), world |-> reference[c]]

\* What a campaign process holds at each of its steps.
LocalsOK(c) ==
    /\ pc[c] \in OutsideSteps \cup {"restore"} => evidence[c] = <<>>
    /\ pc[c] \in {"validate", "restore"} => census[c] # <<>>
    /\ pc[c] \in CensusSteps => census[c] = <<>>
    /\ pc[c] \in AttemptSteps \cup {"attempt"} =>
          Len(evidence[c]) < Len(Plan[c]) /\ reference[c] \in Approved \cup {None}
    /\ pc[c] \in {"reconcile", "publish"} => Len(evidence[c]) = Len(Plan[c])
    /\ pc[c] \in AttemptSteps => Attempt(c) \in Strategies /\ prepared[c] \in Worlds
    /\ pc[c] \in UncountedSteps => reference[c] \in Approved
    /\ pc[c] \in {"running", "returned", "reused"} => prepared[c] = reference[c]
    /\ Working(c) => preflights[c] # None

Alone == \A c, d \in Campaigns : Working(c) /\ Working(d) => c = d

TypeInv == TypeOK /\ Alone /\ \A c \in Campaigns : LocalsOK(c)

\* Who launched what: an experiment that is not absent has one launcher, and the steps of
\* a campaign know about theirs.
LaunchOK(c) ==
    /\ pc[c] \in {"execute", "claim"} => launchedBy[Expected(c)] \in {None, "rival"}
    /\ pc[c] = "running" => phase[Target(c)] = "open" /\ launchedBy[Target(c)] = c
    /\ pc[c] = "returned" => phase[Target(c)] \in Settled /\ launchedBy[Target(c)] = c
    /\ pc[c] = "reused" => phase[Target(c)] \in Settled /\ launchedBy[Target(c)] = "rival"

LaunchInv ==
    /\ \A x \in Experiments : phase[x] = "absent" <=> launchedBy[x] = None
    /\ rival # None => phase[rival] = "open" /\ launchedBy[rival] = "rival"
    /\ \A c \in Campaigns : LaunchOK(c)

\* A trial says nothing of its experiment that did not happen.
TrialOK(c, i, t) ==
    /\ t.exp # None => phase[t.exp] # "absent" /\ t.exp.strategy = Plan[c][i]
    /\ t.started =>
          /\ t.exp # None
          /\ launchedBy[t.exp] = c \/ (launchedBy[t.exp] = "rival" /\ Drifted(t))
    /\ t.status = "SURVIVED" =>
          /\ t.exp # None
          /\ phase[t.exp] = "SCREEN_PASSED" /\ t.exp.world \in Approved

TrialsOK == \A c \in Campaigns : \A i \in DOMAIN Book(c) : TrialOK(c, i, Book(c)[i])

\* No trial counts x as started.
Uncounted(x) ==
    \A d \in Campaigns : \A i \in DOMAIN Book(d) :
        Book(d)[i].started => Book(d)[i].exp # x

\* What a campaign is executing is in no book yet, and nothing is in two.
CountInv ==
    /\ \A c \in Campaigns : pc[c] \in UncountedSteps => Uncounted(Expected(c))
    /\ \A c, d \in Campaigns : \A i \in DOMAIN Book(c), j \in DOMAIN Book(d) :
          Book(c)[i].started /\ Book(d)[j].started /\ Book(c)[i].exp = Book(d)[j].exp
              => c = d /\ i = j

\* The survivors of a campaign were evaluated in its reference world, and a campaign that
\* goes on has met no drift.
WorldsOK(c) ==
    /\ pc[c] \in CensusSteps =>
          \A i \in DOMAIN evidence[c] :
              evidence[c][i].status = "SURVIVED" => evidence[c][i].exp.world = reference[c]
    /\ pc[c] \in CensusSteps \ {"publish"} =>
          \A i \in DOMAIN evidence[c] : ~Drifted(evidence[c][i])
    /\ \A i, j \in DOMAIN census[c] :
          census[c][i].status = "SURVIVED" /\ census[c][j].status = "SURVIVED"
              => census[c][i].exp.world = census[c][j].exp.world

BookInv == TrialsOK /\ CountInv /\ \A c \in Campaigns : WorldsOK(c)

ShownInv ==
    /\ SummariesAgree
    /\ \A c \in Campaigns : summaries[c] # {} => census[c] # <<>> /\ preflights[c] # None

CampaignInv == TypeInv /\ LaunchInv /\ BookInv /\ ShownInv

-----------------------------------------------------------------------------
(* Trials and cohorts                                                       *)

LEMMA PlanType ==
    ASSUME NEW c \in Campaigns
    PROVE  /\ Plan[c] \in Seq(Strategies \cup {Invalid})
           /\ Len(Plan[c]) \in Nat /\ Len(Plan[c]) > 0
           /\ DOMAIN Plan[c] = 1 .. Len(Plan[c])
           /\ \A i \in 1 .. Len(Plan[c]) : Plan[c][i] \in Strategies \cup {Invalid}
  <1>1. Plan[c] \in Seq(Strategies \cup {Invalid}) /\ Plan[c] # <<>>
    BY CampaignAssumption
  <1>2. QED
    BY <1>1, EmptySeq, LenProperties, ElementOfSeq

LEMMA NoneApart == None \notin Experiments /\ None \notin Worlds /\ None \notin Approved
  BY CampaignAssumption

\* A trial that says of its experiment what another one says, or that drifted.
Copies(u, t) ==
    /\ u.exp = t.exp /\ u.started = t.started
    /\ u = t \/ (u.status = "TECHNICAL_INVALID" /\ (Drifted(u) \/ ~Drifted(t)))

\* A trial that says nothing of any experiment.
Empty(u) == ~u.started /\ u.exp = None /\ u.status # "SURVIVED"

LEMMA TrialType ==
    ASSUME NEW status \in Statuses, NEW started \in BOOLEAN, NEW reason \in Reasons,
           NEW x \in Experiments \cup {None}, NEW marks \in SUBSET {"REUSED", "DUPLICATE"}
    PROVE  /\ Trial(status, started, reason, x, marks) \in Trials
           /\ Trial(status, started, reason, x, marks).status = status
           /\ Trial(status, started, reason, x, marks).started = started
           /\ Trial(status, started, reason, x, marks).reason = reason
           /\ Trial(status, started, reason, x, marks).exp = x
  BY DEF Trial, Trials

LEMMA CohortType ==
    ASSUME NEW c \in Campaigns, NEW trials \in Seq(Trials), NEW reason \in Reasons,
           Len(trials) <= Len(Plan[c])
    PROVE  /\ CohortFailed(c, trials, reason) \in Seq(Trials)
           /\ Len(CohortFailed(c, trials, reason)) = Len(Plan[c])
           /\ DOMAIN CohortFailed(c, trials, reason) = 1 .. Len(Plan[c])
           /\ \A i \in 1 .. Len(Plan[c]) :
                 LET u == CohortFailed(c, trials, reason)[i]
                 IN  /\ u.status = "TECHNICAL_INVALID" /\ u.reason = reason
                     /\ \/ /\ i \in DOMAIN trials
                           /\ u.exp = trials[i].exp /\ u.started = trials[i].started
                        \/ i \notin DOMAIN trials /\ Empty(u)
  <1> DEFINE n == Len(Plan[c])
             cohort == CohortFailed(c, trials, reason)
  <1>1. n \in Nat /\ DOMAIN Plan[c] = 1 .. n
    BY PlanType
  <1>2. DOMAIN trials = 1 .. Len(trials) /\ Len(trials) \in Nat
    BY LenProperties
  <1>3. \A i \in DOMAIN trials : trials[i] \in Trials
    BY <1>2, ElementOfSeq
  <1>4. ASSUME NEW i \in 1 .. n
        PROVE  /\ cohort[i] \in Trials
               /\ cohort[i].status = "TECHNICAL_INVALID" /\ cohort[i].reason = reason
               /\ \/ /\ i \in DOMAIN trials
                     /\ cohort[i].exp = trials[i].exp /\ cohort[i].started = trials[i].started
                  \/ i \notin DOMAIN trials /\ Empty(cohort[i])
    <2>1. CASE i \in DOMAIN trials
      <3>1. trials[i] \in Trials
        BY <1>3, <2>1
      <3>2. cohort[i] = Trial("TECHNICAL_INVALID", trials[i].started, reason,
                              trials[i].exp, trials[i].marks)
        BY <1>1, <2>1 DEF CohortFailed
      <3>3. QED
        BY <2>1, <3>1, <3>2, TrialType DEF Statuses, Trials, Trial
    <2>2. CASE i \notin DOMAIN trials
      <3>1. cohort[i] = Trial("TECHNICAL_INVALID", FALSE, reason, None, {})
        BY <1>1, <2>2 DEF CohortFailed, Technical
      <3>2. /\ cohort[i] \in Trials
            /\ cohort[i].status = "TECHNICAL_INVALID" /\ cohort[i].reason = reason
            /\ cohort[i].started = FALSE /\ cohort[i].exp = None
        BY <3>1 DEF Statuses, Trials, Trial
      <3>3. QED
        BY <2>2, <3>2 DEF Empty
    <2>3. QED
      BY <2>1, <2>2
  <1>5. cohort = [i \in 1 .. n |-> cohort[i]]
    BY <1>1 DEF CohortFailed
  <1>6. cohort \in [1 .. n -> Trials]
    BY <1>4, <1>5
  <1>7. cohort \in Seq(Trials) /\ Len(cohort) = n /\ DOMAIN cohort = 1 .. n
    BY <1>1, <1>6
  <1>8. QED
    BY <1>4, <1>7

-----------------------------------------------------------------------------
(* Types, and who works                                                     *)

LEMMA TypeInit == Init => TypeInv
  <1>1. ASSUME Init PROVE TypeOK
    <2>1. <<>> \in Seq(Trials) /\ Len(<<>>) = 0
      BY EmptySeq
    <2>2. \A c \in Campaigns : Len(Plan[c]) \in Nat
      BY PlanType
    <2>3. QED
      BY <1>1, <2>1, <2>2, CampaignAssumption DEF Init, TypeOK, Steps
  <1>2. ASSUME Init PROVE Alone /\ \A c \in Campaigns : LocalsOK(c)
    BY <1>2 DEF Init, Alone, LocalsOK, Working, OutsideSteps, AttemptSteps, UncountedSteps,
       CensusSteps
  <1>3. QED
    BY <1>1, <1>2 DEF TypeInv

\* What a step of campaign c leaves alone: the variables of the other campaigns.
Others(c) ==
    \A d \in Campaigns \ {c} :
        /\ pc'[d] = pc[d] /\ reference'[d] = reference[d] /\ prepared'[d] = prepared[d]
        /\ evidence'[d] = evidence[d] /\ preflights'[d] = preflights[d]
        /\ census'[d] = census[d]

LEMMA LocalsElsewhere ==
    ASSUME NEW c \in Campaigns, Others(c), NEW d \in Campaigns \ {c}, LocalsOK(d)
    PROVE  LocalsOK(d)'
  BY DEF Others, LocalsOK, Working, Attempt, Ordinal

\* A campaign that works already, or starts to when nobody does, works alone.
LEMMA AloneStep ==
    ASSUME NEW c \in Campaigns, Others(c), Alone,
           Working(c) \/ ~Working(c)' \/ \A d \in Campaigns : ~Working(d)
    PROVE  Alone'
  BY DEF Others, Alone, Working


\* The evidence of c keeps the trials it has, gets t or is padded with empty trials.
Continues(c, t) ==
    \A i \in DOMAIN evidence'[c] :
        \/ i \in DOMAIN evidence[c] /\ Copies(evidence'[c][i], evidence[c][i])
        \/ i = Ordinal(c) /\ Copies(evidence'[c][i], t)
        \/ Empty(evidence'[c][i])

LEMMA ConcludeType ==
    ASSUME NEW c \in Campaigns, NEW t \in Trials, TypeInv, Conclude(c, t),
           pc[c] \in AttemptSteps \cup {"attempt"},
           UNCHANGED <<reference, prepared, tables, summaries>>
    PROVE  /\ evidence' \in [Campaigns -> Seq(Trials)] /\ pc' \in [Campaigns -> Steps]
           /\ Len(evidence'[c]) <= Len(Plan[c])
           /\ pc'[c] \in {"attempt", "reconcile", "publish"}
           /\ Others(c) /\ LocalsOK(c)' /\ Continues(c, t)
           /\ pc'[c] = "publish" \/ (~Drifted(t) /\ evidence'[c] = Append(evidence[c], t))
  <1> DEFINE old == evidence[c]
             trials == Append(old, t)
             cohort == CohortFailed(c, trials, t.reason)
  <1>1. /\ old \in Seq(Trials) /\ Len(old) \in Nat /\ DOMAIN old = 1 .. Len(old)
        /\ Len(Plan[c]) \in Nat /\ Len(old) < Len(Plan[c])
        /\ census[c] = <<>> /\ preflights[c] # None /\ reference[c] \in Approved \cup {None}
    BY PlanType, LenProperties
       DEF TypeInv, TypeOK, LocalsOK, Working, AttemptSteps, CensusSteps, OutsideSteps
  <1>2. /\ trials \in Seq(Trials) /\ Len(trials) = Len(old) + 1
        /\ \A i \in 1 .. Len(old) : trials[i] = old[i]
        /\ trials[Len(old) + 1] = t
        /\ DOMAIN trials = 1 .. Len(old) + 1
    BY <1>1
  <1>3. evidence'[c] = IF Drifted(t) THEN cohort ELSE trials
    BY DEF Conclude, TypeInv, TypeOK
  <1>4. /\ \A d \in Campaigns \ {c} : evidence'[d] = evidence[d] /\ pc'[d] = pc[d]
        /\ pc'[c] = IF Drifted(t) THEN "publish"
                    ELSE IF Len(trials) = Len(Plan[c]) THEN "reconcile" ELSE "attempt"
        /\ pc' \in [Campaigns -> Steps]
    <2> DEFINE next == IF Drifted(t) THEN "publish"
                       ELSE IF Len(trials) = Len(Plan[c]) THEN "reconcile" ELSE "attempt"
    <2>0. next \in Steps
      BY DEF Steps
    <2>1. pc' = [pc EXCEPT ![c] = next] /\ next \in Steps
      BY <2>0, Zenon DEF Conclude, Goto
    <2>2. \A d \in Campaigns \ {c} : evidence'[d] = evidence[d]
      BY DEF Conclude, TypeInv, TypeOK
    <2>3. pc \in [Campaigns -> Steps]
      BY DEF TypeInv, TypeOK
    <2> HIDE DEF next
    <2>4. pc'[c] = next /\ pc' \in [Campaigns -> Steps] /\ \A d \in Campaigns \ {c} : pc'[d] = pc[d]
      BY <2>1, <2>3
    <2>5. QED
      BY <2>2, <2>4 DEF next
  <1> HIDE DEF trials
  <1>5. Others(c)
    BY <1>4 DEF Others, tables
  <1>6. CASE Drifted(t)
    <2>1. t.reason \in Reasons /\ t.reason = "CAMPAIGN_PREFLIGHT_DRIFT"
      BY <1>6 DEF Drifted, Trials
    <2>2. /\ cohort \in Seq(Trials) /\ Len(cohort) = Len(Plan[c])
          /\ DOMAIN cohort = 1 .. Len(Plan[c])
          /\ \A i \in 1 .. Len(Plan[c]) :
                /\ cohort[i].status = "TECHNICAL_INVALID" /\ cohort[i].reason = t.reason
                /\ \/ /\ i \in DOMAIN trials
                      /\ cohort[i].exp = trials[i].exp /\ cohort[i].started = trials[i].started
                   \/ i \notin DOMAIN trials /\ Empty(cohort[i])
      <3>1. Len(trials) <= Len(Plan[c])
        BY <1>1, <1>2
      <3>2. QED
        BY <1>2, <2>1, <3>1, CohortType
    <2>3. evidence'[c] = cohort /\ pc'[c] = "publish"
      BY <1>3, <1>4, <1>6
    <2>4. evidence' \in [Campaigns -> Seq(Trials)]
      BY <2>2, <1>6, Zenon DEF Conclude, TypeInv, TypeOK, trials
    <2>5. LocalsOK(c)'
      BY <1>1, <2>2, <2>3
         DEF LocalsOK, Working, OutsideSteps, CensusSteps, AttemptSteps, UncountedSteps, tables
    <2>6. Continues(c, t)
      <3> SUFFICES ASSUME NEW i \in 1 .. Len(Plan[c])
                   PROVE  \/ i \in DOMAIN old /\ Copies(cohort[i], old[i])
                          \/ i = Ordinal(c) /\ Copies(cohort[i], t)
                          \/ Empty(cohort[i])
        BY <2>2, <2>3 DEF Continues
      <3>1. cohort[i].status = "TECHNICAL_INVALID" /\ cohort[i].reason = t.reason
        BY <2>2
      <3>2. Drifted(cohort[i])
        BY <2>1, <3>1 DEF Drifted
      <3>3. \/ /\ i \in DOMAIN trials
               /\ cohort[i].exp = trials[i].exp /\ cohort[i].started = trials[i].started
            \/ Empty(cohort[i])
        BY <2>2
      <3>4. i \in DOMAIN trials => (i \in DOMAIN old /\ trials[i] = old[i])
                                   \/ (i = Ordinal(c) /\ trials[i] = t)
        BY <1>1, <1>2 DEF Ordinal
      <3>5. QED
        BY <3>1, <3>2, <3>3, <3>4 DEF Copies
    <2>7. QED
      BY <1>1, <1>4, <1>5, <2>2, <2>3, <2>4, <2>5, <2>6
  <1>7. CASE ~Drifted(t)
    <2>1. evidence'[c] = trials
      BY <1>3, <1>7
    <2>2. evidence' \in [Campaigns -> Seq(Trials)]
      BY <1>2, <1>7 DEF Conclude, TypeInv, TypeOK
    <2>3. Len(evidence'[c]) <= Len(Plan[c])
      BY <1>1, <1>2, <2>1
    <2>4. LocalsOK(c)'
      BY <1>1, <1>2, <1>4, <1>7, <2>1
         DEF LocalsOK, Working, OutsideSteps, CensusSteps, AttemptSteps, UncountedSteps, tables
    <2>5. Continues(c, t)
      BY <1>1, <1>2, <2>1 DEF Continues, Copies, Ordinal
    <2>6. evidence'[c] = Append(evidence[c], t)
      BY <2>1 DEF trials
    <2>7. QED
      BY <1>4, <1>5, <1>7, <2>2, <2>3, <2>4, <2>5, <2>6
  <1>8. QED
    BY <1>6, <1>7

LEMMA ElsewhereOK ==
    ASSUME NEW c \in Campaigns, Others(c), TypeInv, LocalsOK(c)',
           Working(c) \/ ~Working(c)' \/ \A d \in Campaigns : ~Working(d)
    PROVE  Alone' /\ \A d \in Campaigns : LocalsOK(d)'
  BY LocalsElsewhere, AloneStep DEF TypeInv

\* What a step that ends the run of c does to the types.
LEMMA LeaveType ==
    ASSUME NEW c \in Campaigns, TypeInv, Leave(c), UNCHANGED <<phase, tables>>
    PROVE  /\ Alone' /\ \A d \in Campaigns : LocalsOK(d)'
           /\ pc' \in [Campaigns -> Steps]
           /\ reference' \in [Campaigns -> Worlds \cup {None}]
           /\ prepared' \in [Campaigns -> Worlds \cup {None}]
           /\ evidence' \in [Campaigns -> Seq(Trials)]
           /\ evidence'[c] = <<>> /\ pc'[c] = "idle"
           /\ \A d \in Campaigns : Len(evidence'[d]) <= Len(Plan[d])
           /\ Others(c)
  <1>1. <<>> \in Seq(Trials) /\ Len(<<>>) = 0
    BY EmptySeq
  <1>2. /\ pc' \in [Campaigns -> Steps] /\ pc'[c] = "idle" /\ evidence'[c] = <<>>
        /\ reference' \in [Campaigns -> Worlds \cup {None}]
        /\ prepared' \in [Campaigns -> Worlds \cup {None}]
        /\ evidence' \in [Campaigns -> Seq(Trials)]
        /\ Others(c)
    BY <1>1 DEF TypeInv, TypeOK, Leave, Goto, Steps, Others, tables
  <1>3. \A d \in Campaigns : Len(evidence'[d]) <= Len(Plan[d])
    <2>1. Len(Plan[c]) \in Nat /\ Len(evidence'[c]) = 0
      BY <1>1, <1>2, PlanType
    <2>2. \A d \in Campaigns \ {c} : evidence'[d] = evidence[d]
      BY <1>2 DEF Others
    <2>3. \A d \in Campaigns : Len(evidence[d]) <= Len(Plan[d])
      BY DEF TypeInv, TypeOK
    <2>4. QED
      BY <2>1, <2>2, <2>3
  <1>4. LocalsOK(c)' /\ ~Working(c)'
    BY <1>2 DEF LocalsOK, Working, OutsideSteps, CensusSteps, AttemptSteps, UncountedSteps
  <1>5. QED
    BY <1>2, <1>3, <1>4, ElsewhereOK

\* What a step of c that neither concludes an attempt nor leaves does to them.
LEMMA StayType ==
    ASSUME NEW c \in Campaigns, TypeInv, NEW step \in Steps, Goto(c, step),
           UNCHANGED <<reference, evidence, tables, summaries>>,
           \/ UNCHANGED prepared
           \/ prepared' = [prepared EXCEPT ![c] = world],
           phase' \in [Experiments -> {"absent", "open"} \cup Settled],
           launchedBy' \in [Experiments -> Campaigns \cup {"rival", None}],
           UNCHANGED <<world, rival>>,
           Working(c) <=> step \notin OutsideSteps,
           LocalsOK(c)'
    PROVE  TypeInv'
  <1>1. TypeOK' /\ Others(c) /\ pc'[c] = step
    BY DEF TypeInv, TypeOK, Goto, Others, tables
  <1>2. QED
    BY <1>1, ElsewhereOK DEF TypeInv, Working

LEMMA ConcludedType ==
    ASSUME NEW c \in Campaigns, NEW t \in Trials, TypeInv, Conclude(c, t),
           pc[c] \in AttemptSteps \cup {"attempt"},
           UNCHANGED <<world, phase, rival, reference, prepared, tables, launchedBy, summaries>>
    PROVE  TypeInv'
  <1>1. /\ evidence' \in [Campaigns -> Seq(Trials)] /\ pc' \in [Campaigns -> Steps]
        /\ Len(evidence'[c]) <= Len(Plan[c])
        /\ Others(c) /\ LocalsOK(c)'
    BY ConcludeType
  <1>2. Working(c)
    BY DEF Working, AttemptSteps, OutsideSteps
  <1>3. Alone' /\ \A d \in Campaigns : LocalsOK(d)'
    BY <1>1, <1>2, ElsewhereOK
  <1>4. TypeOK'
    BY <1>1 DEF TypeInv, TypeOK, Others, tables
  <1>5. QED
    BY <1>3, <1>4 DEF TypeInv

\* Every trial a campaign concludes an attempt with is one.
LEMMA TechnicalType ==
    ASSUME NEW started \in BOOLEAN, NEW reason \in Reasons, NEW x \in Experiments \cup {None}
    PROVE  /\ Technical(started, reason, x) \in Trials
           /\ Technical(started, reason, x).status = "TECHNICAL_INVALID"
           /\ Technical(started, reason, x).started = started
           /\ Technical(started, reason, x).reason = reason
           /\ Technical(started, reason, x).exp = x
  BY DEF Technical, Trial, Trials, Statuses

LEMMA TechnicalEmpty ==
    ASSUME NEW reason \in Reasons
    PROVE  /\ Technical(FALSE, reason, None) \in Trials
           /\ Technical(FALSE, reason, None).status = "TECHNICAL_INVALID"
           /\ Technical(FALSE, reason, None).started = FALSE
           /\ Technical(FALSE, reason, None).exp = None
  <1>1. \A started \in BOOLEAN, x \in Experiments \cup {None} :
           /\ Technical(started, reason, x) \in Trials
           /\ Technical(started, reason, x).status = "TECHNICAL_INVALID"
           /\ Technical(started, reason, x).started = started
           /\ Technical(started, reason, x).exp = x
    BY TechnicalType
  <1>2. PICK started \in BOOLEAN : started = FALSE
    OBVIOUS
  <1>3. PICK x \in Experiments \cup {None} : x = None
    OBVIOUS
  <1>4. QED
    BY <1>1, <1>2, <1>3

LEMMA ExistingType ==
    ASSUME NEW x \in Experiments, phase[x] \in Settled
    PROVE  /\ Existing(x) \in Trials /\ Reused(x) \in Trials
           /\ Existing(x).exp = x /\ Existing(x).started
           /\ Reused(x).exp = x /\ ~Reused(x).started
           /\ Existing(x).status = StatusOf(x) /\ Reused(x).status = StatusOf(x)
           /\ StatusOf(x) = "SURVIVED" <=> phase[x] = "SCREEN_PASSED"
  <1>1. StatusOf(x) \in {"SURVIVED", "TECHNICAL_INVALID"}
        /\ (StatusOf(x) = "SURVIVED" <=> phase[x] = "SCREEN_PASSED")
    BY DEF StatusOf
  <1>2. StatusOf(x) \in Statuses /\ phase[x] \in Reasons
    BY <1>1 DEF Statuses, Reasons
  <1> DEFINE s == StatusOf(x)
  <1>3. Existing(x) = [status |-> s, started |-> TRUE, reason |-> phase[x], exp |-> x, marks |-> {}]
        /\ Reused(x) = [status |-> s, started |-> FALSE, reason |-> phase[x], exp |-> x,
                        marks |-> {"REUSED"}]
    BY DEF Existing, Reused, Trial
  <1> HIDE DEF s
  <1>4. QED
    BY <1>1, <1>2, <1>3 DEF Trials, s

LEMMA AttemptFacts ==
    ASSUME TypeInv, NEW c \in Campaigns, pc[c] \in AttemptSteps \cup {"attempt"}
    PROVE  /\ evidence[c] \in Seq(Trials) /\ Len(evidence[c]) \in Nat
           /\ DOMAIN evidence[c] = 1 .. Len(evidence[c])
           /\ Ordinal(c) \in 1 .. Len(Plan[c]) /\ Ordinal(c) = Len(evidence[c]) + 1
           /\ Attempt(c) \in Strategies \cup {Invalid}
           /\ census[c] = <<>> /\ Book(c) = evidence[c]
           /\ \A i \in DOMAIN evidence[c] :
                 evidence[c][i] \in Trials /\ i \in DOMAIN Plan[c]
  <1>1. /\ evidence[c] \in Seq(Trials) /\ Len(evidence[c]) \in Nat
        /\ DOMAIN evidence[c] = 1 .. Len(evidence[c])
        /\ Len(Plan[c]) \in Nat /\ DOMAIN Plan[c] = 1 .. Len(Plan[c])
        /\ Len(evidence[c]) < Len(Plan[c]) /\ census[c] = <<>>
    BY PlanType, LenProperties DEF TypeInv, TypeOK, LocalsOK, AttemptSteps, CensusSteps
  <1>2. Ordinal(c) \in 1 .. Len(Plan[c]) /\ Ordinal(c) = Len(evidence[c]) + 1
    BY <1>1 DEF Ordinal
  <1>3. Attempt(c) \in Strategies \cup {Invalid}
    BY <1>2, PlanType DEF Attempt
  <1>4. \A i \in DOMAIN evidence[c] : evidence[c][i] \in Trials /\ i \in DOMAIN Plan[c]
    BY <1>1, ElementOfSeq
  <1>5. QED
    BY <1>1, <1>2, <1>3, <1>4 DEF Book

LEMMA TargetType ==
    ASSUME TypeInv, NEW c \in Campaigns, pc[c] \in AttemptSteps
    PROVE  /\ Target(c) \in Experiments
           /\ Target(c).strategy = Attempt(c) /\ Target(c).world = prepared[c]
           /\ prepared[c] \in Worlds /\ Attempt(c) \in Strategies
  BY DEF TypeInv, LocalsOK, Target, Experiments

LEMMA SeenFacts ==
    ASSUME TypeInv, NEW c \in Campaigns, pc[c] = "attempt", NEW prior \in Seen(c)
    PROVE  \E i \in DOMAIN evidence[c] :
              prior = evidence[c][i] /\ prior \in Trials /\ Plan[c][i] = Attempt(c)
  BY AttemptFacts DEF Seen

LEMMA SuppressedType ==
    ASSUME NEW x \in Experiments \cup {None}
    PROVE  LET t == Trial("DUPLICATE_SUPPRESSED", FALSE, "DUPLICATE_CONTENT_ID", x, {"DUPLICATE"})
           IN  /\ t \in Trials /\ t.exp = x /\ ~t.started
               /\ t.status # "SURVIVED" /\ t.status = "DUPLICATE_SUPPRESSED"
  BY DEF Trial, Trials, Statuses, Reasons

LEMMA ValidatedType ==
    ASSUME NEW x \in Experiments, phase[x] \in Settled
    PROVE  /\ Validated(Reused(x)) \in Trials /\ ~Validated(Reused(x)).started
           /\ Validated(Reused(x)).exp \in {x, None}
           /\ Validated(Reused(x)).status # "SURVIVED"
  <1>1. Reused(x) \in Trials /\ Reused(x).exp = x /\ ~Reused(x).started
    BY ExistingType
  <1>2. CASE Reused(x).status = "SURVIVED"
    <2>1. Validated(Reused(x)) = Technical(FALSE, "CAMPAIGN_EXECUTOR_FAILED", None)
      BY <1>1, <1>2 DEF Validated
    <2>2. "CAMPAIGN_EXECUTOR_FAILED" \in Reasons
      BY DEF Reasons
    <2> DEFINE t == Technical(FALSE, "CAMPAIGN_EXECUTOR_FAILED", None)
    <2>3. t \in Trials /\ t.status = "TECHNICAL_INVALID" /\ t.started = FALSE /\ t.exp = None
      BY <2>2, TechnicalEmpty
    <2> HIDE DEF t
    <2>4. QED
      BY <2>1, <2>3 DEF t
  <1>3. CASE Reused(x).status # "SURVIVED"
    BY <1>1, <1>3 DEF Validated
  <1>4. QED
    BY <1>2, <1>3

\* What the acting campaign adds to its book is backed.
Backed(c, t) ==
    /\ t \in Trials
    /\ TrialOK(c, Ordinal(c), t)
    /\ t.started => Uncounted(t.exp)
    /\ t.status = "SURVIVED" => t.exp.world = reference[c]

LEMMA TechnicalBacked ==
    ASSUME NEW c \in Campaigns, NEW reason \in Reasons
    PROVE  Backed(c, Technical(FALSE, reason, None))
  <1> DEFINE t == Technical(FALSE, reason, None)
  <1>1. t \in Trials /\ t.status = "TECHNICAL_INVALID" /\ t.started = FALSE /\ t.exp = None
    BY TechnicalEmpty
  <1> HIDE DEF t
  <1>2. Backed(c, t)
    BY <1>1 DEF Backed, TrialOK
  <1>3. QED
    BY <1>2 DEF t

-----------------------------------------------------------------------------
(* Every attempt concludes with a trial that is backed                      *)

Concludes(c) ==
    \E t \in Trials :
        /\ Backed(c, t) /\ Conclude(c, t)
        /\ pc[c] \in AttemptSteps \cup {"attempt"}
        /\ UNCHANGED <<world, phase, rival, reference, prepared, tables, launchedBy, summaries>>

LEMMA TechnicalConcludes ==
    ASSUME NEW c \in Campaigns, NEW reason \in Reasons,
           Conclude(c, Technical(FALSE, reason, None)),
           pc[c] \in AttemptSteps \cup {"attempt"},
           UNCHANGED <<world, phase, rival, reference, prepared, tables, launchedBy, summaries>>
    PROVE  Concludes(c)
  BY TechnicalBacked DEF Concludes, Backed

LEMMA RejectConcludes ==
    ASSUME NEW c \in Campaigns, RejectInvalid(c)
    PROVE  Concludes(c)
  <1>1. "INVALID_FAMILY_OR_PARAMETERS" \in Reasons
    BY DEF Reasons
  <1>2. QED
    BY <1>1, TechnicalConcludes DEF RejectInvalid, At

LEMMA SuppressConcludes ==
    ASSUME CampaignInv, NEW c \in Campaigns, SuppressDuplicate(c)
    PROVE  Concludes(c)
  <1>1. pc[c] = "attempt" /\ TypeInv
    BY DEF SuppressDuplicate, At, CampaignInv
  <1>2. PICK prior \in Seen(c) :
            Conclude(c, Trial("DUPLICATE_SUPPRESSED", FALSE, "DUPLICATE_CONTENT_ID",
                              prior.exp, {"DUPLICATE"}))
    BY DEF SuppressDuplicate
  <1>3. PICK i \in DOMAIN evidence[c] :
            prior = evidence[c][i] /\ prior \in Trials /\ Plan[c][i] = Attempt(c)
    BY <1>1, SeenFacts
  <1>4. TrialOK(c, i, prior)
    BY <1>1, <1>3, AttemptFacts DEF CampaignInv, BookInv, TrialsOK
  <1>5. prior.exp \in Experiments \cup {None}
    BY <1>3 DEF Trials
  <1> DEFINE t == Trial("DUPLICATE_SUPPRESSED", FALSE, "DUPLICATE_CONTENT_ID",
                        prior.exp, {"DUPLICATE"})
  <1>6. t \in Trials /\ t.exp = prior.exp /\ ~t.started /\ t.status # "SURVIVED"
    BY <1>5, SuppressedType
  <1> HIDE DEF t
  <1>7. prior.exp # None => phase[prior.exp] # "absent" /\ prior.exp.strategy = Attempt(c)
    BY <1>3, <1>4 DEF TrialOK
  <1>8. Backed(c, t)
    BY <1>6, <1>7 DEF Backed, TrialOK, Attempt
  <1>9. QED
    BY <1>1, <1>2, <1>6, <1>8 DEF Concludes, SuppressDuplicate, t

\* A campaign that looks its experiment up reuses what is settled.
LEMMA ReusedBacked ==
    ASSUME CampaignInv, NEW c \in Campaigns, pc[c] = "lookup", Frozen(c),
           phase[Target(c)] \in Settled
    PROVE  Backed(c, Reused(Target(c)))
  <1> DEFINE x == Target(c)
             t == Reused(x)
  <1>1. /\ x \in Experiments /\ x.strategy = Attempt(c) /\ x.world = prepared[c]
        /\ prepared[c] \in Worlds
    BY TargetType DEF CampaignInv, AttemptSteps
  <1>2. prepared[c] = reference[c] /\ reference[c] \in Approved
    BY <1>1, CampaignAssumption DEF Frozen, CampaignInv, TypeInv, LocalsOK, AttemptSteps
  <1>3. /\ t \in Trials /\ t.exp = x /\ ~t.started
        /\ t.status = "SURVIVED" <=> phase[x] = "SCREEN_PASSED"
    BY <1>1, ExistingType
  <1>4. phase[x] \in Settled
    OBVIOUS
  <1> HIDE DEF t, x
  <1>5. phase[x] # "absent"
    BY <1>4 DEF Settled
  <1>6. Backed(c, t)
    BY <1>1, <1>2, <1>3, <1>5, NoneApart DEF Backed, TrialOK, Attempt
  <1>7. QED
    BY <1>6 DEF t, x

LEMMA LookupConcludes ==
    ASSUME CampaignInv, NEW c \in Campaigns, Lookup(c)
    PROVE  \/ Concludes(c)
           \/ Frozen(c) /\ phase[Target(c)] = "absent" /\ Goto(c, "execute") /\ UNCHANGED evidence
  <1>1. /\ pc[c] = "lookup" /\ pc[c] \in AttemptSteps
        /\ UNCHANGED <<world, phase, rival, reference, prepared, tables, launchedBy, summaries>>
    BY DEF Lookup, At, AttemptSteps
  <1>2. {"CAMPAIGN_PREFLIGHT_DRIFT", "CAMPAIGN_EXISTING_NONTERMINAL"} \subseteq Reasons
    BY DEF Reasons
  <1>3. CASE Conclude(c, Technical(FALSE, "CAMPAIGN_PREFLIGHT_DRIFT", None))
    BY <1>1, <1>2, <1>3, TechnicalConcludes
  <1>4. CASE Conclude(c, Nonterminal(c))
    BY <1>1, <1>2, <1>4, TechnicalConcludes DEF Nonterminal
  <1>5. CASE Frozen(c) /\ phase[Target(c)] \in Settled /\ Conclude(c, Reused(Target(c)))
    <2>1. Backed(c, Reused(Target(c)))
      BY <1>1, <1>5, ReusedBacked
    <2>2. Reused(Target(c)) \in Trials
      BY <2>1 DEF Backed
    <2>3. QED
      BY <1>1, <1>5, <2>1, <2>2 DEF Concludes
  <1>6. QED
    BY <1>3, <1>4, <1>5 DEF Lookup

LEMMA ClaimConcludes ==
    ASSUME CampaignInv, NEW c \in Campaigns, Claim(c)
    PROVE  \/ Concludes(c)
           \/ Frozen(c) /\ Launch(c)
           \/ /\ Frozen(c) /\ phase[Target(c)] \in Settled
              /\ Goto(c, "reused") /\ UNCHANGED <<evidence, phase, launchedBy>>
  <1>1. /\ pc[c] = "claim" /\ pc[c] \in AttemptSteps
        /\ UNCHANGED <<world, rival, reference, prepared, tables, summaries>>
    BY DEF Claim, At, AttemptSteps
  <1>2. {"CAMPAIGN_PREFLIGHT_DRIFT", "CAMPAIGN_EXISTING_NONTERMINAL",
         "CAMPAIGN_EXECUTION_INVALID"} \subseteq Reasons
    BY DEF Reasons
  <1>3. ASSUME NEW reason \in Reasons, Conclude(c, Technical(FALSE, reason, None)),
               UNCHANGED <<phase, launchedBy>>
        PROVE  Concludes(c)
    BY <1>1, <1>3, TechnicalConcludes
  <1>4. QED
    BY <1>2, <1>3 DEF Claim, Nonterminal

\* An execution that ends, or was found completed, is in no book and has its launcher.
LEMMA RunningFacts ==
    ASSUME CampaignInv, NEW c \in Campaigns, pc[c] \in {"running", "returned", "reused"}
    PROVE  /\ Target(c) \in Experiments /\ Target(c) # None
           /\ Target(c).strategy = Plan[c][Ordinal(c)] /\ Target(c).world = reference[c]
           /\ reference[c] \in Approved /\ reference[c] = prepared[c]
           /\ Uncounted(Target(c)) /\ phase[Target(c)] # "absent"
           /\ pc[c] # "running" => phase[Target(c)] \in Settled
           /\ launchedBy[Target(c)] = IF pc[c] = "reused" THEN "rival" ELSE c
           /\ pc[c] \in AttemptSteps
  <1>1. pc[c] \in AttemptSteps /\ pc[c] \in UncountedSteps /\ TypeInv /\ LaunchInv
    BY DEF AttemptSteps, UncountedSteps, CampaignInv
  <1>2. prepared[c] = reference[c] /\ reference[c] \in Approved
    BY <1>1 DEF TypeInv, LocalsOK
  <1>3. Target(c) = Expected(c)
    BY <1>2 DEF Target, Expected
  <1>4. Uncounted(Target(c))
    BY <1>1, <1>3 DEF CampaignInv, BookInv, CountInv
  <1>5. /\ pc[c] # "running" => phase[Target(c)] \in Settled
        /\ pc[c] = "running" => phase[Target(c)] = "open"
        /\ launchedBy[Target(c)] = IF pc[c] = "reused" THEN "rival" ELSE c
    BY <1>1 DEF LaunchInv, LaunchOK
  <1>6. QED
    BY <1>1, <1>2, <1>4, <1>5, TargetType, NoneApart DEF Settled, Attempt

LEMMA StartedBacked ==
    ASSUME CampaignInv, NEW c \in Campaigns, pc[c] \in {"running", "returned", "reused"},
           NEW started \in BOOLEAN, NEW reason \in Reasons,
           started /\ pc[c] = "reused" => reason = "CAMPAIGN_PREFLIGHT_DRIFT"
    PROVE  Backed(c, Technical(started, reason, Target(c)))
  <1> DEFINE x == Target(c)
             t == Technical(started, reason, x)
  <1>1. /\ x \in Experiments /\ x # None /\ x.strategy = Plan[c][Ordinal(c)]
        /\ Uncounted(x) /\ phase[x] # "absent"
        /\ launchedBy[x] = IF pc[c] = "reused" THEN "rival" ELSE c
    BY RunningFacts
  <1> HIDE DEF x
  <1>2. /\ t \in Trials /\ t.exp = x /\ t.started = started /\ t.reason = reason
        /\ t.status = "TECHNICAL_INVALID"
    BY <1>1, TechnicalType
  <1> HIDE DEF t
  <1>3. started => launchedBy[x] = c \/ (launchedBy[x] = "rival" /\ Drifted(t))
    BY <1>1, <1>2 DEF Drifted
  <1>4. Backed(c, t)
    BY <1>1, <1>2, <1>3 DEF Backed, TrialOK
  <1>5. QED
    BY <1>4 DEF t, x

LEMMA UnlinkedConcludes ==
    ASSUME NEW c \in Campaigns, UnlinkedFault(c),
           UNCHANGED <<world, phase, rival, reference, prepared, tables, launchedBy, summaries>>
    PROVE  Concludes(c)
  <1>1. pc[c] \in AttemptSteps
    BY DEF UnlinkedFault, At, AttemptSteps
  <1>2. \E reason \in Reasons : Conclude(c, Technical(FALSE, reason, None))
    BY DEF UnlinkedFault, Reasons
  <1>3. QED
    BY <1>1, <1>2, TechnicalConcludes

\* An execution that raises at its claim links its trial without having started it.
LEMMA ClaimFaultBacked ==
    ASSUME CampaignInv, NEW c \in Campaigns, pc[c] = "claim", Frozen(c),
           phase[Target(c)] # "absent", NEW reason \in Reasons
    PROVE  Backed(c, Technical(FALSE, reason, Target(c)))
  <1> DEFINE x == Target(c)
             t == Technical(FALSE, reason, x)
  <1>0. PICK started \in BOOLEAN : started = FALSE
    OBVIOUS
  <1>1. /\ x \in Experiments \cup {None} /\ x.strategy = Attempt(c)
        /\ phase[x] # "absent"
    BY TargetType DEF CampaignInv, AttemptSteps
  <1> HIDE DEF x
  <1>2. /\ Technical(started, reason, x) \in Trials
        /\ Technical(started, reason, x).exp = x
        /\ Technical(started, reason, x).started = started
        /\ Technical(started, reason, x).status = "TECHNICAL_INVALID"
    BY <1>1, TechnicalType
  <1>3. t \in Trials /\ t.exp = x /\ ~t.started /\ t.status = "TECHNICAL_INVALID"
    BY <1>0, <1>2
  <1> HIDE DEF t
  <1>4. Backed(c, t)
    BY <1>1, <1>3 DEF Backed, TrialOK, Attempt
  <1>5. QED
    BY <1>4 DEF t, x

LEMMA FaultConcludes ==
    ASSUME CampaignInv, NEW c \in Campaigns, Fault(c)
    PROVE  Concludes(c)
  <1>1. UNCHANGED <<world, phase, rival, reference, prepared, tables, launchedBy, summaries>>
    BY DEF Fault
  <1>2. CASE UnlinkedFault(c)
    BY <1>1, <1>2, UnlinkedConcludes
  <1>3. CASE LinkedFault(c)
    <2>1. PICK started \in BOOLEAN :
              /\ pc[c] \in {"claim", "reused"} => ~started
              /\ Conclude(c, Technical(started, "CAMPAIGN_EXECUTION_INVALID", Target(c)))
      BY <1>3 DEF LinkedFault, At
    <2>2. "CAMPAIGN_EXECUTION_INVALID" \in Reasons
      BY DEF Reasons
    <2>3. \/ pc[c] \in {"running", "returned", "reused"}
          \/ pc[c] = "claim" /\ Frozen(c) /\ phase[Target(c)] # "absent"
      BY <1>3 DEF LinkedFault, At
    <2>4. Backed(c, Technical(started, "CAMPAIGN_EXECUTION_INVALID", Target(c)))
      BY <2>1, <2>2, <2>3, StartedBacked, ClaimFaultBacked
    <2>5. pc[c] \in AttemptSteps
      BY <2>3 DEF AttemptSteps
    <2>6. QED
      BY <1>1, <2>1, <2>4, <2>5 DEF Concludes, Backed
  <1>4. QED
    BY <1>2, <1>3 DEF Fault

LEMMA ReturnConcludes ==
    ASSUME CampaignInv, NEW c \in Campaigns, Return(c)
    PROVE  Concludes(c)
  <1> DEFINE x == Target(c)
  <1>1. /\ pc[c] \in {"returned", "reused"}
        /\ UNCHANGED <<world, phase, rival, reference, prepared, tables, launchedBy, summaries>>
    BY DEF Return, At
  <1>2. /\ x \in Experiments /\ x # None /\ x.strategy = Plan[c][Ordinal(c)]
        /\ x.world = reference[c] /\ reference[c] \in Approved
        /\ Uncounted(x) /\ phase[x] # "absent" /\ phase[x] \in Settled
        /\ launchedBy[x] = IF pc[c] = "reused" THEN "rival" ELSE c
        /\ pc[c] \in AttemptSteps
    BY <1>1, RunningFacts
  <1>3. CASE Conclude(c, Technical(TRUE, "CAMPAIGN_PREFLIGHT_DRIFT", x))
    <2>1. "CAMPAIGN_PREFLIGHT_DRIFT" \in Reasons
      BY DEF Reasons
    <2>2. Backed(c, Technical(TRUE, "CAMPAIGN_PREFLIGHT_DRIFT", x))
      BY <1>1, <2>1, StartedBacked
    <2>3. QED
      BY <1>1, <1>2, <1>3, <2>2 DEF Concludes, Backed
  <1>4. CASE pc[c] = "returned" /\ Conclude(c, Existing(x))
    <2> DEFINE t == Existing(x)
    <2>1. /\ t \in Trials /\ t.exp = x /\ t.started
          /\ t.status = "SURVIVED" <=> phase[x] = "SCREEN_PASSED"
      BY <1>2, ExistingType
    <2> HIDE DEF t, x
    <2>2. Backed(c, t)
      BY <1>2, <1>4, <2>1 DEF Backed, TrialOK
    <2>3. QED
      BY <1>1, <1>2, <1>4, <2>1, <2>2 DEF Concludes, t, x
  <1>5. CASE pc[c] = "reused" /\ Conclude(c, Validated(Reused(x)))
    <2> DEFINE t == Validated(Reused(x))
    <2>1. /\ t \in Trials /\ t.exp \in {x, None} /\ ~t.started /\ t.status # "SURVIVED"
      BY <1>2, ValidatedType
    <2> HIDE DEF t, x
    <2>2. Backed(c, t)
      BY <1>2, <1>5, <2>1 DEF Backed, TrialOK
    <2>3. QED
      BY <1>1, <1>2, <1>5, <2>1, <2>2 DEF Concludes, t, x
  <1>6. QED
    BY <1>3, <1>4, <1>5 DEF Return, At

-----------------------------------------------------------------------------
(* The types are kept                                                       *)

LEMMA ConcludesType ==
    ASSUME TypeInv, NEW c \in Campaigns, Concludes(c)
    PROVE  TypeInv'
  BY ConcludedType DEF Concludes

LEMMA FreezeType ==
    ASSUME TypeInv, NEW c \in Campaigns, Freeze(c)
    PROVE  TypeInv' /\ Others(c) /\ UNCHANGED <<world, phase, rival, census, launchedBy, summaries>>
  <1>1. PICK frozen \in {world, None} :
            LET valid == HasValidAttempt(c)
                value == IF ~valid THEN "unfrozen"
                         ELSE IF frozen = None THEN "failed" ELSE PreflightOf(frozen)
            IN  /\ At(c, "waiting")
                /\ CampaignLockFree
                /\ ~valid => frozen = None
                /\ \/ /\ preflights[c] \in {None, value}
                      /\ preflights' = [preflights EXCEPT ![c] = value]
                      /\ reference' = [reference EXCEPT ![c] = frozen]
                      /\ UNCHANGED prepared
                      /\ \/ census[c] # <<>> /\ Goto(c, "restore") /\ UNCHANGED evidence
                         \/ /\ census[c] = <<>> /\ value \in {"approved", "unfrozen"}
                            /\ Goto(c, "attempt") /\ UNCHANGED evidence
                         \/ /\ census[c] = <<>> /\ value \notin {"approved", "unfrozen"}
                            /\ evidence' = [evidence EXCEPT ![c] = CohortFailed(c, <<>>,
                                   IF value = "failed" THEN "CAMPAIGN_PREFLIGHT_DRIFT"
                                   ELSE "PREFLIGHT_MISMATCH")]
                            /\ Goto(c, "publish")
                   \/ /\ preflights[c] \notin {None, value}
                      /\ Leave(c)
                      /\ UNCHANGED preflights
                /\ UNCHANGED <<world, phase, rival, census, launchedBy, summaries>>
    BY DEF Freeze
  <1> DEFINE value == IF ~HasValidAttempt(c) THEN "unfrozen"
                      ELSE IF frozen = None THEN "failed" ELSE PreflightOf(frozen)
             reason == IF value = "failed" THEN "CAMPAIGN_PREFLIGHT_DRIFT"
                       ELSE "PREFLIGHT_MISMATCH"
             cohort == CohortFailed(c, <<>>, reason)
  <1>2. /\ pc[c] = "waiting" /\ \A d \in Campaigns : ~Working(d)
        /\ UNCHANGED <<world, phase, rival, census, launchedBy, summaries>>
    BY <1>1 DEF At, CampaignLockFree, Working, OutsideSteps
  <1>3. /\ value \in Worlds \cup Verdicts /\ value # None
        /\ frozen \in Worlds \cup {None}
        /\ value \in {"approved", "unfrozen"} => frozen \in Approved \cup {None}
    BY <1>1, CampaignAssumption DEF PreflightOf, TypeInv, TypeOK, Verdicts
  <1>4. CASE /\ preflights' = [preflights EXCEPT ![c] = value]
             /\ reference' = [reference EXCEPT ![c] = frozen]
             /\ UNCHANGED <<prepared, evidence>>
             /\ \/ census[c] # <<>> /\ Goto(c, "restore")
                \/ census[c] = <<>> /\ value \in {"approved", "unfrozen"} /\ Goto(c, "attempt")
    <2>1. Others(c) /\ UNCHANGED <<evidence, census>> /\ reference'[c] = frozen /\ preflights'[c] = value
          /\ pc'[c] = IF census[c] # <<>> THEN "restore" ELSE "attempt"
      BY <1>2, <1>4 DEF Others, Goto, TypeInv, TypeOK
    <2>2. TypeOK'
      BY <1>2, <1>3, <1>4 DEF TypeInv, TypeOK, Goto, Steps
    <2>3. evidence[c] = <<>> /\ Len(evidence[c]) = 0 /\ Len(Plan[c]) > 0
      BY <1>2, EmptySeq, PlanType DEF TypeInv, LocalsOK, OutsideSteps
    <2>4. LocalsOK(c)'
      BY <1>3, <1>4, <2>1, <2>3
         DEF LocalsOK, Working, OutsideSteps, CensusSteps, AttemptSteps, UncountedSteps
    <2>5. QED
      BY <1>2, <2>1, <2>2, <2>4, ElsewhereOK DEF TypeInv
  <1>5. CASE /\ preflights' = [preflights EXCEPT ![c] = value]
             /\ reference' = [reference EXCEPT ![c] = frozen]
             /\ UNCHANGED prepared
             /\ census[c] = <<>> /\ Goto(c, "publish")
             /\ evidence' = [evidence EXCEPT ![c] = cohort]
    <2>1. <<>> \in Seq(Trials) /\ Len(<<>>) = 0 /\ Len(Plan[c]) \in Nat /\ Len(<<>>) <= Len(Plan[c])
      BY EmptySeq, PlanType
    <2>2. reason \in Reasons
      BY DEF Reasons
    <2> HIDE DEF reason
    <2>3. cohort \in Seq(Trials) /\ Len(cohort) = Len(Plan[c])
      <3>1. PICK none \in Seq(Trials) : none = <<>>
        BY <2>1
      <3>2. Len(none) <= Len(Plan[c])
        BY <2>1, <3>1
      <3>3. /\ CohortFailed(c, none, reason) \in Seq(Trials)
            /\ Len(CohortFailed(c, none, reason)) = Len(Plan[c])
        BY <2>2, <3>2, CohortType
      <3>4. QED
        BY <3>1, <3>3
    <2> HIDE DEF cohort, value
    <2>4. Others(c) /\ UNCHANGED census /\ evidence'[c] = cohort /\ pc'[c] = "publish"
          /\ preflights'[c] = value
      BY <1>2, <1>5 DEF Others, Goto, TypeInv, TypeOK
    <2>5. TypeOK'
      BY <1>2, <1>3, <1>5, <2>1, <2>3 DEF TypeInv, TypeOK, Goto, Steps
    <2>6. LocalsOK(c)'
      BY <1>3, <1>5, <2>3, <2>4
         DEF LocalsOK, Working, OutsideSteps, CensusSteps, AttemptSteps, UncountedSteps
    <2>7. QED
      BY <1>2, <2>4, <2>5, <2>6, ElsewhereOK DEF TypeInv
  <1>6. CASE Leave(c) /\ UNCHANGED preflights
    <2>1. UNCHANGED <<phase, tables>>
      BY <1>2, <1>6 DEF tables
    <2>2. /\ Alone' /\ \A d \in Campaigns : LocalsOK(d)'
          /\ pc' \in [Campaigns -> Steps]
          /\ reference' \in [Campaigns -> Worlds \cup {None}]
          /\ prepared' \in [Campaigns -> Worlds \cup {None}]
          /\ evidence' \in [Campaigns -> Seq(Trials)]
          /\ \A d \in Campaigns : Len(evidence'[d]) <= Len(Plan[d])
          /\ Others(c)
      BY <1>6, <2>1, LeaveType
    <2>3. QED
      BY <1>2, <1>6, <2>2 DEF TypeInv, TypeOK
  <1>7. QED
    BY <1>1, <1>2, <1>4, <1>5, <1>6

\* The steps of an execution and of the rival.
LEMMA AdvanceType ==
    ASSUME TypeInv, NEW c \in Campaigns,
           UNCHANGED <<world, rival, reference, evidence, tables, summaries>>,
           phase' \in [Experiments -> {"absent", "open"} \cup Settled],
           launchedBy' \in [Experiments -> Campaigns \cup {"rival", None}],
           \/ pc[c] = "idle" /\ Goto(c, "waiting") /\ UNCHANGED prepared
           \/ /\ pc[c] = "attempt" /\ Attempt(c) # Invalid
              /\ Goto(c, "lookup") /\ prepared' = [prepared EXCEPT ![c] = world]
           \/ pc[c] = "lookup" /\ Frozen(c) /\ Goto(c, "execute") /\ UNCHANGED prepared
           \/ /\ pc[c] = "execute"
              /\ Goto(c, "claim") /\ prepared' = [prepared EXCEPT ![c] = world]
           \/ pc[c] = "claim" /\ Frozen(c) /\ Goto(c, "running") /\ UNCHANGED prepared
           \/ pc[c] = "claim" /\ Frozen(c) /\ Goto(c, "reused") /\ UNCHANGED prepared
           \/ pc[c] = "running" /\ Goto(c, "returned") /\ UNCHANGED prepared
    PROVE  TypeInv' /\ Others(c)
  <1>1. /\ pc \in [Campaigns -> Steps] /\ prepared \in [Campaigns -> Worlds \cup {None}]
        /\ world \in Worlds /\ reference[c] \in Worlds \cup {None} /\ LocalsOK(c)
    BY DEF TypeInv, TypeOK
  <1>2. PICK step \in Steps : Goto(c, step) /\ step \in AttemptSteps \cup {"waiting"}
    BY DEF Steps, AttemptSteps
  <1>3. pc'[c] = step
    BY <1>1, <1>2 DEF Goto
  <1>4. pc[c] \in AttemptSteps \cup {"attempt"} => Attempt(c) \in Strategies \cup {Invalid}
    BY AttemptFacts
  <1>5. /\ prepared'[c] \in Worlds \cup {None}
        /\ prepared' = prepared \/ (prepared' = [prepared EXCEPT ![c] = world] /\ prepared'[c] = world)
    BY <1>1
  <1>6. Attempt(c)' = Attempt(c) /\ evidence'[c] = evidence[c] /\ reference'[c] = reference[c]
        /\ census'[c] = census[c] /\ preflights'[c] = preflights[c]
    BY DEF Attempt, Ordinal, tables
  <1>7. LocalsOK(c)'
    <2>1. CASE pc[c] = "idle" /\ Goto(c, "waiting")
      <3>1. pc'[c] = "waiting"
        BY <1>1, <2>1 DEF Goto
      <3>2. QED
        BY <1>1, <1>6, <2>1, <3>1
           DEF LocalsOK, Working, OutsideSteps, CensusSteps, AttemptSteps, UncountedSteps
    <2>2. CASE pc[c] = "attempt" /\ Attempt(c) # Invalid /\ Goto(c, "lookup")
               /\ prepared' = [prepared EXCEPT ![c] = world]
      <3>1. pc'[c] = "lookup" /\ prepared'[c] = world
        BY <1>1, <2>2 DEF Goto
      <3>2. QED
        BY <1>1, <1>4, <1>6, <2>2, <3>1
           DEF LocalsOK, Working, OutsideSteps, CensusSteps, AttemptSteps, UncountedSteps
    <2>3. CASE pc[c] = "lookup" /\ Frozen(c) /\ Goto(c, "execute") /\ UNCHANGED prepared
      <3>1. pc'[c] = "execute" /\ reference[c] \in Approved
        BY <1>1, <2>3, NoneApart DEF Goto, Frozen, LocalsOK, AttemptSteps
      <3>2. QED
        BY <1>1, <1>6, <2>3, <3>1
           DEF LocalsOK, Working, OutsideSteps, CensusSteps, AttemptSteps, UncountedSteps
    <2>4. CASE pc[c] = "execute" /\ Goto(c, "claim") /\ prepared' = [prepared EXCEPT ![c] = world]
      <3>1. pc'[c] = "claim" /\ prepared'[c] = world
        BY <1>1, <2>4 DEF Goto
      <3>2. QED
        BY <1>1, <1>6, <2>4, <3>1
           DEF LocalsOK, Working, OutsideSteps, CensusSteps, AttemptSteps, UncountedSteps
    <2>5. CASE pc[c] = "claim" /\ Frozen(c) /\ (Goto(c, "running") \/ Goto(c, "reused"))
               /\ UNCHANGED prepared
      <3>1. pc'[c] \in {"running", "reused"} /\ prepared[c] = reference[c]
        BY <1>1, <2>5 DEF Goto, Frozen
      <3>2. QED
        BY <1>1, <1>6, <2>5, <3>1
           DEF LocalsOK, Working, OutsideSteps, CensusSteps, AttemptSteps, UncountedSteps
    <2>6. CASE pc[c] = "running" /\ Goto(c, "returned") /\ UNCHANGED prepared
      <3>1. pc'[c] = "returned"
        BY <1>1, <2>6 DEF Goto
      <3>2. QED
        BY <1>1, <1>6, <2>6, <3>1
           DEF LocalsOK, Working, OutsideSteps, CensusSteps, AttemptSteps, UncountedSteps
    <2>7. QED
      BY <2>1, <2>2, <2>3, <2>4, <2>5, <2>6
  <1>8. Working(c) <=> step \notin OutsideSteps
    BY <1>1, <1>3 DEF Working, OutsideSteps, Goto
  <1>9. Others(c)
    BY <1>1 DEF Others, Goto, tables
  <1>10. QED
    BY <1>2, <1>7, <1>8, <1>9, StayType

-----------------------------------------------------------------------------
(* Experiments only go on                                                   *)

Later ==
    \A x \in Experiments :
        /\ phase[x] # "absent" => phase'[x] # "absent"
        /\ phase[x] \in Settled => phase'[x] = phase[x]
        /\ launchedBy[x] # None => launchedBy'[x] = launchedBy[x]

LEMMA LaterKept == ASSUME UNCHANGED <<phase, launchedBy>> PROVE Later
  BY DEF Later

LEMMA LaunchKept ==
    ASSUME NEW c \in Campaigns, LaunchInv, Others(c),
           UNCHANGED <<phase, launchedBy, rival>>, LaunchOK(c)'
    PROVE  LaunchInv'
  <1>1. ASSUME NEW d \in Campaigns PROVE LaunchOK(d)'
    <2>1. CASE d = c
      BY <2>1
    <2>2. CASE d # c
      BY <2>2 DEF LaunchInv, LaunchOK, Others, Expected, Target, Attempt, Ordinal
    <2>3. QED
      BY <2>1, <2>2
  <1>2. QED
    BY <1>1 DEF LaunchInv

\* The others do not work while c does.
LEMMA OthersIdle ==
    ASSUME NEW c \in Campaigns, TypeInv, Working(c), Others(c), NEW d \in Campaigns \ {c}
    PROVE  ~Working(d) /\ ~Working(d)' /\ LaunchOK(d)'
  BY DEF TypeInv, Alone, Working, Others, LaunchOK, OutsideSteps

LEMMA LaunchStep ==
    ASSUME CampaignInv, NEW c \in Campaigns, pc[c] = "claim", Frozen(c), Launch(c),
           UNCHANGED <<world, rival, reference, prepared, tables, summaries>>
    PROVE  TypeInv' /\ Others(c) /\ LaunchInv' /\ Later
  <1> DEFINE x == Target(c)
  <1>1. TypeInv /\ LaunchInv /\ pc[c] \in AttemptSteps /\ Working(c)
    BY DEF CampaignInv, AttemptSteps, Working, OutsideSteps
  <1>2. x \in Experiments /\ Target(c)' = x
    BY <1>1, TargetType DEF Target, Attempt, Ordinal, Launch
  <1>3. phase[x] = "absent" /\ phase' = [phase EXCEPT ![x] = "open"]
        /\ launchedBy' = [launchedBy EXCEPT ![x] = c] /\ Goto(c, "running") /\ UNCHANGED evidence
    BY DEF Launch
  <1> HIDE DEF x
  <1>4. /\ phase \in [Experiments -> {"absent", "open"} \cup Settled]
        /\ launchedBy \in [Experiments -> Campaigns \cup {"rival", None}]
        /\ pc \in [Campaigns -> Steps] /\ rival \in Experiments \cup {None}
    BY <1>1 DEF TypeInv, TypeOK
  <1>5. TypeInv' /\ Others(c)
    <2>1. /\ phase' \in [Experiments -> {"absent", "open"} \cup Settled]
          /\ launchedBy' \in [Experiments -> Campaigns \cup {"rival", None}]
      BY <1>3, <1>4
    <2>2. QED
      BY <1>1, <1>3, <2>1, AdvanceType
  <1>6. launchedBy[x] = None /\ c # None /\ c # "rival"
    BY <1>1, <1>2, <1>3, CampaignAssumption DEF LaunchInv
  <1>7. /\ phase'[x] = "open" /\ launchedBy'[x] = c /\ pc'[c] = "running"
        /\ \A y \in Experiments \ {x} : phase'[y] = phase[y] /\ launchedBy'[y] = launchedBy[y]
    BY <1>2, <1>3, <1>4 DEF Goto
  <1>8. Later
    BY <1>3, <1>6, <1>7 DEF Later, Settled
  <1>9. rival # None => rival # x /\ phase'[rival] = "open" /\ launchedBy'[rival] = "rival"
    BY <1>1, <1>3, <1>4, <1>7 DEF LaunchInv
  <1>10. LaunchOK(c)'
    BY <1>2, <1>7 DEF LaunchOK
  <1>11. \A d \in Campaigns : LaunchOK(d)'
    BY <1>1, <1>5, <1>10, OthersIdle
  <1>12. \A y \in Experiments : phase'[y] = "absent" <=> launchedBy'[y] = None
    BY <1>1, <1>6, <1>7 DEF LaunchInv
  <1>13. LaunchInv'
    BY <1>9, <1>11, <1>12 DEF LaunchInv
  <1>14. QED
    BY <1>5, <1>8, <1>13

LEMMA SettleStep ==
    ASSUME CampaignInv, NEW c \in Campaigns, NEW reason \in Settled, Settle(c, reason)
    PROVE  TypeInv' /\ Others(c) /\ LaunchInv' /\ Later
  <1> DEFINE x == Target(c)
  <1>1. TypeInv /\ LaunchInv /\ pc[c] = "running" /\ pc[c] \in AttemptSteps /\ Working(c)
    BY DEF CampaignInv, AttemptSteps, Working, OutsideSteps, Settle, At
  <1>2. x \in Experiments /\ Target(c)' = x
    BY <1>1, TargetType DEF Target, Attempt, Ordinal, Settle, memory
  <1>3. /\ phase[x] = "open" /\ launchedBy[x] = c
        /\ phase' = [phase EXCEPT ![x] = reason] /\ Goto(c, "returned")
        /\ UNCHANGED <<world, rival, reference, prepared, evidence, tables, launchedBy, summaries>>
    BY <1>1 DEF Settle, memory, LaunchInv, LaunchOK
  <1> HIDE DEF x
  <1>4. /\ phase \in [Experiments -> {"absent", "open"} \cup Settled]
        /\ launchedBy \in [Experiments -> Campaigns \cup {"rival", None}]
        /\ pc \in [Campaigns -> Steps] /\ rival \in Experiments \cup {None}
    BY <1>1 DEF TypeInv, TypeOK
  <1>5. TypeInv' /\ Others(c)
    <2>1. phase' \in [Experiments -> {"absent", "open"} \cup Settled]
      BY <1>3, <1>4
    <2>2. QED
      BY <1>1, <1>3, <1>4, <2>1, AdvanceType
  <1>6. c # None /\ c # "rival" /\ reason # "absent"
    BY CampaignAssumption DEF Settled
  <1>7. /\ phase'[x] = reason /\ pc'[c] = "returned"
        /\ \A y \in Experiments \ {x} : phase'[y] = phase[y]
    BY <1>2, <1>3, <1>4 DEF Goto
  <1>8. Later
    BY <1>3, <1>6, <1>7 DEF Later, Settled
  <1>9. rival # None => rival # x /\ phase'[rival] = "open" /\ launchedBy'[rival] = "rival"
    BY <1>1, <1>3, <1>4, <1>6, <1>7 DEF LaunchInv
  <1>10. LaunchOK(c)'
    BY <1>2, <1>3, <1>7 DEF LaunchOK
  <1>11. \A d \in Campaigns : LaunchOK(d)'
    BY <1>1, <1>5, <1>10, OthersIdle
  <1>12. \A y \in Experiments : phase'[y] = "absent" <=> launchedBy'[y] = None
    BY <1>1, <1>3, <1>6, <1>7 DEF LaunchInv
  <1>13. LaunchInv'
    BY <1>3, <1>9, <1>11, <1>12 DEF LaunchInv
  <1>14. QED
    BY <1>5, <1>8, <1>13

-----------------------------------------------------------------------------
(* The books                                                                *)

LEMMA BookType ==
    ASSUME TypeInv, NEW c \in Campaigns
    PROVE  \A i \in DOMAIN Book(c) : Book(c)[i] \in Trials
  <1>1. Book(c) \in Seq(Trials)
    BY DEF TypeInv, TypeOK, Book
  <1>2. QED
    BY <1>1, LenProperties, ElementOfSeq

\* A copy of a trial that is right stays right while experiments go on.
LEMMA CopyOK ==
    ASSUME Later, NEW c \in Campaigns, NEW i, NEW t \in Trials, TrialOK(c, i, t),
           NEW u, Copies(u, t)
    PROVE  /\ u.exp # None => phase'[u.exp] # "absent" /\ u.exp.strategy = Plan[c][i]
           /\ u.started =>
                 /\ u.exp # None
                 /\ launchedBy'[u.exp] = c \/ (launchedBy'[u.exp] = "rival" /\ Drifted(u))
           /\ u.status = "SURVIVED" =>
                 /\ u.exp # None
                 /\ phase'[u.exp] = "SCREEN_PASSED" /\ u.exp.world \in Approved
  <1>1. t.exp \in Experiments \cup {None}
    BY DEF Trials
  <1>2. u.exp = t.exp /\ u.started = t.started /\ (Drifted(t) => Drifted(u))
        /\ (u.status = "SURVIVED" => t.status = "SURVIVED")
    BY DEF Copies, Drifted
  <1>3. t.exp # None =>
            /\ phase'[t.exp] # "absent"
            /\ phase[t.exp] = "SCREEN_PASSED" => phase'[t.exp] = "SCREEN_PASSED"
            /\ launchedBy[t.exp] # None => launchedBy'[t.exp] = launchedBy[t.exp]
    BY <1>1 DEF Later, TrialOK, Settled
  <1>4. c # None /\ "rival" # None
    BY CampaignAssumption
  <1>5. QED
    BY <1>2, <1>3, <1>4 DEF TrialOK

\* The book of c keeps its trials, gets t or is padded with empty trials.
Grows(c, t) ==
    \A i \in DOMAIN Book(c)' :
        \/ i \in DOMAIN Book(c) /\ Copies(Book(c)'[i], Book(c)[i])
        \/ i = Ordinal(c) /\ Copies(Book(c)'[i], t)
        \/ Empty(Book(c)'[i])

LEMMA CopyStep ==
    ASSUME Later, NEW d \in Campaigns, NEW i \in DOMAIN Book(d)',
           NEW t \in Trials, TrialOK(d, i, t), Copies(Book(d)'[i], t)
    PROVE  /\ TrialOK(d, i, Book(d)[i])'
           /\ Book(d)'[i].started = t.started /\ Book(d)'[i].exp = t.exp
  <1>1. PICK u : u = Book(d)'[i] /\ Copies(u, t)
    OBVIOUS
  <1>2. /\ u.exp # None => phase'[u.exp] # "absent" /\ u.exp.strategy = Plan[d][i]
        /\ u.started =>
              /\ u.exp # None
              /\ launchedBy'[u.exp] = d \/ (launchedBy'[u.exp] = "rival" /\ Drifted(u))
        /\ u.status = "SURVIVED" =>
              /\ u.exp # None
              /\ phase'[u.exp] = "SCREEN_PASSED" /\ u.exp.world \in Approved
    BY <1>1, CopyOK
  <1>3. u.started = t.started /\ u.exp = t.exp
    BY <1>1 DEF Copies
  <1>4. TrialOK(d, i, Book(d)[i])'
    BY <1>1, <1>2 DEF TrialOK, Drifted
  <1>5. QED
    BY <1>1, <1>3, <1>4

LEMMA BookStep ==
    ASSUME TypeInv, BookInv, NEW c \in Campaigns, NEW t, Backed(c, t), t.started => Working(c),
           Others(c), Later, Grows(c, t), WorldsOK(c)',
           pc'[c] \in UncountedSteps => ~t.started /\ \A x : x = Expected(c)' => Uncounted(x)
    PROVE  BookInv'
  <1>1. t \in Trials /\ TrialOK(c, Ordinal(c), t) /\ (t.started => Uncounted(t.exp))
    BY DEF Backed
  <1>2. \A d \in Campaigns \ {c} : Book(d)' = Book(d)
    BY DEF Others, Book
  <1>3. \A d \in Campaigns : \A i \in DOMAIN Book(d) :
            Book(d)[i] \in Trials /\ TrialOK(d, i, Book(d)[i])
    BY BookType DEF BookInv, TrialsOK
  <1>4. ASSUME NEW d \in Campaigns, NEW i \in DOMAIN Book(d)'
        PROVE  /\ TrialOK(d, i, Book(d)[i])'
               /\ Book(d)'[i].started =>
                     \/ /\ i \in DOMAIN Book(d) /\ Book(d)[i].started
                        /\ Book(d)'[i].exp = Book(d)[i].exp
                     \/ d = c /\ i = Ordinal(c) /\ t.started /\ Book(d)'[i].exp = t.exp
    <2>1. CASE i \in DOMAIN Book(d) /\ Copies(Book(d)'[i], Book(d)[i])
      BY <1>3, <2>1, CopyStep
    <2>2. CASE d = c /\ i = Ordinal(c) /\ Copies(Book(d)'[i], t)
      BY <1>1, <2>2, CopyStep
    <2>3. CASE Empty(Book(d)'[i])
      BY <2>3 DEF TrialOK, Empty
    <2>4. d # c => i \in DOMAIN Book(d) /\ Copies(Book(d)'[i], Book(d)[i])
      BY <1>2 DEF Copies
    <2>5. QED
      BY <2>1, <2>2, <2>3, <2>4 DEF Grows
  <1>5. TrialsOK'
    BY <1>4 DEF TrialsOK
  <1>6. ASSUME NEW d \in Campaigns, pc'[d] \in UncountedSteps PROVE Uncounted(Expected(d))'
    <2>1. ~t.started
      <3>1. CASE d = c
        BY <1>6, <3>1
      <3>2. CASE d # c
        <4>1. Working(d)
          BY <1>6, <3>2 DEF Others, Working, OutsideSteps, UncountedSteps, AttemptSteps
        <4>2. QED
          BY <3>2, <4>1 DEF TypeInv, Alone
      <3>3. QED
        BY <3>1, <3>2
    <2>2. PICK x : x = Expected(d)'
      OBVIOUS
    <2>3. Uncounted(x)
      <3>1. CASE d = c
        BY <1>6, <2>2, <3>1
      <3>2. CASE d # c
        <4>1. x = Expected(d) /\ pc[d] \in UncountedSteps
          BY <1>6, <2>2, <3>2 DEF Others, Expected, Attempt, Ordinal
        <4>2. QED
          BY <4>1 DEF BookInv, CountInv
      <3>3. QED
        BY <3>1, <3>2
    <2>4. ASSUME NEW e \in Campaigns, NEW i \in DOMAIN Book(e)', Book(e)'[i].started
          PROVE  Book(e)'[i].exp # x
      <3>1. i \in DOMAIN Book(e) /\ Book(e)[i].started /\ Book(e)'[i].exp = Book(e)[i].exp
        BY <1>4, <2>1, <2>4
      <3>2. QED
        BY <2>3, <3>1 DEF Uncounted
    <2>5. QED
      BY <2>2, <2>4 DEF Uncounted
  <1>7. ASSUME NEW d \in Campaigns, NEW e \in Campaigns,
               NEW i \in DOMAIN Book(d)', NEW j \in DOMAIN Book(e)',
               Book(d)'[i].started, Book(e)'[j].started, Book(d)'[i].exp = Book(e)'[j].exp
        PROVE  d = e /\ i = j
    <2>1. /\ \/ i \in DOMAIN Book(d) /\ Book(d)[i].started /\ Book(d)'[i].exp = Book(d)[i].exp
             \/ d = c /\ i = Ordinal(c) /\ t.started /\ Book(d)'[i].exp = t.exp
          /\ \/ j \in DOMAIN Book(e) /\ Book(e)[j].started /\ Book(e)'[j].exp = Book(e)[j].exp
             \/ e = c /\ j = Ordinal(c) /\ t.started /\ Book(e)'[j].exp = t.exp
      BY <1>4, <1>7
    <2>2. QED
      BY <1>1, <1>7, <2>1 DEF Uncounted, BookInv, CountInv
  <1>8. CountInv'
    BY <1>6, <1>7 DEF CountInv
  <1>9. ASSUME NEW d \in Campaigns PROVE WorldsOK(d)'
    BY DEF BookInv, WorldsOK, Others
  <1>10. QED
    BY <1>5, <1>8, <1>9 DEF BookInv

LEMMA ConcludesBook ==
    ASSUME CampaignInv, NEW c \in Campaigns, Concludes(c)
    PROVE  LaunchInv' /\ BookInv' /\ Others(c)
  <1>1. PICK t \in Trials :
            /\ Backed(c, t) /\ Conclude(c, t)
            /\ pc[c] \in AttemptSteps \cup {"attempt"}
            /\ UNCHANGED <<world, phase, rival, reference, prepared, tables, launchedBy, summaries>>
    BY DEF Concludes
  <1>2. TypeInv /\ LaunchInv /\ BookInv /\ Working(c)
    BY <1>1 DEF CampaignInv, Working, AttemptSteps, OutsideSteps
  <1>3. /\ pc'[c] \in {"attempt", "reconcile", "publish"}
        /\ Others(c) /\ Continues(c, t)
    BY <1>1, <1>2, ConcludeType
  <1>4. LaunchInv'
    <2>1. LaunchOK(c)'
      BY <1>3 DEF LaunchOK
    <2>2. QED
      BY <1>1, <1>2, <1>3, <2>1, LaunchKept
  <1>5. census'[c] = <<>> /\ Book(c) = evidence[c] /\ Book(c)' = evidence'[c]
    BY <1>1, <1>2, AttemptFacts DEF Book, tables
  <1>6. Grows(c, t)
    BY <1>3, <1>5 DEF Grows, Continues
  <1>7. WorldsOK(c)'
    <2>1. \A i \in DOMAIN evidence[c] :
              evidence[c][i].status = "SURVIVED" => evidence[c][i].exp.world = reference[c]
      BY <1>1, <1>2 DEF BookInv, WorldsOK, CensusSteps, AttemptSteps
    <2>2. t.status = "SURVIVED" => t.exp.world = reference[c]
      BY <1>1 DEF Backed
    <2>3. \A i \in DOMAIN evidence'[c] :
              evidence'[c][i].status = "SURVIVED" => evidence'[c][i].exp.world = reference[c]
      BY <1>3, <2>1, <2>2 DEF Continues, Copies, Empty
    <2>4. pc'[c] # "publish" => \A i \in DOMAIN evidence'[c] : ~Drifted(evidence'[c][i])
      <3>1. CASE pc'[c] # "publish"
        <4>1. ~Drifted(t) /\ evidence'[c] = Append(evidence[c], t)
          BY <1>1, <1>2, <3>1, ConcludeType
        <4>2. \A i \in DOMAIN evidence[c] : ~Drifted(evidence[c][i])
          BY <1>1, <1>2 DEF BookInv, WorldsOK, CensusSteps, AttemptSteps
        <4>3. evidence[c] \in Seq(Trials)
          BY <1>2 DEF TypeInv, TypeOK
        <4>4. \A i \in DOMAIN evidence'[c] :
                  \/ i \in DOMAIN evidence[c] /\ evidence'[c][i] = evidence[c][i]
                  \/ evidence'[c][i] = t
          BY <4>1, <4>3
        <4>5. QED
          BY <4>1, <4>2, <4>4
      <3>2. QED
        BY <3>1
    <2>5. QED
      BY <1>1, <1>5, <2>3, <2>4 DEF WorldsOK
  <1>8. Later
    BY <1>1, LaterKept
  <1>9. pc'[c] \notin UncountedSteps
    BY <1>3 DEF UncountedSteps, AttemptSteps
  <1>10. BookInv'
    BY <1>1, <1>2, <1>3, <1>6, <1>7, <1>8, <1>9, BookStep
  <1>11. QED
    BY <1>3, <1>4, <1>10

\* A step that adds no trial.
LEMMA BookKept ==
    ASSUME TypeInv, BookInv, NEW c \in Campaigns, Others(c), Later,
           \A i \in DOMAIN Book(c)' :
              \/ i \in DOMAIN Book(c) /\ Copies(Book(c)'[i], Book(c)[i])
              \/ Empty(Book(c)'[i]),
           WorldsOK(c)',
           pc'[c] \in UncountedSteps => \A x : x = Expected(c)' => Uncounted(x)
    PROVE  BookInv'
  <1>1. PICK reason \in Reasons : TRUE
    BY DEF Reasons
  <1>2. PICK t : t = Technical(FALSE, reason, None)
    OBVIOUS
  <1>3. Backed(c, t) /\ ~t.started
    BY <1>2, TechnicalBacked, TechnicalEmpty
  <1>4. Grows(c, t)
    BY DEF Grows
  <1>5. QED
    BY <1>3, <1>4, BookStep

\* A step of c that leaves the evidence and the census alone.
LEMMA BookSame ==
    ASSUME TypeInv, BookInv, NEW c \in Campaigns, Others(c), Later,
           evidence'[c] = evidence[c], census'[c] = census[c],
           pc'[c] \in CensusSteps =>
              \/ /\ pc[c] \in CensusSteps /\ reference'[c] = reference[c]
                 /\ pc[c] # "publish" \/ pc'[c] = "publish"
              \/ evidence[c] = <<>>,
           pc'[c] \in UncountedSteps =>
              \/ pc[c] \in UncountedSteps /\ reference'[c] = reference[c]
              \/ \A x : x = Expected(c)' => Uncounted(x)
    PROVE  BookInv'
  <1>1. Book(c)' = Book(c)
    BY DEF Book
  <1>2. \A i \in DOMAIN Book(c)' :
            i \in DOMAIN Book(c) /\ Copies(Book(c)'[i], Book(c)[i])
    BY <1>1 DEF Copies
  <1>3. WorldsOK(c)'
    BY DEF WorldsOK, BookInv
  <1>4. ASSUME pc'[c] \in UncountedSteps, NEW x, x = Expected(c)' PROVE Uncounted(x)
    <2>1. CASE pc[c] \in UncountedSteps /\ reference'[c] = reference[c]
      <3>1. x = Expected(c)
        BY <1>4, <2>1 DEF Expected, Attempt, Ordinal
      <3>2. QED
        BY <2>1, <3>1 DEF BookInv, CountInv
    <2>2. QED
      BY <1>4, <2>1
  <1>5. QED
    BY <1>2, <1>3, <1>4, BookKept

\* A step that ends the run of c.
LEMMA LeaveBook ==
    ASSUME CampaignInv, NEW c \in Campaigns, Leave(c), UNCHANGED <<phase, launchedBy, rival, tables>>
    PROVE  LaunchInv' /\ BookInv' /\ Others(c)
  <1>1. TypeInv /\ LaunchInv /\ BookInv
    BY DEF CampaignInv
  <1>2. Others(c) /\ evidence'[c] = <<>> /\ pc'[c] = "idle" /\ census'[c] = census[c]
    BY <1>1, LeaveType DEF tables
  <1>3. LaunchOK(c)'
    BY <1>2 DEF LaunchOK
  <1>4. LaunchInv'
    BY <1>1, <1>2, <1>3, LaunchKept
  <1>5. pc'[c] \notin CensusSteps \cup UncountedSteps
    BY <1>2 DEF CensusSteps, UncountedSteps, AttemptSteps
  <1>6. WorldsOK(c)'
    BY <1>1, <1>2, <1>5 DEF WorldsOK, BookInv
  <1>7. Book(c)' = IF census[c] # <<>> THEN Book(c) ELSE <<>>
    BY <1>2 DEF Book
  <1>8. \A i \in DOMAIN Book(c)' : i \in DOMAIN Book(c) /\ Copies(Book(c)'[i], Book(c)[i])
    BY <1>7 DEF Copies
  <1>9. Later
    BY LaterKept
  <1>10. BookInv'
    BY <1>1, <1>2, <1>5, <1>6, <1>8, <1>9, BookKept
  <1>11. QED
    BY <1>2, <1>4, <1>10

-----------------------------------------------------------------------------
(* The summaries                                                            *)

LEMMA CensusType ==
    ASSUME TypeInv, NEW c \in Campaigns
    PROVE  \A i \in DOMAIN census[c] : census[c][i].exp \in Experiments \cup {None}
  <1>1. census[c] \in Seq(Trials)
    BY DEF TypeInv, TypeOK
  <1>2. \A i \in DOMAIN census[c] : census[c][i] \in Trials
    BY <1>1, LenProperties, ElementOfSeq
  <1>3. QED
    BY <1>2 DEF Trials

AllSettled(c) ==
    \A i \in DOMAIN census[c] : census[c][i].exp # None => phase[census[c][i].exp] \in Settled

LEMMA ShownElsewhere ==
    ASSUME TypeInv, ShownInv, Later, NEW c \in Campaigns,
           summaries'[c] = summaries[c],
           summaries[c] = {} \/ (census'[c] = census[c] /\ preflights'[c] = preflights[c])
    PROVE  /\ \A shown \in summaries'[c] : shown = <<preflights'[c], census'[c]>>
           /\ summaries'[c] # {} => AllSettled(c)' /\ census'[c] # <<>> /\ preflights'[c] # None
  <1>1. CASE summaries[c] = {}
    BY <1>1
  <1>2. CASE summaries[c] # {} /\ census'[c] = census[c] /\ preflights'[c] = preflights[c]
    <2>1. PICK shown \in summaries[c] : TRUE
      BY <1>2
    <2>2. shown = <<preflights[c], census[c]>>
      BY DEF ShownInv, SummariesAgree
    <2>3. AllSettled(c)
      <3>1. \A i \in DOMAIN shown[2] : shown[2][i].exp # None => phase[shown[2][i].exp] \in Settled
        BY DEF ShownInv, SummariesAgree
      <3>2. shown[2] = census[c]
        BY <2>2
      <3>3. QED
        BY <3>1, <3>2 DEF AllSettled
    <2>4. AllSettled(c)'
      BY <1>2, <2>3, CensusType DEF AllSettled, Later
    <2>5. QED
      BY <1>2, <2>4 DEF ShownInv, SummariesAgree
  <1>3. QED
    BY <1>1, <1>2

LEMMA ShownMeans ==
    ASSUME \A c \in Campaigns :
              /\ \A shown \in summaries'[c] : shown = <<preflights'[c], census'[c]>>
              /\ summaries'[c] # {} => AllSettled(c)' /\ census'[c] # <<>> /\ preflights'[c] # None
    PROVE  ShownInv'
  <1>1. ASSUME NEW c \in Campaigns, NEW shown \in summaries'[c]
        PROVE  /\ shown = <<preflights'[c], census'[c]>>
               /\ \A i \in DOMAIN shown[2] :
                     shown[2][i].exp # None => phase'[shown[2][i].exp] \in Settled
    <2>1. shown = <<preflights'[c], census'[c]>> /\ shown[2] = census'[c] /\ AllSettled(c)'
      BY <1>1
    <2>2. QED
      BY <2>1 DEF AllSettled
  <1>2. SummariesAgree'
    BY <1>1 DEF SummariesAgree
  <1>3. QED
    BY <1>2 DEF ShownInv

LEMMA ShownKept ==
    ASSUME TypeInv, ShownInv, Later, UNCHANGED summaries, NEW c \in Campaigns, Others(c),
           summaries[c] = {} \/ (census'[c] = census[c] /\ preflights'[c] = preflights[c])
    PROVE  ShownInv'
  <1>1. ASSUME NEW d \in Campaigns
        PROVE  /\ \A shown \in summaries'[d] : shown = <<preflights'[d], census'[d]>>
               /\ summaries'[d] # {} => AllSettled(d)' /\ census'[d] # <<>> /\ preflights'[d] # None
    <2>1. summaries'[d] = summaries[d]
          /\ (summaries[d] = {} \/ (census'[d] = census[d] /\ preflights'[d] = preflights[d]))
      BY DEF Others
    <2>2. QED
      BY <2>1, ShownElsewhere
  <1>2. QED
    BY <1>1, ShownMeans

\* A summary is shown of a census that was validated.
LEMMA ShownNew ==
    ASSUME TypeInv, ShownInv, NEW c \in Campaigns, AllVerified(c), Summarise(c),
           UNCHANGED <<phase, tables, launchedBy>>,
           census[c] # <<>>, preflights[c] # None
    PROVE  ShownInv'
  <1>1. /\ summaries \in [Campaigns -> SUBSET ((Worlds \cup Verdicts \cup {None}) \X Seq(Trials))]
        /\ summaries' = [summaries EXCEPT ![c] = @ \cup {<<preflights[c], census[c]>>}]
    BY DEF TypeInv, TypeOK, Summarise
  <1>2. /\ summaries'[c] = summaries[c] \cup {<<preflights[c], census[c]>>}
        /\ \A d \in Campaigns \ {c} : summaries'[d] = summaries[d]
    BY <1>1
  <1>3. UNCHANGED <<phase, census, preflights>>
    BY DEF tables
  <1>4. Later
    BY LaterKept
  <1>5. AllSettled(c)'
    BY <1>3 DEF AllSettled, AllVerified, Verified
  <1>6. \A shown \in summaries[c] : shown = <<preflights[c], census[c]>>
    BY DEF ShownInv, SummariesAgree
  <1>7. ASSUME NEW d \in Campaigns
        PROVE  /\ \A shown \in summaries'[d] : shown = <<preflights'[d], census'[d]>>
               /\ summaries'[d] # {} => AllSettled(d)' /\ census'[d] # <<>> /\ preflights'[d] # None
    <2>1. CASE d = c
      BY <1>2, <1>3, <1>5, <1>6, <2>1
    <2>2. CASE d # c
      <3>1. summaries'[d] = summaries[d] /\ census'[d] = census[d] /\ preflights'[d] = preflights[d]
        BY <1>2, <1>3, <2>2
      <3>2. QED
        BY <1>4, <3>1, ShownElsewhere
    <2>3. QED
      BY <2>1, <2>2
  <1>8. QED
    BY <1>7, ShownMeans

-----------------------------------------------------------------------------
(* Every step keeps the invariant                                           *)

\* The steps that take an experiment on without concluding the attempt.
LEMMA AdvanceStep ==
    ASSUME CampaignInv, NEW c \in Campaigns,
           UNCHANGED <<world, phase, rival, launchedBy, reference, evidence, tables, summaries>>,
           \/ pc[c] = "idle" /\ Goto(c, "waiting") /\ UNCHANGED prepared
           \/ /\ pc[c] = "attempt" /\ Attempt(c) # Invalid
              /\ Goto(c, "lookup") /\ prepared' = [prepared EXCEPT ![c] = world]
           \/ /\ pc[c] = "lookup" /\ Frozen(c) /\ phase[Target(c)] = "absent"
              /\ Goto(c, "execute") /\ UNCHANGED prepared
           \/ /\ pc[c] = "execute"
              /\ Goto(c, "claim") /\ prepared' = [prepared EXCEPT ![c] = world]
           \/ /\ pc[c] = "claim" /\ Frozen(c) /\ phase[Target(c)] \in Settled
              /\ Goto(c, "reused") /\ UNCHANGED prepared
    PROVE  CampaignInv' /\ Later
  <1>1. TypeInv /\ LaunchInv /\ BookInv /\ ShownInv
    BY DEF CampaignInv
  <1>2. TypeInv' /\ Others(c)
    <2>1. /\ phase' \in [Experiments -> {"absent", "open"} \cup Settled]
          /\ launchedBy' \in [Experiments -> Campaigns \cup {"rival", None}]
      BY <1>1 DEF TypeInv, TypeOK
    <2>2. QED
      BY <1>1, <2>1, AdvanceType
  <1>3. Later
    BY LaterKept
  <1>4. /\ evidence'[c] = evidence[c] /\ reference'[c] = reference[c] /\ census'[c] = census[c]
        /\ Expected(c)' = Expected(c) /\ pc \in [Campaigns -> Steps]
    BY <1>1 DEF Expected, Attempt, Ordinal, tables, TypeInv, TypeOK
  <1>5. ShownInv'
    BY <1>1, <1>2, <1>3, ShownKept DEF tables
  <1>6. CASE pc[c] \in {"idle", "attempt"} /\ pc'[c] \in {"waiting", "lookup"}
             /\ (pc[c] = "idle" => pc'[c] = "waiting")
    <2>1. LaunchOK(c)'
      BY <1>6 DEF LaunchOK
    <2>2. LaunchInv'
      BY <1>1, <1>2, <2>1, LaunchKept
    <2>3. BookInv'
      BY <1>1, <1>2, <1>3, <1>4, <1>6, BookSame DEF CensusSteps, UncountedSteps, AttemptSteps
    <2>4. QED
      BY <1>2, <1>3, <1>5, <2>2, <2>3 DEF CampaignInv
  <1>7. CASE pc[c] = "lookup" /\ Frozen(c) /\ phase[Target(c)] = "absent" /\ pc'[c] = "execute"
             /\ UNCHANGED prepared
    <2>1. Target(c) = Expected(c) /\ Target(c) \in Experiments
      BY <1>1, <1>7, TargetType DEF Frozen, Target, Expected, AttemptSteps
    <2>2. launchedBy[Expected(c)] = None
      BY <1>1, <1>7, <2>1 DEF LaunchInv
    <2>3. LaunchOK(c)'
      BY <1>4, <1>7, <2>2 DEF LaunchOK
    <2>4. LaunchInv'
      BY <1>1, <1>2, <2>3, LaunchKept
    <2>5. Uncounted(Expected(c))
      <3>1. ASSUME NEW d \in Campaigns, NEW i \in DOMAIN Book(d), Book(d)[i].started
            PROVE  Book(d)[i].exp # Expected(c)
        <4>1. TrialOK(d, i, Book(d)[i])
          BY <1>1 DEF BookInv, TrialsOK
        <4>2. QED
          BY <1>7, <2>1, <3>1, <4>1 DEF TrialOK
      <3>2. QED
        BY <3>1 DEF Uncounted
    <2>6. \A x : x = Expected(c)' => Uncounted(x)
      BY <1>4, <2>5
    <2>7. BookInv'
      BY <1>1, <1>2, <1>3, <1>4, <1>7, <2>6, BookSame DEF CensusSteps, AttemptSteps
    <2>8. QED
      BY <1>2, <1>3, <1>5, <2>4, <2>7 DEF CampaignInv
  <1>8. CASE pc[c] = "execute" /\ pc'[c] = "claim"
    <2>1. LaunchOK(c)'
      BY <1>1, <1>4, <1>8 DEF LaunchOK, LaunchInv
    <2>2. LaunchInv'
      BY <1>1, <1>2, <2>1, LaunchKept
    <2>3. BookInv'
      BY <1>1, <1>2, <1>3, <1>4, <1>8, BookSame DEF CensusSteps, UncountedSteps, AttemptSteps
    <2>4. QED
      BY <1>2, <1>3, <1>5, <2>2, <2>3 DEF CampaignInv
  <1>9. CASE pc[c] = "claim" /\ Frozen(c) /\ phase[Target(c)] \in Settled /\ pc'[c] = "reused"
             /\ UNCHANGED prepared
    <2>1. Target(c) = Expected(c) /\ Target(c) \in Experiments /\ Target(c)' = Target(c)
      BY <1>1, <1>9, TargetType DEF Frozen, Target, Expected, AttemptSteps, Attempt, Ordinal
    <2>2. launchedBy[Target(c)] = "rival"
      BY <1>1, <1>9, <2>1 DEF LaunchInv, LaunchOK, Settled
    <2>3. LaunchOK(c)'
      BY <1>9, <2>1, <2>2 DEF LaunchOK
    <2>4. LaunchInv'
      BY <1>1, <1>2, <2>3, LaunchKept
    <2>5. BookInv'
      BY <1>1, <1>2, <1>3, <1>4, <1>9, BookSame DEF CensusSteps, UncountedSteps, AttemptSteps
    <2>6. QED
      BY <1>2, <1>3, <1>5, <2>4, <2>5 DEF CampaignInv
  <1>10. QED
    BY <1>4, <1>6, <1>7, <1>8, <1>9 DEF Goto

LEMMA ExecutionStep ==
    ASSUME CampaignInv, NEW c \in Campaigns,
           \/ /\ pc[c] = "claim" /\ Frozen(c) /\ Launch(c)
              /\ UNCHANGED <<world, rival, reference, prepared, tables, summaries>>
           \/ \E reason \in Settled : Settle(c, reason)
    PROVE  CampaignInv' /\ Later
  <1>1. TypeInv /\ LaunchInv /\ BookInv /\ ShownInv
    BY DEF CampaignInv
  <1>2. TypeInv' /\ Others(c) /\ LaunchInv' /\ Later
    BY LaunchStep, SettleStep
  <1>3. /\ pc[c] \in {"claim", "running"} /\ pc'[c] \in {"running", "returned"}
        /\ UNCHANGED <<evidence, reference, tables, summaries>>
    BY <1>1 DEF Launch, Settle, Goto, At, memory, TypeInv, TypeOK
  <1>4. evidence'[c] = evidence[c] /\ reference'[c] = reference[c] /\ census'[c] = census[c]
    BY <1>3 DEF tables
  <1>5. BookInv'
    BY <1>1, <1>2, <1>3, <1>4, BookSame DEF CensusSteps, UncountedSteps, AttemptSteps
  <1>6. ShownInv'
    BY <1>1, <1>2, <1>3, ShownKept DEF tables
  <1>7. QED
    BY <1>2, <1>5, <1>6 DEF CampaignInv

LEMMA ConcludesStep ==
    ASSUME CampaignInv, NEW c \in Campaigns, Concludes(c)
    PROVE  CampaignInv' /\ Later
  <1>1. TypeInv /\ ShownInv
    BY DEF CampaignInv
  <1>2. LaunchInv' /\ BookInv' /\ Others(c) /\ TypeInv'
    BY <1>1, ConcludesBook, ConcludesType
  <1>3. UNCHANGED <<phase, launchedBy, summaries, census, preflights>>
    BY DEF Concludes, tables
  <1>4. Later
    BY <1>3, LaterKept
  <1>5. ShownInv'
    BY <1>1, <1>2, <1>3, <1>4, ShownKept
  <1>6. QED
    BY <1>2, <1>4, <1>5 DEF CampaignInv

\* The preflight a campaign recorded stays, and it starts with an empty book.
LEMMA FreezeStep ==
    ASSUME CampaignInv, NEW c \in Campaigns, Freeze(c)
    PROVE  CampaignInv' /\ Later
  <1>1. TypeInv /\ LaunchInv /\ BookInv /\ ShownInv
    BY DEF CampaignInv
  <1>2. TypeInv' /\ Others(c) /\ UNCHANGED <<world, phase, rival, census, launchedBy, summaries>>
    BY <1>1, FreezeType
  <1>3. Later
    BY <1>2, LaterKept
  <1>4. evidence[c] = <<>>
    BY <1>1 DEF Freeze, At, TypeInv, LocalsOK, OutsideSteps
  <1>5. /\ pc'[c] \in {"restore", "attempt", "publish", "idle"}
        /\ preflights[c] # None => preflights'[c] = preflights[c]
        /\ \/ evidence'[c] = <<>>
           \/ \E reason \in Reasons : evidence'[c] = CohortFailed(c, <<>>, reason)
        /\ pc'[c] = "attempt" => evidence'[c] = <<>>
    <2>1. evidence \in [Campaigns -> Seq(Trials)] /\ pc \in [Campaigns -> Steps]
          /\ preflights \in [Campaigns -> Worlds \cup Verdicts \cup {None}]
      BY <1>1 DEF TypeInv, TypeOK
    <2>2. {"CAMPAIGN_PREFLIGHT_DRIFT", "PREFLIGHT_MISMATCH"} \subseteq Reasons
      BY DEF Reasons
    <2>3. pc'[c] \in {"restore", "attempt", "publish", "idle"}
      BY <2>1 DEF Freeze, Goto, Leave
    <2>4. preflights[c] # None => preflights'[c] = preflights[c]
      BY <2>1 DEF Freeze
    <2>5. \/ evidence'[c] = evidence[c] \/ evidence'[c] = <<>>
          \/ evidence'[c] = CohortFailed(c, <<>>, "CAMPAIGN_PREFLIGHT_DRIFT")
          \/ evidence'[c] = CohortFailed(c, <<>>, "PREFLIGHT_MISMATCH")
      BY <2>1 DEF Freeze, Leave
    <2>6. pc'[c] = "attempt" => evidence' = evidence
      BY <2>1 DEF Freeze, Goto, Leave
    <2>7. QED
      BY <1>4, <2>2, <2>3, <2>4, <2>5, <2>6
  <1>6. LaunchInv'
    <2>1. LaunchOK(c)'
      BY <1>5 DEF LaunchOK
    <2>2. QED
      BY <1>1, <1>2, <2>1, LaunchKept
  <1>7. \A i \in DOMAIN evidence'[c] : Empty(evidence'[c][i])
    <2>1. CASE evidence'[c] = <<>>
      BY <2>1
    <2>2. CASE \E reason \in Reasons : evidence'[c] = CohortFailed(c, <<>>, reason)
      <3>1. PICK reason \in Reasons : evidence'[c] = CohortFailed(c, <<>>, reason)
        BY <2>2
      <3>2. PICK none \in Seq(Trials) : none = <<>> /\ Len(none) = 0 /\ DOMAIN none = {}
        <4>1. <<>> \in Seq(Trials) /\ Len(<<>>) = 0
          BY EmptySeq
        <4>2. DOMAIN <<>> = {}
          OBVIOUS
        <4>3. QED
          BY <4>1, <4>2
      <3>3. Len(none) <= Len(Plan[c])
        BY <3>2, PlanType
      <3>4. /\ DOMAIN CohortFailed(c, none, reason) = 1 .. Len(Plan[c])
            /\ \A i \in 1 .. Len(Plan[c]) :
                  i \in DOMAIN none \/ Empty(CohortFailed(c, none, reason)[i])
        BY <3>3, CohortType
      <3>5. QED
        BY <3>1, <3>2, <3>4
    <2>3. QED
      BY <1>5, <2>1, <2>2
  <1>8. Book(c)' = IF census[c] # <<>> THEN Book(c) ELSE evidence'[c]
    BY <1>2 DEF Book
  <1>9. \A i \in DOMAIN Book(c)' :
            \/ i \in DOMAIN Book(c) /\ Copies(Book(c)'[i], Book(c)[i])
            \/ Empty(Book(c)'[i])
    BY <1>7, <1>8 DEF Copies
  <1>10. WorldsOK(c)'
    BY <1>1, <1>2, <1>5, <1>7 DEF WorldsOK, BookInv, Empty, CensusSteps, AttemptSteps
  <1>11. pc'[c] \notin UncountedSteps
    BY <1>5 DEF UncountedSteps, AttemptSteps
  <1>12. BookInv'
    BY <1>1, <1>2, <1>3, <1>9, <1>10, <1>11, BookKept
  <1>13. ShownInv'
    <2>1. summaries[c] = {} \/ (census'[c] = census[c] /\ preflights'[c] = preflights[c])
      BY <1>1, <1>2, <1>5 DEF ShownInv
    <2>2. QED
      BY <1>1, <1>2, <1>3, <2>1, ShownKept
  <1>14. QED
    BY <1>2, <1>3, <1>6, <1>12, <1>13 DEF CampaignInv

LEMMA ReconcileStep ==
    ASSUME CampaignInv, NEW c \in Campaigns, Reconcile(c)
    PROVE  CampaignInv' /\ Later
  <1>0. PICK reason \in Reasons : UNCHANGED evidence \/ FailCohort(c, reason)
    BY DEF Reconcile, Reasons
  <1> DEFINE old == evidence[c]
             cohort == CohortFailed(c, old, reason)
  <1>1. TypeInv /\ LaunchInv /\ BookInv /\ ShownInv
    BY DEF CampaignInv
  <1>2. /\ pc[c] = "reconcile" /\ pc'[c] = "publish" /\ Goto(c, "publish") /\ Working(c)
        /\ UNCHANGED <<world, phase, rival, reference, prepared, tables, launchedBy, summaries>>
    BY <1>1 DEF Reconcile, At, Goto, TypeInv, TypeOK, Working, OutsideSteps
  <1>3. /\ old \in Seq(Trials) /\ Len(old) = Len(Plan[c]) /\ DOMAIN old = 1 .. Len(Plan[c])
        /\ Len(old) <= Len(Plan[c]) /\ census[c] = <<>> /\ preflights[c] # None
    BY <1>1, <1>2, PlanType, LenProperties
       DEF TypeInv, TypeOK, LocalsOK, CensusSteps, Working, OutsideSteps
  <1>4. reason \in Reasons
    BY <1>0
  <1>5. /\ cohort \in Seq(Trials) /\ Len(cohort) = Len(Plan[c])
        /\ DOMAIN cohort = 1 .. Len(Plan[c])
        /\ \A i \in 1 .. Len(Plan[c]) :
              /\ cohort[i].status = "TECHNICAL_INVALID" /\ cohort[i].reason = reason
              /\ \/ /\ i \in DOMAIN old
                    /\ cohort[i].exp = old[i].exp /\ cohort[i].started = old[i].started
                 \/ i \notin DOMAIN old /\ Empty(cohort[i])
    BY <1>3, <1>4, CohortType
  <1> HIDE DEF cohort
  <1>6. \A i \in 1 .. Len(Plan[c]) : Copies(cohort[i], old[i])
    <2>1. \A i \in 1 .. Len(Plan[c]) : ~Drifted(old[i])
      BY <1>1, <1>2, <1>3 DEF BookInv, WorldsOK, CensusSteps
    <2>2. QED
      BY <1>3, <1>5, <2>1 DEF Copies
  <1>7. /\ evidence'[c] \in {old, cohort} /\ evidence' \in [Campaigns -> Seq(Trials)]
        /\ \A d \in Campaigns \ {c} : evidence'[d] = evidence[d]
    <2>1. evidence' = evidence \/ evidence' = [evidence EXCEPT ![c] = cohort]
      BY <1>0 DEF FailCohort, cohort
    <2>2. QED
      BY <1>1, <1>3, <1>5, <2>1 DEF TypeInv, TypeOK
  <1>8. Others(c)
    BY <1>1, <1>2, <1>7 DEF Others, Goto, tables, TypeInv, TypeOK
  <1>9. Len(evidence'[c]) = Len(Plan[c]) /\ DOMAIN evidence'[c] = 1 .. Len(Plan[c])
        /\ \A i \in 1 .. Len(Plan[c]) : Copies(evidence'[c][i], old[i])
    BY <1>3, <1>5, <1>6, <1>7 DEF Copies
  <1>10. TypeInv'
    <2>1. LocalsOK(c)'
      BY <1>2, <1>3, <1>9
         DEF LocalsOK, Working, OutsideSteps, CensusSteps, AttemptSteps, UncountedSteps, tables
    <2>2. Len(evidence'[c]) <= Len(Plan[c])
      BY <1>3, <1>9
    <2>3. TypeOK'
      BY <1>1, <1>2, <1>7, <2>2 DEF TypeInv, TypeOK, Goto, Steps, tables
    <2>4. QED
      BY <1>1, <1>2, <1>8, <2>1, <2>3, ElsewhereOK DEF TypeInv
  <1>11. LaunchInv'
    <2>1. LaunchOK(c)'
      BY <1>2 DEF LaunchOK
    <2>2. QED
      BY <1>1, <1>2, <1>8, <2>1, LaunchKept
  <1>12. Later
    BY <1>2, LaterKept
  <1>13. Book(c) = old /\ Book(c)' = evidence'[c]
    BY <1>2, <1>3 DEF Book, tables
  <1>14. WorldsOK(c)'
    <2>1. \A i \in DOMAIN old : old[i].status = "SURVIVED" => old[i].exp.world = reference[c]
      BY <1>1, <1>2 DEF BookInv, WorldsOK, CensusSteps
    <2>2. QED
      BY <1>2, <1>3, <1>9, <2>1 DEF WorldsOK, Copies, Drifted, tables
  <1>15. BookInv'
    BY <1>1, <1>2, <1>3, <1>8, <1>9, <1>12, <1>13, <1>14, BookKept
       DEF UncountedSteps, AttemptSteps
  <1>16. ShownInv'
    BY <1>1, <1>2, <1>8, <1>12, ShownKept DEF tables
  <1>17. QED
    BY <1>10, <1>11, <1>12, <1>15, <1>16 DEF CampaignInv

\* The evidence becomes the census.
LEMMA StoreStep ==
    ASSUME CampaignInv, NEW c \in Campaigns, pc[c] = "publish",
           census' = [census EXCEPT ![c] = evidence[c]], Goto(c, "validate"),
           UNCHANGED <<world, phase, rival, memory, preflights, launchedBy, summaries>>
    PROVE  CampaignInv' /\ Later
  <1>1. TypeInv /\ LaunchInv /\ BookInv /\ ShownInv
    BY DEF CampaignInv
  <1>2. /\ evidence[c] \in Seq(Trials) /\ Len(evidence[c]) = Len(Plan[c])
        /\ evidence[c] # <<>> /\ census[c] = <<>> /\ preflights[c] # None /\ Working(c)
    <2>1. /\ evidence[c] \in Seq(Trials) /\ Len(evidence[c]) = Len(Plan[c])
          /\ census[c] = <<>> /\ preflights[c] # None /\ Working(c)
      BY <1>1 DEF TypeInv, TypeOK, LocalsOK, CensusSteps, Working, OutsideSteps
    <2>2. Len(Plan[c]) > 0 /\ Len(<<>>) = 0
      BY PlanType, EmptySeq
    <2>3. QED
      BY <2>1, <2>2
  <1>3. /\ census'[c] = evidence[c] /\ pc'[c] = "validate" /\ evidence'[c] = evidence[c]
        /\ preflights'[c] = preflights[c]
        /\ Others(c)
    BY <1>1 DEF TypeInv, TypeOK, Goto, Others, memory
  <1>4. TypeInv'
    <2>1. LocalsOK(c)'
      BY <1>2, <1>3
         DEF LocalsOK, Working, OutsideSteps, CensusSteps, AttemptSteps, UncountedSteps
    <2>2. Len(census'[c]) = Len(Plan[c]) /\ census'[c] \in Seq(Trials)
      BY <1>2, <1>3
    <2>3. TypeOK'
      BY <1>1, <1>2, <1>3, <2>2 DEF TypeInv, TypeOK, Goto, Steps, memory, Others
    <2>4. QED
      BY <1>1, <1>2, <1>3, <2>1, <2>3, ElsewhereOK DEF TypeInv
  <1>5. LaunchInv'
    <2>1. LaunchOK(c)'
      BY <1>3 DEF LaunchOK
    <2>2. QED
      BY <1>1, <1>3, <2>1, LaunchKept
  <1>6. Later
    BY LaterKept
  <1>7. Book(c)' = Book(c) /\ Book(c) = evidence[c]
    BY <1>2, <1>3 DEF Book
  <1>8. WorldsOK(c)'
    BY <1>1, <1>3 DEF BookInv, WorldsOK, CensusSteps, AttemptSteps
  <1>9. BookInv'
    <2>1. pc'[c] \notin UncountedSteps
      BY <1>3 DEF UncountedSteps, AttemptSteps
    <2>2. \A i \in DOMAIN Book(c)' : i \in DOMAIN Book(c) /\ Copies(Book(c)'[i], Book(c)[i])
      BY <1>7 DEF Copies
    <2>3. QED
      BY <1>1, <1>3, <1>6, <1>8, <2>1, <2>2, BookKept
  <1>10. ShownInv'
    <2>1. summaries[c] = {}
      BY <1>1, <1>2 DEF ShownInv
    <2>2. QED
      BY <1>1, <1>3, <1>6, <2>1, ShownKept
  <1>11. QED
    BY <1>4, <1>5, <1>6, <1>9, <1>10 DEF CampaignInv

\* The end of a run, with its summary or without one.
LEMMA LeaveStep ==
    ASSUME CampaignInv, NEW c \in Campaigns, Leave(c),
           UNCHANGED <<world, phase, rival, tables, launchedBy>>,
           \/ UNCHANGED summaries
           \/ pc[c] \in {"validate", "restore"} /\ AllVerified(c) /\ Summarise(c)
    PROVE  CampaignInv' /\ Later
  <1>1. TypeInv /\ LaunchInv /\ BookInv /\ ShownInv
    BY DEF CampaignInv
  <1>2. LaunchInv' /\ BookInv' /\ Others(c)
    BY LeaveBook
  <1>3. Later
    BY LaterKept
  <1>4. pc[c] \in {"validate", "restore"} => census[c] # <<>> /\ preflights[c] # None
    BY <1>1 DEF TypeInv, LocalsOK, Working, OutsideSteps
  <1>5. TypeInv'
    <2>1. /\ Alone' /\ \A d \in Campaigns : LocalsOK(d)'
          /\ pc' \in [Campaigns -> Steps]
          /\ reference' \in [Campaigns -> Worlds \cup {None}]
          /\ prepared' \in [Campaigns -> Worlds \cup {None}]
          /\ evidence' \in [Campaigns -> Seq(Trials)]
          /\ \A d \in Campaigns : Len(evidence'[d]) <= Len(Plan[d])
      BY <1>1, LeaveType
    <2>2. summaries' \in [Campaigns -> SUBSET ((Worlds \cup Verdicts \cup {None}) \X Seq(Trials))]
      <3>1. /\ summaries \in [Campaigns -> SUBSET ((Worlds \cup Verdicts \cup {None}) \X Seq(Trials))]
            /\ <<preflights[c], census[c]>> \in (Worlds \cup Verdicts \cup {None}) \X Seq(Trials)
        BY <1>1 DEF TypeInv, TypeOK
      <3>2. QED
        BY <3>1 DEF Summarise
    <2>3. QED
      BY <1>1, <2>1, <2>2 DEF TypeInv, TypeOK, tables
  <1>6. ShownInv'
    <2>1. CASE UNCHANGED summaries
      BY <1>1, <1>2, <1>3, <2>1, ShownKept DEF tables
    <2>2. CASE pc[c] \in {"validate", "restore"} /\ AllVerified(c) /\ Summarise(c)
      BY <1>1, <1>4, <2>2, ShownNew
    <2>3. QED
      BY <2>1, <2>2
  <1>7. QED
    BY <1>2, <1>3, <1>5, <1>6 DEF CampaignInv

\* A step no campaign takes.
LEMMA ElsewhereStep ==
    ASSUME CampaignInv, UNCHANGED <<pc, memory, tables, summaries>>, Later, TypeOK', LaunchInv'
    PROVE  CampaignInv' /\ Later
  <1>1. TypeInv /\ LaunchInv /\ BookInv /\ ShownInv
    BY DEF CampaignInv
  <1>2. \A c \in Campaigns : Others(c)
    BY DEF Others, memory, tables
  <1>3. TypeInv'
    <2>1. \A c \in Campaigns : LocalsOK(c)'
      BY <1>1 DEF TypeInv, LocalsOK, Working, Attempt, Ordinal, memory, tables
    <2>2. Alone'
      BY <1>1 DEF TypeInv, Alone, Working
    <2>3. QED
      BY <2>1, <2>2 DEF TypeInv
  <1>4. CASE Campaigns = {}
    BY <1>3, <1>4 DEF CampaignInv, BookInv, TrialsOK, CountInv, ShownInv, SummariesAgree
  <1>5. CASE Campaigns # {}
    <2>1. PICK c \in Campaigns : TRUE
      BY <1>5
    <2>2. BookInv'
      BY <1>1, <1>2, BookSame DEF memory, tables
    <2>3. ShownInv'
      BY <1>1, <1>2, <2>1, ShownKept DEF memory, tables
    <2>4. QED
      BY <1>3, <2>2, <2>3 DEF CampaignInv
  <1>6. QED
    BY <1>4, <1>5

LEMMA RivalLaunchStep ==
    ASSUME CampaignInv, NEW s \in Strategies, RivalLaunch(s)
    PROVE  CampaignInv' /\ Later
  <1> DEFINE x == [strategy |-> s, world |-> world]
  <1>1. TypeInv /\ LaunchInv
    BY DEF CampaignInv
  <1>2. /\ phase \in [Experiments -> {"absent", "open"} \cup Settled]
        /\ launchedBy \in [Experiments -> Campaigns \cup {"rival", None}]
        /\ world \in Worlds /\ rival \in Experiments \cup {None}
    BY <1>1 DEF TypeInv, TypeOK
  <1>3. x \in Experiments
    BY <1>2 DEF Experiments
  <1>4. /\ phase[x] = "absent" /\ rival' = x /\ rival = None
        /\ phase' = [phase EXCEPT ![x] = "open"]
        /\ launchedBy' = [launchedBy EXCEPT ![x] = "rival"]
        /\ UNCHANGED <<world, pc, memory, tables, summaries>>
    BY DEF RivalLaunch
  <1> HIDE DEF x
  <1>5. launchedBy[x] = None
    BY <1>1, <1>3, <1>4 DEF LaunchInv
  <1>6. /\ phase'[x] = "open" /\ launchedBy'[x] = "rival"
        /\ \A y \in Experiments \ {x} : phase'[y] = phase[y] /\ launchedBy'[y] = launchedBy[y]
    BY <1>2, <1>3, <1>4
  <1>7. Later
    BY <1>4, <1>5, <1>6 DEF Later, Settled
  <1>8. TypeOK'
    BY <1>1, <1>2, <1>3, <1>4 DEF TypeInv, TypeOK, memory, tables
  <1>9. ASSUME NEW c \in Campaigns PROVE LaunchOK(c)'
    <2>1. LaunchOK(c)
      BY <1>1 DEF LaunchInv
    <2>2. /\ Target(c)' = Target(c) /\ Expected(c)' = Expected(c) /\ pc'[c] = pc[c]
      BY <1>4 DEF memory, Target, Expected, Attempt, Ordinal
    <2>3. pc[c] \in AttemptSteps => Target(c) \in Experiments
      BY <1>1, TargetType
    <2>4. pc[c] \in {"execute", "claim"} => Expected(c) \in Experiments
      BY <1>1, TargetType, CampaignAssumption
         DEF TypeInv, LocalsOK, UncountedSteps, AttemptSteps, Expected, Experiments
    <2>5. c # None /\ c # "rival" /\ "rival" # None
      BY CampaignAssumption
    <2>6. QED
      BY <1>4, <1>5, <1>6, <2>1, <2>2, <2>3, <2>4, <2>5 DEF LaunchOK, AttemptSteps, Settled
  <1>10. LaunchInv'
    <2>1. \A y \in Experiments : phase'[y] = "absent" <=> launchedBy'[y] = None
      BY <1>1, <1>6, CampaignAssumption DEF LaunchInv
    <2>2. QED
      BY <1>4, <1>6, <1>9, <2>1 DEF LaunchInv
  <1>11. QED
    BY <1>4, <1>7, <1>8, <1>10, ElsewhereStep

LEMMA RivalSettleStep ==
    ASSUME CampaignInv, NEW reason \in Settled, RivalSettle(reason)
    PROVE  CampaignInv' /\ Later
  <1>1. TypeInv /\ LaunchInv
    BY DEF CampaignInv
  <1>2. /\ phase \in [Experiments -> {"absent", "open"} \cup Settled]
        /\ rival \in Experiments /\ rival # None
        /\ phase[rival] = "open" /\ launchedBy[rival] = "rival"
        /\ phase' = [phase EXCEPT ![rival] = reason] /\ rival' = None
        /\ UNCHANGED <<world, pc, memory, tables, launchedBy, summaries>>
    BY <1>1 DEF TypeInv, TypeOK, LaunchInv, RivalSettle
  <1>3. reason # "absent"
    BY DEF Settled
  <1>4. phase'[rival] = reason /\ \A y \in Experiments \ {rival} : phase'[y] = phase[y]
    BY <1>2
  <1>5. Later
    BY <1>2, <1>3, <1>4 DEF Later, Settled
  <1>6. TypeOK'
    BY <1>1, <1>2 DEF TypeInv, TypeOK, memory, tables
  <1>7. ASSUME NEW c \in Campaigns PROVE LaunchOK(c)'
    <2>1. LaunchOK(c)
      BY <1>1 DEF LaunchInv
    <2>2. /\ Target(c)' = Target(c) /\ Expected(c)' = Expected(c) /\ pc'[c] = pc[c]
      BY <1>2 DEF memory, Target, Expected, Attempt, Ordinal
    <2>3. pc[c] \in AttemptSteps => Target(c) \in Experiments
      BY <1>1, TargetType
    <2>4. c # "rival"
      BY CampaignAssumption
    <2>5. QED
      BY <1>2, <1>4, <2>1, <2>2, <2>3, <2>4 DEF LaunchOK, AttemptSteps, Settled
  <1>8. LaunchInv'
    <2>1. \A y \in Experiments : phase'[y] = "absent" <=> launchedBy'[y] = None
      BY <1>1, <1>2, <1>3, <1>4, CampaignAssumption DEF LaunchInv
    <2>2. QED
      BY <1>2, <1>7, <2>1 DEF LaunchInv
  <1>9. QED
    BY <1>2, <1>5, <1>6, <1>8, ElsewhereStep

\* The rival dies, the world drifts or nothing happens.
LEMMA IdleStep ==
    ASSUME CampaignInv, UNCHANGED <<phase, pc, memory, tables, launchedBy, summaries>>,
           world' \in Worlds, rival' \in {rival, None}
    PROVE  CampaignInv' /\ Later
  <1>1. TypeInv /\ LaunchInv
    BY DEF CampaignInv
  <1>2. Later
    BY LaterKept
  <1>3. TypeOK'
    BY <1>1 DEF TypeInv, TypeOK, memory, tables
  <1>4. ASSUME NEW c \in Campaigns PROVE LaunchOK(c)'
    BY <1>1 DEF LaunchInv, LaunchOK, Target, Expected, Attempt, Ordinal, memory
  <1>5. LaunchInv'
    BY <1>1, <1>4 DEF LaunchInv
  <1>6. QED
    BY <1>2, <1>3, <1>5, ElsewhereStep

LEMMA CampaignInit == Init => CampaignInv
  <1> SUFFICES ASSUME Init PROVE CampaignInv
    OBVIOUS
  <1>1. TypeInv
    BY TypeInit
  <1>2. LaunchInv
    BY DEF Init, LaunchInv, LaunchOK
  <1>3. \A c \in Campaigns : Book(c) = <<>> /\ evidence[c] = <<>> /\ census[c] = <<>>
    BY DEF Init, Book
  <1>4. BookInv
    BY <1>3 DEF Init, BookInv, TrialsOK, CountInv, WorldsOK, UncountedSteps, AttemptSteps
  <1>5. ShownInv
    BY DEF Init, ShownInv, SummariesAgree
  <1>6. QED
    BY <1>1, <1>2, <1>4, <1>5 DEF CampaignInv

LEMMA CampaignStep == CampaignInv /\ [Next]_vars => CampaignInv' /\ Later
  <1> SUFFICES ASSUME CampaignInv, [Next]_vars
               PROVE  CampaignInv' /\ Later
    OBVIOUS
  <1>1. world \in Worlds
    BY DEF CampaignInv, TypeInv, TypeOK
  <1>2. ASSUME NEW c \in Campaigns, Start(c) PROVE CampaignInv' /\ Later
    BY <1>2, AdvanceStep DEF Start, At, memory
  <1>3. ASSUME NEW c \in Campaigns, Proceed(c) PROVE CampaignInv' /\ Later
    <2>1. CASE Freeze(c)
      BY <2>1, FreezeStep
    <2>2. CASE RejectInvalid(c)
      BY <2>2, RejectConcludes, ConcludesStep
    <2>3. CASE SuppressDuplicate(c)
      BY <2>3, SuppressConcludes, ConcludesStep
    <2>4. CASE PrepareLookup(c)
      BY <2>4, AdvanceStep DEF PrepareLookup, At
    <2>5. CASE Lookup(c)
      <3>1. CASE Concludes(c)
        BY <3>1, ConcludesStep
      <3>2. CASE Frozen(c) /\ phase[Target(c)] = "absent" /\ Goto(c, "execute") /\ UNCHANGED evidence
        BY <2>5, <3>2, AdvanceStep DEF Lookup, At
      <3>3. QED
        BY <2>5, <3>1, <3>2, LookupConcludes
    <2>6. CASE PrepareExecution(c)
      BY <2>6, AdvanceStep DEF PrepareExecution, At
    <2>7. CASE Claim(c)
      <3>1. pc[c] = "claim" /\ UNCHANGED <<world, rival, reference, prepared, tables, summaries>>
        BY <2>7 DEF Claim, At
      <3>2. CASE Concludes(c)
        BY <3>2, ConcludesStep
      <3>3. CASE Frozen(c) /\ Launch(c)
        BY <3>1, <3>3, ExecutionStep
      <3>4. CASE /\ Frozen(c) /\ phase[Target(c)] \in Settled
                 /\ Goto(c, "reused") /\ UNCHANGED <<evidence, phase, launchedBy>>
        BY <3>1, <3>4, AdvanceStep
      <3>5. QED
        BY <2>7, <3>2, <3>3, <3>4, ClaimConcludes
    <2>8. CASE \E reason \in Settled : Settle(c, reason)
      BY <2>8, ExecutionStep
    <2>9. CASE Return(c)
      BY <2>9, ReturnConcludes, ConcludesStep
    <2>10. CASE Reconcile(c)
      BY <2>10, ReconcileStep
    <2>11. CASE Publish(c)
      <3>1. CASE census' = [census EXCEPT ![c] = evidence[c]] /\ Goto(c, "validate") /\ UNCHANGED memory
        BY <2>11, <3>1, StoreStep DEF Publish, At
      <3>2. CASE Leave(c) /\ UNCHANGED census
        BY <2>11, <3>2, LeaveStep DEF Publish, tables
      <3>3. QED
        BY <2>11, <3>1, <3>2 DEF Publish
    <2>12. CASE Validate(c)
      BY <2>12, LeaveStep DEF Validate, At
    <2>13. CASE Restore(c)
      BY <2>13, LeaveStep DEF Restore, At
    <2>14. QED
      BY <1>3, <2>1, <2>2, <2>3, <2>4, <2>5, <2>6, <2>7, <2>8, <2>9, <2>10, <2>11, <2>12, <2>13
         DEF Proceed
  <1>4. ASSUME NEW c \in Campaigns, Fault(c) PROVE CampaignInv' /\ Later
    BY <1>4, FaultConcludes, ConcludesStep
  <1>5. ASSUME NEW c \in Campaigns, Die(c) PROVE CampaignInv' /\ Later
    BY <1>5, LeaveStep DEF Die
  <1>6. CASE RivalDie
    BY <1>1, <1>6, IdleStep DEF RivalDie
  <1>7. ASSUME NEW w \in Worlds, Drift(w) PROVE CampaignInv' /\ Later
    BY <1>7, IdleStep DEF Drift
  <1>8. CASE UNCHANGED vars
    BY <1>1, <1>8, IdleStep DEF vars, memory, tables
  <1>9. QED
    BY <1>2, <1>3, <1>4, <1>5, <1>6, <1>7, <1>8, RivalLaunchStep, RivalSettleStep DEF Next

LEMMA CampaignInvariant == Spec => []CampaignInv
  <1>1. CampaignInv /\ [Next]_vars => CampaignInv'
    BY CampaignStep
  <1>2. QED
    BY <1>1, CampaignInit, PTL DEF Spec

-----------------------------------------------------------------------------
(* The theorems                                                             *)

\* The variables of run_strategy_campaign, of the two campaign tables and of the history
\* keep their types, however campaigns, rivals, faults, deaths and drifts interleave.
THEOREM TypeCorrect == Spec => []TypeOK
  <1>1. CampaignInv => TypeOK
    BY DEF CampaignInv, TypeInv
  <1>2. QED
    BY <1>1, CampaignInvariant, PTL

\* No two stored trials, of one campaign or of several, count the same execution as
\* started, so that the sum of executed_count is a count of executions.
THEOREM StartsCountedOnce == Spec => []CountedOnce
  <1>1. ASSUME CampaignInv PROVE CountedOnce
    <2>1. \A c \in Campaigns : \A i \in DOMAIN census[c] :
              i \in DOMAIN Book(c) /\ Book(c)[i] = census[c][i]
      BY DEF Book
    <2>2. QED
      BY <1>1, <2>1 DEF CountedOnce, CampaignInv, BookInv, CountInv
  <1>2. QED
    BY <1>1, CampaignInvariant, PTL

\* A survivor in a census was settled so, for the strategy of its attempt, in the one
\* approved world all the survivors of that census share.
THEOREM SurvivorsHold == Spec => []SurvivorsBacked
  <1>1. ASSUME CampaignInv PROVE SurvivorsBacked
    <2>1. \A c \in Campaigns : \A i \in DOMAIN census[c] : TrialOK(c, i, census[c][i])
      BY <1>1 DEF CampaignInv, BookInv, TrialsOK, Book
    <2>2. \A c \in Campaigns : WorldsOK(c)
      BY <1>1 DEF CampaignInv, BookInv
    <2>3. QED
      BY <2>1, <2>2 DEF SurvivorsBacked, TrialOK, WorldsOK
  <1>2. QED
    BY <1>1, CampaignInvariant, PTL

\* A stored trial that says it started an execution belongs to the campaign that launched
\* it, or to a drifted campaign that met the execution of a standalone loop.
THEOREM StartersLaunched == Spec => []StartedMeansLaunched
  <1>1. ASSUME CampaignInv PROVE StartedMeansLaunched
    <2>1. \A c \in Campaigns : \A i \in DOMAIN census[c] : TrialOK(c, i, census[c][i])
      BY <1>1 DEF CampaignInv, BookInv, TrialsOK, Book
    <2>2. QED
      BY <2>1 DEF StartedMeansLaunched, TrialOK
  <1>2. QED
    BY <1>1, CampaignInvariant, PTL

\* Whatever summary a run returned is the summary of the census and the preflight the
\* ledger still keeps, and every experiment in it was settled.
THEOREM SummariesHold == Spec => []SummariesAgree
  <1>1. CampaignInv => SummariesAgree
    BY DEF CampaignInv, ShownInv
  <1>2. QED
    BY <1>1, CampaignInvariant, PTL

\* An experiment that was launched, by a campaign or by a rival, is never launched again.
THEOREM NoRelaunch == Spec => LaunchedOnce
  <1>1. CampaignInv /\ [Next]_vars
            => [\A x \in Experiments : launchedBy[x] # None => launchedBy'[x] = launchedBy[x]]_vars
    BY CampaignStep DEF Later
  <1>2. QED
    BY <1>1, CampaignInvariant, PTL DEF Spec, LaunchedOnce
===============================================================================
