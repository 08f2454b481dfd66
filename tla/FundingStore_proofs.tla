-------------------------- MODULE FundingStore_proofs --------------------------
(***************************************************************************)
(* Proofs about FundingStore for every number of writers and readers, every*)
(* row alphabet and every bound.  The inductive invariant says that who    *)
(* works holds the lock, that a sync still starts from the ready           *)
(* generation, and that what a writer is about to publish is valid, and an *)
(* extension when it must be.  It survives a power loss; that the pointer  *)
(* has its generation does too unless a writer may die alone.              *)
(***************************************************************************)
EXTENDS FundingStore, WellFoundedInduction, TLAPS

WithLock == {"load", "fetch", "expose", "fsync", "point", "durable"}
Staged   == {"expose", "fsync", "point"}

TypeInv ==
    /\ disk \subseteq Generations /\ safeDisk \subseteq Generations
    /\ pointer \in Generations \cup {None} /\ safePointer \in Generations \cup {None}
    /\ lock \in Writers \cup {None}
    /\ pc \in [Writers -> WithLock \cup {"idle"}]
    /\ command \in [Writers -> Commands \cup {None}]
    /\ base \in [Writers -> Generations \cup {None}]
    /\ staged \in [Writers -> Generations \cup {None}]
    /\ held \in [Readers -> Generations \cup {None}]

\* Exactly the holder of the lock is at work, and it has a command.
LockOK ==
    /\ \A w \in Writers : pc[w] # "idle" => lock = w /\ command[w] \in Commands
    /\ lock # None => pc[lock] # "idle"

\* A sync that fetches started from what is ready now.
BaseOK(w) ==
    /\ pc[w] \in {"idle", "load"} => base[w] = None
    /\ pc[w] = "load" => command[w].kind = "sync"
    /\ pc[w] = "fetch" =>
          /\ command[w].kind = "sync" => base[w] # None
          /\ base[w] # None => base[w] = pointer /\ base[w].end < command[w].end

\* What is staged may be published.
StagedOK(w) ==
    /\ pc[w] \in Staged =>
          /\ staged[w] \in Generations
          /\ command[w].kind = "sync" => pointer # None /\ Extends(pointer, staged[w])
    /\ pc[w] \in {"fsync", "point"} => staged[w] \in disk

WorkInv == LockOK /\ \A w \in Writers : BaseOK(w) /\ StagedOK(w)

Inv == TypeInv /\ WorkInv

-----------------------------------------------------------------------------
\* Merging a page into rows keeps every row, and the merged rows of an accepted page
\* are a generation that reaches to the boundary.
LEMMA MergedGeneration ==
    ASSUME NEW old, NEW from, NEW end \in Boundaries, NEW page \in Pages(from, end),
           old = <<>> \/ old \in Pages(0, MaxEnd),
           Accepted(old, page, end)
    PROVE  /\ [end |-> end, rows |-> Merge(old, page)] \in Generations
           /\ \A s \in DOMAIN old : s \in DOMAIN Merge(old, page) /\ Merge(old, page)[s] = old[s]
<1> DEFINE rows == Merge(old, page)
<1>1. DOMAIN rows = DOMAIN old \cup DOMAIN page
  BY DEF Merge
<1>2. \A s \in DOMAIN old : s \in DOMAIN rows /\ rows[s] = old[s]
  BY <1>1 DEF Merge
<1>3. PICK S \in SUBSET Slots(from, end) : page \in [S -> Rows]
  BY DEF Pages
<1>4. S \subseteq Slots(0, MaxEnd)
  BY FundingAssumption DEF Slots, Boundaries
<1>5. PICK T \in SUBSET Slots(0, MaxEnd) : DOMAIN old = T /\ \A s \in T : old[s] \in Rows
  <2>1. CASE old = <<>>
    BY <2>1
  <2>2. CASE old \in Pages(0, MaxEnd)
    <3>1. PICK T \in SUBSET Slots(0, MaxEnd) : old \in [T -> Rows]
      BY <2>2 DEF Pages
    <3> QED BY <3>1
  <2> QED BY <2>1, <2>2
<1>6. rows \in [S \cup T -> Rows]
  BY <1>3, <1>5 DEF Merge
<1>7. rows \in Pages(0, MaxEnd)
  BY <1>4, <1>5, <1>6 DEF Pages
<1>8. Covers(rows, end)
  BY DEF Accepted
<1>9. [end |-> end, rows |-> rows] \in Generations
  BY <1>7, <1>8 DEF Generations
<1> QED BY <1>2, <1>9

\* A generation is made of a boundary and a page.
LEMMA GenerationShape ==
    ASSUME NEW g \in Generations
    PROVE  g.end \in Boundaries /\ g.rows \in Pages(0, MaxEnd)
  BY DEF Generations

-----------------------------------------------------------------------------
LEMMA InitInv == Init => Inv
  BY FundingAssumption DEF Init, Inv, TypeInv, WorkInv, LockOK, BaseOK, StagedOK,
     WithLock, Staged

\* A writer that ends, leaving the files alone, preserves the invariant.
LEMMA LeaveInv ==
    ASSUME Inv, NEW w \in Writers, lock = w, Leave(w), UNCHANGED <<files, held>>
    PROVE  Inv'
<1> USE DEF Inv
<1>1. TypeInv'
  BY DEF Leave, Goto, TypeInv, files, WithLock
<1>2. \A u \in Writers : pc'[u] = "idle"
  BY DEF WorkInv, LockOK, Leave, Goto, TypeInv
<1>3. lock' = None
  BY DEF Leave
<1>4. \A u \in Writers : base'[u] = None
  BY DEF WorkInv, LockOK, BaseOK, Leave, TypeInv
<1>5. WorkInv'
  BY <1>2, <1>3, <1>4 DEF WorkInv, LockOK, BaseOK, StagedOK, Staged
<1> QED BY <1>1, <1>5

\* While w is at work nobody else is, so what w does disturbs no other writer.
LEMMA StepInv ==
    ASSUME Inv, NEW w \in Writers, lock' = w, TypeInv',
           lock = w \/ lock = None,
           \A u \in Writers \ {w} : pc'[u] = pc[u] /\ base'[u] = base[u],
           pc'[w] # "idle", command'[w] \in Commands,
           BaseOK(w)', StagedOK(w)'
    PROVE  Inv'
<1>1. \A u \in Writers \ {w} : pc'[u] = "idle" /\ base'[u] = None
  BY FundingAssumption DEF Inv, WorkInv, LockOK, BaseOK
<1>2. LockOK'
  BY <1>1 DEF LockOK
<1>3. \A u \in Writers : BaseOK(u)' /\ StagedOK(u)'
  <2> SUFFICES ASSUME NEW u \in Writers \ {w}
               PROVE  BaseOK(u)' /\ StagedOK(u)'
    OBVIOUS
  <2> QED BY <1>1 DEF BaseOK, StagedOK, Staged
<1> QED BY <1>2, <1>3 DEF Inv, WorkInv

\* Whoever is not idle holds the lock.
LEMMA HoldsLock ==
    ASSUME Inv, NEW w \in Writers, pc[w] # "idle"
    PROVE  lock = w /\ command[w] \in Commands
  BY DEF Inv, WorkInv, LockOK

LEMMA BeginInv ==
    ASSUME Inv, NEW w \in Writers, NEW c \in Commands, Begin(w, c)
    PROVE  Inv'
<1>1. lock = None /\ lock' = w /\ command'[w] = c /\ base' = base
  BY DEF Begin, FreeLock, Inv, TypeInv
<1>2. TypeInv'
  BY DEF Begin, Goto, Inv, TypeInv, WithLock, files
<1>4. pc'[w] = IF c.kind = "sync" THEN "load" ELSE "fetch"
  BY DEF Begin, Goto, Inv, TypeInv
<1>5. base[w] = None /\ base'[w] = None
  BY <1>1 DEF Begin, At, Inv, WorkInv, BaseOK
<1>6. BaseOK(w)' /\ StagedOK(w)'
  BY <1>1, <1>4, <1>5 DEF BaseOK, StagedOK, Staged
<1>7. \A u \in Writers \ {w} : pc'[u] = pc[u] /\ base'[u] = base[u]
  <2>1. pc \in [Writers -> WithLock \cup {"idle"}]
    BY DEF Inv, TypeInv
  <2>2. \A u \in Writers \ {w} : pc'[u] = pc[u]
    BY <2>1 DEF Begin, Goto
  <2> QED BY <1>1, <2>2
<1>8. pc'[w] # "idle" /\ command'[w] \in Commands
  BY <1>1, <1>4
<1> QED BY <1>1, <1>2, <1>6, <1>7, <1>8, StepInv

\* A step of the holder that goes on.
LEMMA LoadReadyInv ==
    ASSUME Inv, NEW w \in Writers, LoadReady(w)
    PROVE  Inv'
<1>0. lock = w /\ command[w] \in Commands
  BY HoldsLock DEF LoadReady, At
<1>1. CASE Leave(w) /\ UNCHANGED <<files, held>>
  BY <1>0, <1>1, LeaveInv
<1>2. CASE /\ pointer # None /\ pointer \in disk /\ ExtendsReady(w)
           /\ base' = [base EXCEPT ![w] = pointer]
           /\ Goto(w, "fetch")
           /\ UNCHANGED <<lock, command, staged>>
           /\ UNCHANGED <<files, held>>
  <2>1. pointer \in Generations
    BY <1>2 DEF Inv, TypeInv
  <2>2. TypeInv'
    BY <1>2, <2>1 DEF Goto, Inv, TypeInv, WithLock, files
  <2>4. pc'[w] = "fetch" /\ base'[w] = pointer /\ pointer' = pointer
    BY <1>2 DEF Goto, Inv, TypeInv, files
  <2>5. pointer.end < command[w].end
    BY <1>2, <1>0, <2>1, GenerationShape DEF ExtendsReady, Commands, Boundaries
  <2>6. BaseOK(w)' /\ StagedOK(w)'
    BY <1>2, <2>4, <2>5 DEF BaseOK, StagedOK, Staged
  <2>7. \A u \in Writers \ {w} : pc'[u] = pc[u] /\ base'[u] = base[u]
    BY <1>2 DEF Goto, Inv, TypeInv
  <2> QED BY <1>0, <1>2, <2>2, <2>4, <2>6, <2>7, StepInv
<1> QED BY <1>1, <1>2 DEF LoadReady

LEMMA FetchInv ==
    ASSUME Inv, NEW w \in Writers, Fetch(w)
    PROVE  Inv'
<1> DEFINE old  == IF base[w] = None THEN <<>> ELSE base[w].rows
           from == IF base[w] = None THEN 0 ELSE LastSlot(old)
           end  == command[w].end
<1>0. lock = w /\ command[w] \in Commands /\ pc[w] = "fetch"
  BY HoldsLock DEF Fetch, At
<1>1. CASE Leave(w) /\ UNCHANGED <<files, held>>
  BY <1>0, <1>1, LeaveInv
<1>2. ASSUME NEW page \in Pages(from, end),
             Accepted(old, page, end),
             staged' = [staged EXCEPT ![w] = [end |-> end, rows |-> Merge(old, page)]],
             Goto(w, "expose"),
             UNCHANGED <<lock, command, base>>,
             UNCHANGED <<files, held>>
      PROVE  Inv'
  <2>1. end \in Boundaries
    BY <1>0 DEF Commands
  <2>2. old = <<>> \/ old \in Pages(0, MaxEnd)
    BY GenerationShape DEF Inv, TypeInv
  <2>3. /\ [end |-> end, rows |-> Merge(old, page)] \in Generations
        /\ \A s \in DOMAIN old :
              s \in DOMAIN Merge(old, page) /\ Merge(old, page)[s] = old[s]
    <3> HIDE DEF old, from, end
    <3> QED BY <1>2, <2>1, <2>2, MergedGeneration
  <2>4. TypeInv'
    BY <1>2, <2>3 DEF Goto, Inv, TypeInv, WithLock, files
  <2>6. pc'[w] = "expose" /\ staged'[w] = [end |-> end, rows |-> Merge(old, page)]
    BY <1>2 DEF Goto, Inv, TypeInv
  <2>7. ASSUME command[w].kind = "sync"
        PROVE  pointer # None /\ Extends(pointer, staged'[w])
    <3>1. base[w] # None /\ base[w] = pointer /\ base[w].end < end
      BY <1>0, <2>7 DEF Inv, WorkInv, BaseOK
    <3>2. old = pointer.rows
      BY <3>1
    <3> QED BY <2>3, <2>6, <3>1, <3>2 DEF Extends
  <2>8. BaseOK(w)' /\ StagedOK(w)'
    BY <1>2, <2>3, <2>6, <2>7 DEF BaseOK, StagedOK, Staged, files
  <2>9. \A u \in Writers \ {w} : pc'[u] = pc[u] /\ base'[u] = base[u]
    BY <1>2 DEF Goto, Inv, TypeInv
  <2> QED BY <1>0, <1>2, <2>4, <2>6, <2>8, <2>9, StepInv
<1> QED BY <1>1, <1>2 DEF Fetch

LEMMA ExposeInv ==
    ASSUME Inv, NEW w \in Writers, Expose(w)
    PROVE  Inv'
<1>0. lock = w /\ command[w] \in Commands /\ pc[w] = "expose"
  BY HoldsLock DEF Expose, At
<1>1. staged[w] \in Generations /\ UNCHANGED <<pointer, lock, command, base, staged, held>>
  BY <1>0 DEF Expose, Inv, WorkInv, StagedOK, Staged
<1>2. disk \subseteq disk' /\ staged[w] \in disk' /\ disk' \subseteq Generations
  BY <1>1 DEF Expose, Renamed, Inv, TypeInv
<1>3. TypeInv'
  BY <1>1, <1>2 DEF Expose, Goto, Inv, TypeInv, WithLock
<1>5. pc'[w] \in {"fsync", "point"}
  BY DEF Expose, Goto, Inv, TypeInv
<1>6. BaseOK(w)' /\ StagedOK(w)'
  BY <1>0, <1>1, <1>2, <1>5 DEF Inv, WorkInv, BaseOK, StagedOK, Staged
<1>7. \A u \in Writers \ {w} : pc'[u] = pc[u] /\ base'[u] = base[u]
  BY <1>1 DEF Expose, Goto, Inv, TypeInv
<1> QED BY <1>0, <1>1, <1>3, <1>5, <1>6, <1>7, StepInv

LEMMA FsyncInv ==
    ASSUME Inv, NEW w \in Writers, FsyncGenerations(w)
    PROVE  Inv'
<1>0. lock = w /\ command[w] \in Commands /\ pc[w] = "fsync"
  BY HoldsLock DEF FsyncGenerations, At
<1>1. UNCHANGED <<disk, pointer, lock, command, base, staged, held>>
  BY DEF FsyncGenerations
<1>2. TypeInv'
  BY <1>1 DEF FsyncGenerations, Fsynced, Goto, Inv, TypeInv, WithLock
<1>4. pc'[w] = "point"
  BY DEF FsyncGenerations, Goto, Inv, TypeInv
<1>5. BaseOK(w)' /\ StagedOK(w)'
  BY <1>0, <1>1, <1>4 DEF Inv, WorkInv, BaseOK, StagedOK, Staged
<1>6. \A u \in Writers \ {w} : pc'[u] = pc[u] /\ base'[u] = base[u]
  BY <1>1 DEF FsyncGenerations, Goto, Inv, TypeInv
<1> QED BY <1>0, <1>1, <1>2, <1>4, <1>5, <1>6, StepInv

LEMMA PointInv ==
    ASSUME Inv, NEW w \in Writers, Point(w)
    PROVE  Inv'
<1>0. lock = w /\ command[w] \in Commands /\ pc[w] = "point"
  BY HoldsLock DEF Point, At
<1>1. pointer' = staged[w] /\ UNCHANGED <<disk, safeDisk, safePointer, lock, command, base, staged, held>>
  BY DEF Point
<1>2. staged[w] \in Generations /\ staged[w] \in disk
  BY <1>0 DEF Inv, WorkInv, StagedOK, Staged
<1>3. TypeInv'
  BY <1>1, <1>2 DEF Point, Goto, Inv, TypeInv, WithLock
<1>5. pc'[w] = "durable"
  BY DEF Point, Goto, Inv, TypeInv
<1>6. BaseOK(w)' /\ StagedOK(w)'
  BY <1>5 DEF BaseOK, StagedOK, Staged
<1>7. \A u \in Writers \ {w} : pc'[u] = pc[u] /\ base'[u] = base[u]
  BY <1>1 DEF Point, Goto, Inv, TypeInv
<1> QED BY <1>0, <1>1, <1>3, <1>5, <1>6, <1>7, StepInv

\* safePointer is the only file variable a settling writer changes.
LEMMA SettleInv ==
    ASSUME Inv, NEW w \in Writers, Settle(w)
    PROVE  Inv'
<1>0. lock = w
  BY HoldsLock DEF Settle, At
<1>1. \A u \in Writers : pc'[u] = "idle" /\ base'[u] = None
  BY <1>0 DEF Settle, Inv, WorkInv, LockOK, BaseOK, Leave, Goto, TypeInv
<1>2. lock' = None
  BY <1>0 DEF Settle, Leave
<1>3. TypeInv'
  BY DEF Settle, Leave, Goto, Inv, TypeInv, WithLock
<1>4. WorkInv'
  BY <1>1, <1>2 DEF WorkInv, LockOK, BaseOK, StagedOK, Staged
<1> QED BY <1>3, <1>4 DEF Inv

LEMMA DieInv ==
    ASSUME Inv, NEW w \in Writers, Die(w)
    PROVE  Inv'
<1>1. lock = w
  BY HoldsLock DEF Die, At
<1> QED BY <1>1, LeaveInv DEF Die

\* The invariant does not depend on anything but the variables.
LEMMA FrameInv ==
    ASSUME Inv, UNCHANGED <<files, work>>, TypeInv'
    PROVE  Inv'
  BY DEF Inv, WorkInv, LockOK, BaseOK, StagedOK, Staged, files, work

LEMMA ReaderInv ==
    ASSUME Inv, NEW r \in Readers, ReadPointer(r) \/ ReadFiles(r)
    PROVE  Inv'
<1>1. UNCHANGED <<files, work>>
  BY DEF ReadPointer, ReadFiles
<1>2. TypeInv'
  <2>1. CASE ReadPointer(r)
    BY <2>1 DEF ReadPointer, Inv, TypeInv, files, work
  <2>2. CASE ReadFiles(r)
    BY <2>2 DEF ReadFiles, Inv, TypeInv, files, work
  <2> QED BY <2>1, <2>2
<1> QED BY <1>1, <1>2, FrameInv

\* After a power loss nobody is at work, on files that were there.
LEMMA PowerInv ==
    ASSUME Inv, LosePower
    PROVE  Inv'
<1>1. TypeInv'
  <2>1. disk' \subseteq Generations /\ pointer' \in Generations \cup {None}
    BY DEF LosePower, Inv, TypeInv
  <2> QED BY <2>1 DEF LosePower, TypeInv
<1>2. WorkInv'
  BY DEF LosePower, WorkInv, LockOK, BaseOK, StagedOK, Staged
<1> QED BY <1>1, <1>2 DEF Inv

LEMMA NextInv ==
    ASSUME Inv, [Next]_vars
    PROVE  Inv'
<1>1. CASE UNCHANGED vars
  <2>1. TypeInv'
    BY <1>1 DEF vars, files, work, Inv, TypeInv
  <2> QED BY <1>1, <2>1, FrameInv DEF vars
<1>2. ASSUME NEW w \in Writers,
             \/ \E c \in Commands : Begin(w, c)
             \/ LoadReady(w) \/ Fetch(w) \/ Expose(w) \/ FsyncGenerations(w)
             \/ Point(w) \/ Settle(w) \/ Die(w)
      PROVE  Inv'
  BY <1>2, BeginInv, LoadReadyInv, FetchInv, ExposeInv, FsyncInv, PointInv, SettleInv, DieInv
<1>3. ASSUME NEW r \in Readers, ReadPointer(r) \/ ReadFiles(r)
      PROVE  Inv'
  BY <1>3, ReaderInv
<1>4. CASE LosePower
  BY <1>4, PowerInv
<1> QED BY <1>1, <1>2, <1>3, <1>4 DEF Next

-----------------------------------------------------------------------------
LEMMA InvAlways == Spec => []Inv
  BY InitInv, NextInv, PTL DEF Spec

\* The variables have their types: what is on disk or ready is a valid generation.
THEOREM TypeCorrect == Spec => []TypeOK
<1>1. Inv => TypeOK
  BY DEF Inv, TypeInv, TypeOK, WithLock
<1> QED BY <1>1, InvAlways, PTL

-----------------------------------------------------------------------------
(* The pointer has its generation                                           *)

\* A step without a power loss keeps what is on disk, and a pointer that has its
\* generation.
LEMMA BackedNext ==
    ASSUME Inv, PointerBacked, [Next]_vars, ~LosePower
    PROVE  PointerBacked'
<1>1. disk \subseteq disk'
  BY DEF Next, vars, files, work, Begin, LoadReady, Fetch, Expose, Renamed, FsyncGenerations,
     Point, Settle, Die, ReadPointer, ReadFiles
<1>2. pointer' # None => pointer' \in disk'
  <2>1. CASE pointer' = pointer
    BY <1>1, <2>1 DEF PointerBacked
  <2>2. ASSUME NEW w \in Writers, Point(w)
        PROVE  pointer' \in disk'
    BY <2>2 DEF Point
  <2> QED
    BY <2>1, <2>2 DEF Next, vars, files, work, Begin, LoadReady, Fetch, Expose,
       FsyncGenerations, Settle, Die, ReadPointer, ReadFiles
<1>3. \A r \in Readers : held'[r] # None => held'[r] \in disk'
  <2>1. CASE held' = held
    BY <1>1, <2>1 DEF PointerBacked
  <2>2. ASSUME NEW r \in Readers, ReadPointer(r) \/ ReadFiles(r)
        PROVE  \A q \in Readers : held'[q] # None => held'[q] \in disk'
    BY <1>1, <2>2 DEF ReadPointer, ReadFiles, PointerBacked, Inv, TypeInv
  <2> QED
    BY <2>1, <2>2 DEF Next, vars, files, work, Begin, LoadReady, Fetch, Expose,
       FsyncGenerations, Point, Settle, Die
<1> QED BY <1>2, <1>3 DEF PointerBacked

\* As long as the machine keeps its power, the ready pointer names a generation that is
\* there, and every reader finds the files of the pointer it read, whatever writers do,
\* die or retry in between.
THEOREM ReadyIsBacked == ASSUME ~PowerLoss PROVE Spec => []PointerBacked
<1>1. Init => PointerBacked
  BY DEF Init, PointerBacked
<1>2. Inv /\ PointerBacked /\ [Next]_vars => PointerBacked'
  BY BackedNext DEF LosePower
<1> QED BY <1>1, <1>2, InvAlways, PTL DEF Spec

\* What survives a power loss: the pointer, now and after one, names a generation that
\* was fsynced, and what is not fsynced is what one writer has just renamed.
SafeInv ==
    /\ safeDisk \subseteq disk
    /\ pointer # None => pointer \in safeDisk
    /\ safePointer # None => safePointer \in safeDisk
    /\ \A g \in disk \ safeDisk : \E w \in Writers : pc[w] = "fsync" /\ staged[w] = g

\* Only the step after the fsync lets go of what was not safe.
LEMMA SafeKept ==
    ASSUME SafeInv, UNCHANGED files,
           \A w \in Writers : pc[w] = "fsync" => pc'[w] = "fsync" /\ staged'[w] = staged[w]
    PROVE  SafeInv'
  BY DEF SafeInv, files

LEMMA SafeNext ==
    ASSUME ~Kills, Inv, SafeInv, [Next]_vars
    PROVE  SafeInv'
<1>1. ASSUME NEW w \in Writers, NEW c \in Commands, Begin(w, c)
      PROVE  SafeInv'
  BY <1>1, SafeKept DEF Begin, At, Goto, Inv, TypeInv
<1>2. ASSUME NEW w \in Writers, LoadReady(w) \/ Fetch(w)
      PROVE  SafeInv'
  <2>1. pc[w] # "fsync" /\ UNCHANGED files
    BY <1>2 DEF LoadReady, Fetch, At
  <2>2. \A u \in Writers \ {w} : pc'[u] = pc[u] /\ staged'[u] = staged[u]
    BY <1>2 DEF LoadReady, Fetch, Leave, Goto, Inv, TypeInv
  <2> QED BY <2>1, <2>2, SafeKept
<1>3. ASSUME NEW w \in Writers, Expose(w)
      PROVE  SafeInv'
  <2>1. /\ pc[w] = "expose" /\ UNCHANGED <<pointer, safeDisk, staged>>
        /\ safePointer' = pointer
    BY <1>3 DEF Expose, At
  <2>2. \A u \in Writers \ {w} : pc'[u] = pc[u]
    BY <1>3 DEF Expose, Goto, Inv, TypeInv
  <2>3. CASE staged[w] \in disk /\ disk' = disk
    BY <2>1, <2>2, <2>3 DEF SafeInv
  <2>4. CASE disk' = disk \cup {staged[w]} /\ Goto(w, "fsync")
    <3>1. pc'[w] = "fsync"
      BY <2>4 DEF Goto, Inv, TypeInv
    <3> QED BY <2>1, <2>2, <2>4, <3>1 DEF SafeInv
  <2> QED BY <1>3, <2>3, <2>4 DEF Expose, Renamed
<1>4. ASSUME NEW w \in Writers, FsyncGenerations(w)
      PROVE  SafeInv'
  BY <1>4 DEF FsyncGenerations, Fsynced, SafeInv
<1>5. ASSUME NEW w \in Writers, Point(w)
      PROVE  SafeInv'
  <2>1. pc[w] = "point" /\ lock = w
    BY <1>5, HoldsLock DEF Point, At
  <2>2. \A u \in Writers : pc[u] # "fsync"
    BY <2>1 DEF Inv, WorkInv, LockOK
  <2>3. disk = safeDisk
    BY <2>2 DEF SafeInv
  <2> QED BY <1>5, <2>3 DEF Point, SafeInv
<1>6. ASSUME NEW w \in Writers, Settle(w)
      PROVE  SafeInv'
  <2>1. pc[w] = "durable" /\ lock = w
    BY <1>6, HoldsLock DEF Settle, At
  <2>2. \A u \in Writers : pc[u] # "fsync"
    BY <2>1 DEF Inv, WorkInv, LockOK
  <2> QED BY <1>6, <2>2 DEF Settle, SafeInv
<1>7. ASSUME NEW r \in Readers, ReadPointer(r) \/ ReadFiles(r)
      PROVE  SafeInv'
  BY <1>7, SafeKept DEF ReadPointer, ReadFiles, work
<1>8. CASE LosePower
  BY <1>8 DEF LosePower, SafeInv
<1>9. CASE UNCHANGED vars
  BY <1>9, SafeKept DEF vars, work
<1> QED
  BY <1>1, <1>2, <1>3, <1>4, <1>5, <1>6, <1>7, <1>8, <1>9 DEF Next, Die

\* As long as no writer dies alone, the fsyncs keep the ready pointer and what readers
\* hold backed through any number of power losses.
THEOREM PowerIsSurvived == ASSUME ~Kills PROVE Spec => []PointerBacked
<1>1. Init => SafeInv /\ PointerBacked
  BY DEF Init, SafeInv, PointerBacked
<1>2. Inv /\ SafeInv /\ [Next]_vars => SafeInv'
  BY SafeNext
<1>3. Inv /\ SafeInv /\ PointerBacked /\ [Next]_vars => PointerBacked'
  <2> SUFFICES ASSUME Inv, SafeInv, PointerBacked, [Next]_vars PROVE PointerBacked'
    OBVIOUS
  <2>1. CASE LosePower
    BY <2>1 DEF LosePower, SafeInv, PointerBacked
  <2> QED BY <2>1, BackedNext
<1> QED BY <1>1, <1>2, <1>3, InvAlways, PTL DEF Spec

-----------------------------------------------------------------------------
(* The ready history has no hole                                            *)

LEMMA Least ==
    ASSUME NEW S \in SUBSET Nat, S # {}
    PROVE  \E m \in S : \A n \in S : m <= n
<1>1. PICK m \in S : \A n \in S : ~ (<<n, m>> \in OpToRel(<, Nat))
  BY NatLessThanWellFounded, WFMin
<1>2. \A n \in S : ~(n < m)
  BY <1>1 DEF OpToRel
<1> QED BY <1>2

LEMMA Greatest ==
    ASSUME NEW bound \in Nat, NEW S \in SUBSET (0..bound), S # {}
    PROVE  \E m \in S : \A n \in S : n <= m
<1> DEFINE Rest == {bound - s : s \in S}
<1>1. Rest \in SUBSET Nat
  <2>1. \A s \in S : bound - s \in Nat
    OBVIOUS
  <2> QED BY <2>1
<1>2. Rest # {}
  <2>1. PICK s \in S : TRUE
    OBVIOUS
  <2>2. bound - s \in Rest
    OBVIOUS
  <2> QED BY <2>2
<1>3. PICK r \in Rest : \A q \in Rest : r <= q
  <2> HIDE DEF Rest
  <2> QED BY <1>1, <1>2, Least
<1>4. PICK m \in S : r = bound - m
  OBVIOUS
<1>5. \A n \in S : bound - m <= bound - n
  BY <1>3, <1>4
<1> QED BY <1>5

\* In a covered history the last row before a slot is less than MaxGap away.
LEMMA CoveredSlot ==
    ASSUME NEW g \in Generations, NEW s \in 0..(g.end - 1)
    PROVE  \E t \in DOMAIN g.rows : t <= s /\ s < t + MaxGap
<1> DEFINE Before == {t \in DOMAIN g.rows : t <= s}
<1>1. g.end \in Nat /\ MaxGap \in Nat /\ s \in Nat /\ s < g.end
  BY FundingAssumption, GenerationShape DEF Boundaries
<1>2. Covers(g.rows, g.end)
  BY DEF Generations
<1>3. \A t \in DOMAIN g.rows : t \in Nat
  <2>1. PICK T \in SUBSET Slots(0, MaxEnd) : g.rows \in [T -> Rows]
    BY GenerationShape DEF Pages
  <2>2. DOMAIN g.rows = T
    BY <2>1
  <2>3. \A t \in Slots(0, MaxEnd) : t \in Nat
    BY FundingAssumption DEF Slots
  <2> QED BY <2>1, <2>2, <2>3
<1>4. Before \in SUBSET (0..s) /\ 0 \in Before
  BY <1>1, <1>2, <1>3 DEF Covers
<1>5. PICK t \in Before : \A u \in Before : u <= t
  <2> HIDE DEF Before
  <2> QED BY <1>1, <1>4, Greatest
<1>6. t + MaxGap >= g.end \/ \E u \in DOMAIN g.rows : t < u /\ u <= t + MaxGap
  BY <1>2 DEF Covers
<1>7. \A u \in DOMAIN g.rows : t < u => s < u
  BY <1>1, <1>3, <1>5
<1>8. s < t + MaxGap
  BY <1>1, <1>3, <1>6, <1>7
<1> QED BY <1>8

\* However many syncs and migrations wrote it, died or lost power, the ready history has
\* no hole of 8 hours and no modeled row after an official one.
THEOREM ReadyHasNoHole == Spec => []ReadyIsWhole
<1>1. Inv => ReadyIsWhole
  <2> SUFFICES ASSUME Inv, pointer # None PROVE ReadyIsWhole
    BY DEF ReadyIsWhole
  <2>1. pointer \in Generations
    BY DEF Inv, TypeInv
  <2>2. TruthOrdered(pointer.rows)
    BY <2>1 DEF Generations, Covers
  <2> QED BY <2>1, <2>2, CoveredSlot DEF ReadyIsWhole, TruthOrdered
<1> QED BY <1>1, InvAlways, PTL

-----------------------------------------------------------------------------
\* The operation the register sees.
Operation == IF lock = None THEN "none" ELSE command[lock].kind

RegisterStep == [Register!Next]_<<pointer, Operation, held>>

\* A writer that ends, ends its operation.
LEMMA LeaveMaps ==
    ASSUME Inv, NEW w \in Writers, lock = w, command[w] \in Commands,
           Leave(w), UNCHANGED <<pointer, held>>
    PROVE  Register!End
<1>1. Operation \in {"sync", "migrate"}
  BY FundingAssumption DEF Operation, Commands
<1>2. Operation' = "none"
  BY DEF Leave, Operation
<1> QED BY <1>1, <1>2 DEF Register!End, Operation

LEMMA WriterMaps ==
    ASSUME Inv, NEW w \in Writers,
           \/ \E c \in Commands : Begin(w, c)
           \/ LoadReady(w) \/ Fetch(w) \/ Expose(w) \/ FsyncGenerations(w)
           \/ Point(w) \/ Settle(w) \/ Die(w)
    PROVE  RegisterStep
<1>1. ASSUME NEW c \in Commands, Begin(w, c) PROVE Register!Begin
  <2>1. Operation = "none"
    BY <1>1 DEF Begin, FreeLock, Operation
  <2>2. Operation' = c.kind
    BY <1>1, FundingAssumption DEF Begin, Operation, Inv, TypeInv
  <2>3. c.kind \in {"sync", "migrate"}
    BY DEF Commands
  <2> QED BY <1>1, <2>1, <2>2, <2>3 DEF Register!Begin, Operation, Begin, files
<1>2. ASSUME pc[w] # "idle" PROVE lock = w /\ command[w] \in Commands
  BY <1>2, HoldsLock
<1>3. CASE LoadReady(w) /\ Leave(w)
  <2>1. UNCHANGED <<pointer, held>>
    BY <1>3 DEF LoadReady, files
  <2> QED BY <1>2, <1>3, <2>1, LeaveMaps DEF LoadReady, At, RegisterStep, Register!Next
<1>4. CASE LoadReady(w) /\ ~Leave(w)
  BY <1>4 DEF LoadReady, files, RegisterStep, Operation
<1>5. CASE Fetch(w) /\ Leave(w)
  <2>1. UNCHANGED <<pointer, held>>
    BY <1>5 DEF Fetch, files
  <2> QED BY <1>2, <1>5, <2>1, LeaveMaps DEF Fetch, At, RegisterStep, Register!Next
<1>6. CASE Fetch(w) /\ ~Leave(w)
  BY <1>6 DEF Fetch, files, RegisterStep, Operation
<1>7. CASE Expose(w) \/ FsyncGenerations(w)
  BY <1>7 DEF Expose, FsyncGenerations, RegisterStep, Operation
<1>8. CASE Point(w)
  <2>1. lock = w /\ command[w] \in Commands /\ pc[w] = "point"
    BY <1>2, <1>8 DEF Point, At
  <2>2. Operation = command[w].kind
    BY <2>1, FundingAssumption DEF Operation
  <2>3. pointer' = staged[w] /\ UNCHANGED <<Operation, held>>
    BY <1>8 DEF Point, Operation
  <2>4. staged[w] \in Generations
    BY <2>1 DEF Inv, WorkInv, StagedOK, Staged
  <2>5. CASE command[w].kind = "sync"
    <3>1. pointer # None /\ Extends(pointer, staged[w])
      BY <2>1, <2>5 DEF Inv, WorkInv, StagedOK, Staged
    <3>2. Register!Extend
      BY <2>2, <2>3, <2>4, <2>5, <3>1 DEF Register!Extend, Operation
    <3> QED BY <3>2 DEF RegisterStep, Register!Next
  <2>6. CASE command[w].kind = "migrate"
    <3>1. Register!Replace
      BY <2>2, <2>3, <2>4, <2>6 DEF Register!Replace, Operation
    <3> QED BY <3>1 DEF RegisterStep, Register!Next
  <2> QED BY <2>1, <2>5, <2>6 DEF Commands
<1>9. CASE Settle(w)
  BY <1>2, <1>9, LeaveMaps DEF Settle, At, RegisterStep, Register!Next
<1>10. CASE Die(w)
  BY <1>2, <1>10, LeaveMaps DEF Die, At, files, RegisterStep, Register!Next
<1> QED
  BY <1>1, <1>3, <1>4, <1>5, <1>6, <1>7, <1>8, <1>9, <1>10 DEF RegisterStep, Register!Next

LEMMA ReaderMaps ==
    ASSUME NEW r \in Readers, ReadPointer(r) \/ ReadFiles(r)
    PROVE  RegisterStep
<1>1. UNCHANGED <<pointer, Operation>>
  BY DEF ReadPointer, ReadFiles, files, work, Operation
<1>2. Register!Read(r) \/ Register!Done(r)
  BY <1>1 DEF ReadPointer, ReadFiles, Register!Read, Register!Done, Operation
<1> QED BY <1>2 DEF RegisterStep, Register!Next

\* The store implements the register for every number of writers and readers: syncs only
\* extend what is ready, and operations never overlap.
THEOREM StoreIsRegister == ASSUME ~PowerLoss PROVE Spec => RegisterSpec
<1>1. Init => Register!Init
  BY DEF Init, Register!Init
<1>2. Inv /\ [Next]_vars => RegisterStep
  <2> SUFFICES ASSUME Inv, [Next]_vars PROVE RegisterStep
    OBVIOUS
  <2>1. CASE UNCHANGED vars
    BY <2>1 DEF vars, files, work, RegisterStep, Operation
  <2>2. CASE LosePower
    BY <2>2 DEF LosePower
  <2> QED BY <2>1, <2>2, WriterMaps, ReaderMaps DEF Next
<1> QED BY <1>1, <1>2, InvAlways, PTL DEF Spec, RegisterSpec, Register!Spec, RegisterStep, Operation

=============================================================================
