----------------------------- MODULE FundingStore -----------------------------
(***************************************************************************)
(* The funding observation store of funding_observation.py: a generation   *)
(* is staged in a private directory, renamed to the hash of its manifest,  *)
(* read back, and published by replacing the ready pointer.  Writers are   *)
(* the processes that run sync_funding_generation (nautilus-data sync and  *)
(* sync-funding-observations-candidate) or migrate_funding_observations;   *)
(* each holds data-sync.lock.  Readers (status, research) take no lock.    *)
(*                                                                         *)
(* Time is counted in funding slots from the configured start; boundary e  *)
(* lies after slot e - 1.  The row of a slot stands for the rows of all    *)
(* symbols there.  A generation is its content: its name is the hash of    *)
(* the manifest, which holds the hashes of all its files.                  *)
(***************************************************************************)
EXTENDS Naturals, FiniteSets

CONSTANTS Writers, Readers,
          Rows,           \* what the API may say of a slot
          Official,       \* the rows that carry a mark price; the others are modeled
          MaxEnd,         \* bound: the last boundary that is synced to
          MaxGap,         \* slots in 8 hours, the widest gap validate_coverage accepts
          MaxGenerations, \* bound: generation directories on disk
          Kills,          \* may a writer die while the machine goes on?
          PowerLoss,      \* may the machine stop, losing what was not fsynced?
          None

ASSUME FundingAssumption ==
    /\ Official \subseteq Rows
    /\ MaxEnd \in Nat \ {0} /\ MaxGap \in Nat \ {0} /\ MaxGenerations \in Nat
    /\ Kills \in BOOLEAN /\ PowerLoss \in BOOLEAN
    /\ None \notin Writers

Boundaries == 1..MaxEnd

\* The slots from one boundary on and before another; a page of the API has rows for
\* some of them.
Slots(from, end) == {s \in 0..MaxEnd : from <= s /\ s < end}
Pages(from, end) == UNION {[S -> Rows] : S \in SUBSET Slots(from, end)}

\* _validate_observations: no modeled row follows an official one.
TruthOrdered(rows) ==
    \A s, t \in DOMAIN rows : s < t /\ rows[s] \in Official => rows[t] \in Official

\* Mutant: only the first row and the tail are looked at.
HeadAndTail(rows, end) ==
    /\ 0 \in DOMAIN rows
    /\ \E s \in DOMAIN rows : s < end /\ end <= s + MaxGap

\* validate_coverage: a row at the start, and from every row no more than MaxGap slots
\* to the next one or to the end.
Covers(rows, end) ==
    /\ 0 \in DOMAIN rows
    /\ \A s \in DOMAIN rows :
          s < end /\ (s + MaxGap >= end \/ \E t \in DOMAIN rows : s < t /\ t <= s + MaxGap)
    /\ TruthOrdered(rows)

Generations ==
    {g \in [end : Boundaries, rows : Pages(0, MaxEnd)] : Covers(g.rows, g.end)}

LastSlot(rows) == CHOOSE s \in DOMAIN rows : \A t \in DOMAIN rows : t <= s

\* h keeps every row of g and reaches further.
Extends(g, h) ==
    /\ g.end < h.end
    /\ \A s \in DOMAIN g.rows : s \in DOMAIN h.rows /\ h.rows[s] = g.rows[s]

VARIABLES
    disk,      \* the generation directories that exist
    pointer,   \* the generation the ready pointer names, or None
    safeDisk,  \* the generation directories that survive a power loss
    safePointer, \* the ready pointer that survives a power loss
    lock,      \* the writer that holds data-sync.lock exclusively, or None
    pc,        \* writer -> the step it is about to take
    command,   \* writer -> "sync" | "migrate" and the boundary it goes for, or None
    base,      \* writer -> the generation its sync started from, or None
    staged,    \* writer -> the generation in its staging directory, or None
    held       \* reader -> the generation whose name it read, or None

files == <<disk, pointer, safeDisk, safePointer>>
work  == <<lock, pc, command, base, staged>>
vars  == <<files, work, held>>

Commands == [kind : {"sync", "migrate"}, end : Boundaries]

-----------------------------------------------------------------------------
At(w, step)   == pc[w] = step
Goto(w, step) == pc' = [pc EXCEPT ![w] = step]

\* The process ends, however it does: single_writer lets go of the lock.
Leave(w) ==
    /\ Goto(w, "idle")
    /\ lock' = IF lock = w THEN None ELSE lock
    /\ base' = [base EXCEPT ![w] = None]
    /\ command' = [command EXCEPT ![w] = None]
    /\ staged' = [staged EXCEPT ![w] = None]

Init ==
    /\ disk = {} /\ safeDisk = {}
    /\ pointer = None /\ safePointer = None
    /\ lock = None
    /\ pc = [w \in Writers |-> "idle"]
    /\ command = [w \in Writers |-> None]
    /\ base = [w \in Writers |-> None]
    /\ staged = [w \in Writers |-> None]
    /\ held = [r \in Readers |-> None]

\* Mutant: the writer does not ask for the lock.
AnyLock == TRUE

\* fcntl.flock(LOCK_EX | LOCK_NB); a writer that is refused reports BUSY and ends.
FreeLock == lock = None

\* --now may name any day: a boundary may lie before an earlier one.
Begin(w, c) ==
    /\ At(w, "idle")
    /\ FreeLock
    /\ lock' = w
    /\ command' = [command EXCEPT ![w] = c]
    /\ Goto(w, IF c.kind = "sync" THEN "load" ELSE "fetch")
    /\ UNCHANGED <<files, base, staged, held>>

\* sync_funding_generation needs a ready generation; its boundary must not lie behind
\* it, and on it there is nothing to do.
ExtendsReady(w) == command[w].end > pointer.end

LoadReady(w) ==
    /\ At(w, "load")
    /\ IF pointer # None /\ pointer \in disk /\ ExtendsReady(w)
       THEN /\ base' = [base EXCEPT ![w] = pointer]
            /\ Goto(w, "fetch")
            /\ UNCHANGED <<lock, command, staged>>
       ELSE Leave(w)
    /\ UNCHANGED <<files, held>>

\* _merge_observations; it raises when Agree does not hold.
Merge(old, page) ==
    [s \in DOMAIN old \cup DOMAIN page |-> IF s \in DOMAIN old THEN old[s] ELSE page[s]]

Agree(old, page) == \A s \in DOMAIN old \cap DOMAIN page : old[s] = page[s]

\* observations_from_api_rows, _merge_observations and validate_coverage do not raise.
Accepted(old, page, end) ==
    /\ TruthOrdered(page) /\ Agree(old, page)
    /\ Covers(Merge(old, page), end)

\* The rows are fetched, from the last stored row on when there is a base, merged,
\* validated and staged.  Anything wrong with them raises.
Fetch(w) ==
    /\ At(w, "fetch")
    /\ LET old  == IF base[w] = None THEN <<>> ELSE base[w].rows
           from == IF base[w] = None THEN 0 ELSE LastSlot(old)
           end  == command[w].end
       IN  \/ \E page \in Pages(from, end) :
                 /\ Accepted(old, page, end)
                 /\ staged' = [staged EXCEPT ![w] = [end |-> end, rows |-> Merge(old, page)]]
                 /\ Goto(w, "expose")
                 /\ UNCHANGED <<lock, command, base>>
           \/ /\ \E page \in Pages(from, end) : ~Accepted(old, page, end)
              /\ Leave(w)
    /\ UNCHANGED <<files, held>>

\* os.replace(stage_path, destination); no generation is ever removed.
Renamed(w) == disk \cup {staged[w]}

\* The directory of the pointer is fsynced, so that a pointer whose writer died before it
\* could settle is durable before it is replaced.  Then the staging directory becomes the
\* generation, unless an earlier attempt left the same one behind.
Expose(w) ==
    /\ At(w, "expose")
    /\ \/ /\ staged[w] \in disk
          /\ Goto(w, "point")
          /\ UNCHANGED disk
       \/ /\ staged[w] \notin disk
          /\ Cardinality(disk) < MaxGenerations
          /\ disk' = Renamed(w)
          /\ Goto(w, "fsync")
    /\ safePointer' = pointer
    /\ UNCHANGED <<pointer, safeDisk, lock, command, base, staged, held>>

\* Mutant: the directory is not fsynced.
NotFsynced == safeDisk

\* _fsync_directory(generations_path)
Fsynced == disk

FsyncGenerations(w) ==
    /\ At(w, "fsync")
    /\ safeDisk' = Fsynced
    /\ Goto(w, "point")
    /\ UNCHANGED <<disk, pointer, safePointer, lock, command, base, staged, held>>

\* The candidate is read back, then _atomic_write: the new pointer replaces the old one in
\* one rename.
Point(w) ==
    /\ At(w, "point")
    /\ staged[w] \in disk
    /\ pointer' = staged[w]
    /\ Goto(w, "durable")
    /\ UNCHANGED <<disk, safeDisk, safePointer, lock, command, base, staged, held>>

\* The directory of the pointer is fsynced, the pointer is read back, the lock is left.
Settle(w) ==
    /\ At(w, "durable")
    /\ safePointer' = pointer
    /\ Leave(w)
    /\ UNCHANGED <<disk, pointer, safeDisk, held>>

\* A writer is killed, or a step of it raises OSError.
Die(w) ==
    /\ Kills
    /\ ~At(w, "idle")
    /\ Leave(w)
    /\ UNCHANGED <<files, held>>

\* The machine stops.  What was fsynced is there afterwards, the rest may be; there is at
\* most one pointer that was not fsynced.
LosePower ==
    /\ PowerLoss
    /\ \E kept \in SUBSET (disk \ safeDisk) : disk' = safeDisk \cup kept
    /\ pointer' \in {pointer, safePointer}
    /\ safeDisk' = disk' /\ safePointer' = pointer'
    /\ lock' = None
    /\ pc' = [w \in Writers |-> "idle"]
    /\ command' = [w \in Writers |-> None]
    /\ base' = [w \in Writers |-> None]
    /\ staged' = [w \in Writers |-> None]
    /\ held' = [r \in Readers |-> None]

\* _load_ready_generation of a reader: the pointer now, the files it names later.
ReadPointer(r) ==
    /\ held[r] = None /\ pointer # None
    /\ held' = [held EXCEPT ![r] = pointer]
    /\ UNCHANGED <<files, work>>

ReadFiles(r) ==
    /\ held[r] # None
    /\ held' = [held EXCEPT ![r] = None]
    /\ UNCHANGED <<files, work>>

-----------------------------------------------------------------------------
Next ==
    \/ \E w \in Writers :
          \/ \E c \in Commands : Begin(w, c)
          \/ LoadReady(w) \/ Fetch(w) \/ Expose(w) \/ FsyncGenerations(w)
          \/ Point(w) \/ Settle(w) \/ Die(w)
    \/ \E r \in Readers : ReadPointer(r) \/ ReadFiles(r)
    \/ LosePower

Spec == Init /\ [][Next]_vars

-----------------------------------------------------------------------------
(* Properties                                                               *)

\* The variables have their types.
TypeOK ==
    /\ disk \subseteq Generations /\ safeDisk \subseteq Generations
    /\ pointer \in Generations \cup {None} /\ safePointer \in Generations \cup {None}
    /\ lock \in Writers \cup {None}
    /\ pc \in [Writers -> {"idle", "load", "fetch", "expose", "fsync", "point", "durable"}]
    /\ command \in [Writers -> Commands \cup {None}]
    /\ base \in [Writers -> Generations \cup {None}]
    /\ staged \in [Writers -> Generations \cup {None}]
    /\ held \in [Readers -> Generations \cup {None}]

\* Whoever reads the ready pointer, at whatever moment, finds the whole generation it
\* names, and still finds it when it opens the files later: writers that publish, die
\* or retry in between take nothing away.
PointerBacked ==
    /\ pointer # None => pointer \in disk
    /\ \A r \in Readers : held[r] # None => held[r] \in disk

\* The ready history never has a hole wider than 8 hours nor a modeled row after an
\* official one, however many syncs it was pieced together from.
ReadyIsWhole ==
    pointer # None =>
        /\ \A s \in 0..(pointer.end - 1) :
              \E t \in DOMAIN pointer.rows : t <= s /\ s < t + MaxGap
        /\ \A s, t \in DOMAIN pointer.rows :
              s < t /\ pointer.rows[s] \in Official => pointer.rows[t] \in Official

\* The store is the register of FundingRegister: operations follow one another, a sync
\* never rewrites history or drops a row of it, whoever published before, and a reader
\* works with a history that was ready.
Register == INSTANCE FundingRegister WITH
    Histories <- Generations,
    current   <- pointer,
    operation <- IF lock = None THEN "none" ELSE command[lock].kind

RegisterSpec == Register!Spec
===============================================================================
