------------------------------- MODULE DataSync -------------------------------
(***************************************************************************)
(* The data service: nautilus-data sync (run_sync of service.py with       *)
(* sync_bar_stream of sync.py), sync-funding-observations-candidate and    *)
(* migrate-funding-observations of cli.py, their lock and the run reports, *)
(* beside research processes that hold the same lock shared.  Time is      *)
(* counted in bars; boundary e lies after bar e.  The funding store is     *)
(* taken by its boundary (FundingStore has the rest).                      *)
(***************************************************************************)
EXTENDS Naturals, Sequences

CONSTANTS Jobs,      \* processes of nautilus-data
          Commands,  \* those they may be given: "sync", "candidate", "migrate"
          Readers,   \* research processes (_hold_data_snapshot_shared)
          Streams,   \* the bar streams in the order they are synced, a sequence
          Chunk,     \* bars per chunk
          Limits,    \* values of max_chunks; Unlimited when the option is absent
          Unlimited,
          MaxEnd,    \* bound: the last boundary
          Drops,     \* may the catalog lose bars it is given?
          Kills,     \* may a job die?
          None

StreamSet == {Streams[i] : i \in DOMAIN Streams}

ASSUME SyncAssumption ==
    /\ Streams \in Seq(StreamSet) /\ Streams # <<>>
    /\ None \notin Jobs
    /\ Commands \subseteq {"sync", "candidate", "migrate"}
    /\ Chunk \in Nat \ {0} /\ MaxEnd \in Nat \ {0}
    /\ Limits \subseteq Nat \cup {Unlimited} /\ Unlimited \notin Nat
    /\ Drops \in BOOLEAN /\ Kills \in BOOLEAN

Statuses == {"PASS", "PARTIAL", "FAIL"}

VARIABLES
    now,     \* target_end: the boundary up to which data is complete
    bars,    \* stream -> the bars in the catalog
    ready,   \* the boundary of the ready funding generation; 0 when there is none
    owner,   \* the job that holds data-sync.lock exclusively, or None
    reading, \* reader -> "idle" | "waiting" | "reading"
    pc,      \* job -> the step it is about to take
    job,     \* job -> what it works on
    passed   \* history: the boundaries of the PASS reports

vars == <<now, bars, ready, owner, reading, pc, job, passed>>

\* job[j].at is the position of its stream, cursor the last bar of it that is there,
\* chunks the number of chunks written to it (counted under a limit), short whether some
\* stream is incomplete.
NoJob == [command |-> None, end |-> 1, limit |-> Unlimited, at |-> 1, cursor |-> 0,
          chunks |-> 0, short |-> FALSE, status |-> None]

JobType == [command : Commands \cup {None, "sync"}, end : 1..MaxEnd,
            limit : Limits \cup {Unlimited}, at : 1..Len(Streams), cursor : 0..MaxEnd,
            chunks : Nat, short : BOOLEAN, status : Statuses \cup {None}]

-----------------------------------------------------------------------------
At(j, step)   == pc[j] = step
Goto(j, step) == pc' = [pc EXCEPT ![j] = step]

Stream(j) == Streams[job[j].at]

\* Mutant: readers are not waited for.
NoOwner == owner = None

\* fcntl.flock(LOCK_EX | LOCK_NB) would succeed.
LockFree == owner = None /\ \A r \in Readers : reading[r] # "reading"

\* Mutant: an error path that leaves without the finally.
KeepLock(j) == owner' = IF owner = j /\ job[j].command # "sync" THEN None ELSE owner

\* single_writer's finally.
Release(j) == owner' = IF owner = j THEN None ELSE owner

\* A first migration may have published a generation.
Init ==
    /\ now = 1
    /\ bars = [s \in StreamSet |-> {}]
    /\ ready \in {0, 1}
    /\ owner = None
    /\ reading = [r \in Readers |-> "idle"]
    /\ pc = [j \in Jobs |-> "idle"]
    /\ job = [j \in Jobs |-> NoJob]
    /\ passed = {}

\* The lock is taken, then the boundary is fixed for the whole run; --now may name an
\* earlier one.
Start(j, command, end, limit) ==
    /\ At(j, "idle")
    /\ LockFree
    /\ end <= now
    /\ command # "sync" => limit = Unlimited
    /\ owner' = j
    /\ job' = [job EXCEPT ![j] =
                  [NoJob EXCEPT !.command = command, !.end = end, !.limit = limit]]
    /\ Goto(j, IF command = "sync" THEN "tail" ELSE "funding")
    /\ UNCHANGED <<now, bars, ready, reading, passed>>

\* AlreadyRunning: BUSY is printed, nothing is recorded.
Busy(j) ==
    /\ At(j, "idle")
    /\ ~LockFree
    /\ Goto(j, "busy")
    /\ UNCHANGED <<now, bars, ready, owner, reading, job, passed>>

LeaveBusy(j) ==
    /\ At(j, "busy")
    /\ Goto(j, "idle")
    /\ UNCHANGED <<now, bars, ready, owner, reading, job, passed>>

\* What is left of a job for its report.
Result(j, status) ==
    [job EXCEPT ![j] = [NoJob EXCEPT !.command = "sync", !.end = job[j].end,
                                     !.status = status]]

\* An exception leaves the lock; a sync reports it afterwards, the others do not.
Fail(j) ==
    /\ Release(j)
    /\ IF job[j].command = "sync"
       THEN /\ Goto(j, "report")
            /\ job' = Result(j, "FAIL")
       ELSE /\ Goto(j, "idle")
            /\ job' = [job EXCEPT ![j] = NoJob]

-----------------------------------------------------------------------------
(* One bar stream                                                           *)

LastBar(S) == IF S = {} THEN 0 ELSE CHOOSE b \in S : \A c \in S : c <= b

\* Mutant: resume after the last bar, whatever is missing before it.
LastIs(s, bar) == bar = LastBar(bars[s])

\* _validated_catalog_tail: the stored bars run from the start to this one without a gap.
TailIs(s, bar) == bars[s] = 1..bar

ValidateTail(j) ==
    /\ At(j, "tail")
    /\ \/ \E bar \in 0..MaxEnd :
             /\ TailIs(Stream(j), bar)
             /\ job' = [job EXCEPT ![j].cursor = bar, ![j].chunks = 0]
             /\ Goto(j, "chunk")
             /\ UNCHANGED owner
       \/ (\A bar \in 0..MaxEnd : ~TailIs(Stream(j), bar)) /\ Fail(j)
    /\ UNCHANGED <<now, bars, ready, reading, passed>>

MoreChunks(j) ==
    /\ job[j].cursor < job[j].end
    /\ job[j].limit # Unlimited => job[j].chunks < job[j].limit

\* Mutants: the bar that is still open is taken too; a chunk of no bars (an interval
\* longer than chunk_days, without the max(1, ...)).
OpenBar(j) ==
    IF job[j].cursor + Chunk < job[j].end THEN job[j].cursor + Chunk ELSE job[j].end + 1
EmptyChunk(j) == job[j].cursor

ChunkEnd(j) ==
    IF job[j].cursor + Chunk < job[j].end THEN job[j].cursor + Chunk ELSE job[j].end

\* One chunk is fetched whole and written; the catalog may lose some of it.
Write(j) ==
    /\ At(j, "chunk")
    /\ MoreChunks(j)
    /\ LET chunk == (job[j].cursor + 1)..ChunkEnd(j)
       IN  \E kept \in IF Drops THEN SUBSET chunk ELSE {chunk} :
              bars' = [bars EXCEPT ![Stream(j)] = @ \cup kept]
    /\ Goto(j, "readback")
    /\ UNCHANGED <<now, ready, owner, reading, job, passed>>

\* The API answers with an error, with nothing, with a gap or with a short tail; before
\* that the catalog or the instruments may already not be what they should.
FetchFails(j) ==
    /\ At(j, "tail") \/ (At(j, "chunk") /\ MoreChunks(j))
    /\ Fail(j)
    /\ UNCHANGED <<now, bars, ready, reading, passed>>

\* _validate_catalog_readback: the whole chunk is there.
ChunkRead(j) == (job[j].cursor + 1)..ChunkEnd(j) \subseteq bars[Stream(j)]

Readback(j) ==
    /\ At(j, "readback")
    /\ IF ChunkRead(j)
       THEN /\ job' = [job EXCEPT ![j].cursor = ChunkEnd(j),
                                  ![j].chunks = IF job[j].limit = Unlimited THEN @ ELSE @ + 1]
            /\ Goto(j, "chunk")
            /\ UNCHANGED owner
       ELSE Fail(j)
    /\ UNCHANGED <<now, bars, ready, reading, passed>>

\* all(result["complete"] for result in results)
Short(j) == job[j].short \/ job[j].cursor < job[j].end

NextStream(j) ==
    /\ At(j, "chunk")
    /\ ~MoreChunks(j)
    /\ IF job[j].at < Len(Streams)
       THEN /\ job' = [job EXCEPT ![j].at = @ + 1, ![j].short = Short(j)]
            /\ Goto(j, "tail")
       ELSE /\ job' = [job EXCEPT ![j] = [NoJob EXCEPT !.command = "sync", !.end = job[j].end,
                                                       !.short = Short(j)]]
            /\ Goto(j, "funding")
    /\ UNCHANGED <<now, bars, ready, owner, reading, passed>>

-----------------------------------------------------------------------------
(* Funding and report                                                       *)

\* sync_funding_generation needs a ready generation whose boundary is not later; on it
\* there is nothing to do.  A migration builds one from nothing.
FundingPossible(j) ==
    job[j].command = "migrate" \/ (ready # 0 /\ ready <= job[j].end)

\* The generation is published and read back, and the lock is left with the result.
Funding(j) ==
    /\ At(j, "funding")
    /\ FundingPossible(j)
    /\ ready' = job[j].end
    /\ Release(j)
    /\ IF job[j].command = "sync"
       THEN /\ Goto(j, "report")
            /\ job' = Result(j, IF job[j].short THEN "PARTIAL" ELSE "PASS")
       ELSE /\ Goto(j, "idle")
            /\ job' = [job EXCEPT ![j] = NoJob]
    /\ UNCHANGED <<now, bars, reading, passed>>

\* The boundary lies behind, the API has gaps, or the generation cannot be read back
\* after it was published.
FundingFails(j) ==
    /\ At(j, "funding")
    /\ \/ UNCHANGED ready
       \/ FundingPossible(j) /\ ready' = job[j].end
    /\ Fail(j)
    /\ UNCHANGED <<now, bars, reading, passed>>

\* write_report: outside the lock, stamped with the time it is written.
WriteReport(j) ==
    /\ At(j, "report")
    /\ passed' = IF job[j].status = "PASS" THEN passed \cup {job[j].end} ELSE passed
    /\ job' = [job EXCEPT ![j] = NoJob]
    /\ Goto(j, "idle")
    /\ UNCHANGED <<now, bars, ready, owner, reading>>

Die(j) ==
    /\ Kills
    /\ pc[j] \notin {"idle", "busy"}
    /\ Release(j)
    /\ job' = [job EXCEPT ![j] = NoJob]
    /\ Goto(j, "idle")
    /\ UNCHANGED <<now, bars, ready, reading, passed>>

-----------------------------------------------------------------------------
(* Research and time                                                        *)

\* fcntl.flock(LOCK_SH) waits for the writer.
WantSnapshot(r) ==
    /\ reading[r] = "idle"
    /\ reading' = [reading EXCEPT ![r] = "waiting"]
    /\ UNCHANGED <<now, bars, ready, owner, pc, job, passed>>

TakeSnapshot(r) ==
    /\ reading[r] = "waiting"
    /\ owner = None
    /\ reading' = [reading EXCEPT ![r] = "reading"]
    /\ UNCHANGED <<now, bars, ready, owner, pc, job, passed>>

LeaveSnapshot(r) ==
    /\ reading[r] = "reading"
    /\ reading' = [reading EXCEPT ![r] = "idle"]
    /\ UNCHANGED <<now, bars, ready, owner, pc, job, passed>>

Tick ==
    /\ now < MaxEnd
    /\ now' = now + 1
    /\ UNCHANGED <<bars, ready, owner, reading, pc, job, passed>>

-----------------------------------------------------------------------------
Proceed(j) ==
    \/ LeaveBusy(j) \/ ValidateTail(j) \/ Write(j) \/ FetchFails(j) \/ Readback(j)
    \/ NextStream(j) \/ Funding(j) \/ FundingFails(j) \/ WriteReport(j)

Next ==
    \/ \E j \in Jobs :
          \/ \E command \in Commands, end \in 1..MaxEnd, limit \in Limits :
                Start(j, command, end, limit)
          \/ Busy(j) \/ Proceed(j) \/ Die(j)
    \/ \E r \in Readers : WantSnapshot(r) \/ TakeSnapshot(r) \/ LeaveSnapshot(r)
    \/ Tick

Spec == Init /\ [][Next]_vars

\* Jobs that run go on, research ends, and a free lock is granted to one who waits for
\* it in the end.  Nothing starts a job, wants a snapshot or makes time pass.
Fairness ==
    /\ \A j \in Jobs : WF_vars(Proceed(j))
    /\ \A r \in Readers : SF_vars(TakeSnapshot(r)) /\ WF_vars(LeaveSnapshot(r))

FairSpec == Spec /\ Fairness

-----------------------------------------------------------------------------
(* Properties                                                               *)

\* The variables have their types.
TypeOK ==
    /\ now \in 1..MaxEnd
    /\ bars \in [StreamSet -> SUBSET (1..MaxEnd)]
    /\ ready \in 0..MaxEnd
    /\ owner \in Jobs \cup {None}
    /\ reading \in [Readers -> {"idle", "waiting", "reading"}]
    /\ pc \in [Jobs -> {"idle", "busy", "tail", "chunk", "readback", "funding", "report"}]
    /\ job \in [Jobs -> JobType]
    /\ passed \subseteq 1..MaxEnd

\* A PASS report is true and stays true: every stream has every bar up to its boundary,
\* whatever bars the catalog lost in this run or an earlier one and wherever jobs died.
PassMeansComplete ==
    \A e \in passed : \A s \in StreamSet : 1..e \subseteq bars[s]

\* docs/contracts and _hold_data_snapshot_shared, "prevent canonical data sync while one
\* immutable research snapshot is in use": nothing a research process reads changes
\* while it holds the snapshot.
SnapshotStable ==
    [][\A r \in Readers :
         reading[r] = "reading" /\ reading'[r] = "reading" => UNCHANGED <<bars, ready>>]_vars

\* Every job ends, whether it gets the lock or not, and every research process that
\* waits for a snapshot gets it, however often jobs come and go.
JobsEnd       == \A j \in Jobs : ~At(j, "idle") ~> At(j, "idle")
SnapshotGiven == \A r \in Readers : reading[r] = "waiting" ~> reading[r] = "reading"
===============================================================================
