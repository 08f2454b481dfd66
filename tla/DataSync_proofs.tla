---------------------------- MODULE DataSync_proofs ----------------------------
(***************************************************************************)
(* Theorems about DataSync: any number of jobs, readers and streams, any   *)
(* chunk size and any limits, with bars lost and jobs killed.              *)
(***************************************************************************)
EXTENDS DataSync, TLAPS

\* The steps of a job that holds the lock.
Working == {"tail", "chunk", "readback", "funding"}
Steps   == {"idle", "busy", "report"} \cup Working

\* Bars 1..e of a stream are in the catalog.
Whole(s, e) == 1..e \subseteq bars[s]

\* A job that may still end with PASS has found the streams before its own whole.
BehindWhole(j) ==
    pc[j] \in {"tail", "chunk", "readback"} /\ ~job[j].short =>
        \A i \in 1..Len(Streams) : i < job[j].at => Whole(Streams[i], job[j].end)

\* The cursor is what was read: its stream is whole up to it.
CursorWhole(j) ==
    pc[j] \in {"chunk", "readback"} => Whole(Stream(j), job[j].cursor)

\* A sync that comes to the funding without a short stream has only whole ones.
FundingWhole(j) ==
    At(j, "funding") /\ job[j].command = "sync" /\ ~job[j].short =>
        \A s \in StreamSet : Whole(s, job[j].end)

ReportWhole(j) ==
    At(j, "report") /\ job[j].status = "PASS" =>
        \A s \in StreamSet : Whole(s, job[j].end)

WholeInv ==
    /\ PassMeansComplete
    /\ \A j \in Jobs : BehindWhole(j) /\ CursorWhole(j) /\ FundingWhole(j) /\ ReportWhole(j)

\* What is read back is a chunk that was due.
ChunkDue(j) == At(j, "readback") => MoreChunks(j)

TypeInv == TypeOK /\ \A j \in Jobs : ChunkDue(j)

\* A job at work holds the lock, and nobody reads then.
LockInv ==
    /\ \A j \in Jobs : pc[j] \in Working => owner = j
    /\ \A r \in Readers : reading[r] = "reading" => owner = None

-----------------------------------------------------------------------------
(* Types                                                                    *)

LEMMA StreamType ==
    /\ Len(Streams) \in Nat \ {0}
    /\ \A i \in 1..Len(Streams) : Streams[i] \in StreamSet
    /\ \A s \in StreamSet : \E i \in 1..Len(Streams) : s = Streams[i]
<1>1. Streams \in Seq(StreamSet) /\ Streams # <<>>
  BY SyncAssumption
<1>2. Len(Streams) \in Nat /\ DOMAIN Streams = 1..Len(Streams)
  BY <1>1
<1>3. Len(Streams) # 0
  BY <1>1
<1> QED
  BY <1>2, <1>3 DEF StreamSet

LEMMA NoJobType == NoJob \in JobType
BY StreamType, SyncAssumption DEF NoJob, JobType

LEMMA ChunkEndType ==
    ASSUME TypeOK, NEW j \in Jobs, MoreChunks(j)
    PROVE  ChunkEnd(j) \in 0..MaxEnd /\ ChunkEnd(j) > job[j].cursor
<1>1. job[j].cursor \in 0..MaxEnd /\ job[j].end \in 1..MaxEnd
  BY DEF TypeOK, JobType
<1>2. Chunk \in Nat \ {0} /\ MaxEnd \in Nat
  BY SyncAssumption
<1> QED
  BY <1>1, <1>2 DEF ChunkEnd, MoreChunks

LEMMA ResultType ==
    ASSUME TypeOK, NEW j \in Jobs, NEW status \in Statuses
    PROVE  Result(j, status) \in [Jobs -> JobType]
<1>1. job \in [Jobs -> JobType] /\ job[j].end \in 1..MaxEnd
  BY DEF TypeOK, JobType
<1>2. [NoJob EXCEPT !.command = "sync", !.end = job[j].end, !.status = status] \in JobType
  BY <1>1, NoJobType DEF NoJob, JobType
<1> QED
  BY <1>1, <1>2 DEF Result

LEMMA FailType ==
    ASSUME TypeOK, NEW j \in Jobs, Fail(j)
    PROVE  /\ owner' \in Jobs \cup {None}
           /\ pc' \in [Jobs -> Steps]
           /\ job' \in [Jobs -> JobType]
<1>1. "FAIL" \in Statuses
  BY DEF Statuses
<1>2. job' \in [Jobs -> JobType]
  <2>1. PICK status \in Statuses : status = "FAIL"
    BY <1>1
  <2>2. Result(j, "FAIL") \in [Jobs -> JobType]
    BY <2>1, ResultType
  <2>3. [job EXCEPT ![j] = NoJob] \in [Jobs -> JobType]
    BY NoJobType DEF TypeOK
  <2> QED
    BY <2>2, <2>3 DEF Fail
<1> QED
  BY <1>2 DEF Fail, Release, TypeOK, Steps, Working, Goto

LEMMA TypeInit == Init => TypeOK
<1> SUFFICES ASSUME Init PROVE TypeOK
  OBVIOUS
<1>1. job \in [Jobs -> JobType]
  BY NoJobType DEF Init
<1>2. MaxEnd \in Nat \ {0}
  BY SyncAssumption
<1> QED
  BY <1>1, <1>2 DEF Init, TypeOK

LEMMA StartType ==
    ASSUME TypeOK, NEW j \in Jobs, NEW command \in Commands, NEW end \in 1..MaxEnd,
           NEW limit \in Limits, Start(j, command, end, limit)
    PROVE  TypeOK'
<1>1. [NoJob EXCEPT !.command = command, !.end = end, !.limit = limit] \in JobType
  BY NoJobType DEF NoJob, JobType
<1>2. job' \in [Jobs -> JobType]
  BY <1>1 DEF Start, TypeOK
<1>3. pc' \in [Jobs -> Steps]
  BY DEF Start, TypeOK, Goto, Steps, Working
<1> QED
  BY <1>2, <1>3 DEF Start, TypeOK, Steps, Working

LEMMA ValidateTailType ==
    ASSUME TypeOK, NEW j \in Jobs, ValidateTail(j)
    PROVE  TypeOK'
<1>1. CASE Fail(j)
  BY <1>1, FailType DEF TypeOK, ValidateTail, Steps, Working
<1>2. ASSUME NEW bar \in 0..MaxEnd,
             job' = [job EXCEPT ![j].cursor = bar, ![j].chunks = 0],
             Goto(j, "chunk"), UNCHANGED owner
      PROVE  TypeOK'
  <2>1. [job[j] EXCEPT !.cursor = bar, !.chunks = 0] \in JobType
    BY DEF TypeOK, JobType
  <2>2. job' = [job EXCEPT ![j] = [job[j] EXCEPT !.cursor = bar, !.chunks = 0]]
    BY <1>2 DEF TypeOK, JobType
  <2>3. job' \in [Jobs -> JobType]
    BY <2>1, <2>2 DEF TypeOK
  <2> QED
    BY <1>2, <2>3 DEF TypeOK, ValidateTail, Goto
<1> QED
  BY <1>1, <1>2 DEF ValidateTail

LEMMA WriteType ==
    ASSUME TypeOK, NEW j \in Jobs, Write(j)
    PROVE  TypeOK'
<1> DEFINE chunk == (job[j].cursor + 1)..ChunkEnd(j)
<1>1. PICK kept \in SUBSET chunk : bars' = [bars EXCEPT ![Stream(j)] = @ \cup kept]
  BY DEF Write
<1>2. chunk \subseteq 1..MaxEnd
  <2>1. ChunkEnd(j) \in 0..MaxEnd /\ job[j].cursor \in 0..MaxEnd /\ MaxEnd \in Nat
    BY ChunkEndType, SyncAssumption DEF Write, TypeOK, JobType
  <2> QED
    BY <2>1
<1>3. Stream(j) \in StreamSet
  BY StreamType DEF Stream, TypeOK, JobType
<1> HIDE DEF chunk
<1>4. bars' \in [StreamSet -> SUBSET (1..MaxEnd)]
  BY <1>1, <1>2, <1>3 DEF TypeOK
<1> QED
  BY <1>4 DEF TypeOK, Write, Goto

LEMMA ReadbackType ==
    ASSUME TypeOK, NEW j \in Jobs, MoreChunks(j), Readback(j)
    PROVE  TypeOK'
<1>1. CASE Fail(j)
  BY <1>1, FailType DEF TypeOK, Readback, Steps, Working
<1>2. CASE ChunkRead(j)
  <2> DEFINE count == IF job[j].limit = Unlimited THEN job[j].chunks ELSE job[j].chunks + 1
             new   == [job[j] EXCEPT !.cursor = ChunkEnd(j), !.chunks = count]
  <2>1. count \in Nat /\ ChunkEnd(j) \in 0..MaxEnd
    BY ChunkEndType DEF TypeOK, JobType
  <2>2. job' = [job EXCEPT ![j] = new]
    BY <1>2 DEF Readback, TypeOK, JobType
  <2> HIDE DEF count
  <2>3. new \in JobType
    BY <2>1 DEF TypeOK, JobType
  <2> HIDE DEF new
  <2>4. job' \in [Jobs -> JobType]
    BY <2>2, <2>3 DEF TypeOK
  <2> QED
    BY <1>2, <2>4 DEF TypeOK, Readback, Goto
<1> QED
  BY <1>1, <1>2 DEF Readback

LEMMA NextStreamType ==
    ASSUME TypeOK, NEW j \in Jobs, NextStream(j)
    PROVE  TypeOK'
<1>1. Short(j) \in BOOLEAN
  BY DEF Short, TypeOK, JobType
<1>2. CASE job[j].at < Len(Streams)
  <2> DEFINE new == [job[j] EXCEPT !.at = job[j].at + 1, !.short = Short(j)]
  <2>1. job[j].at + 1 \in 1..Len(Streams)
    BY <1>2, StreamType DEF TypeOK, JobType
  <2>2. job' = [job EXCEPT ![j] = new]
    BY <1>2 DEF NextStream, TypeOK, JobType
  <2>3. new \in JobType
    BY <1>1, <2>1 DEF TypeOK, JobType
  <2> HIDE DEF new
  <2>4. job' \in [Jobs -> JobType]
    BY <2>2, <2>3 DEF TypeOK
  <2> QED
    BY <1>2, <2>4 DEF TypeOK, NextStream, Goto
<1>3. CASE ~(job[j].at < Len(Streams))
  <2> DEFINE new == [NoJob EXCEPT !.command = "sync", !.end = job[j].end, !.short = Short(j)]
  <2>1. new \in JobType
    BY <1>1, NoJobType DEF NoJob, TypeOK, JobType
  <2>2. job' = [job EXCEPT ![j] = new]
    BY <1>3 DEF NextStream
  <2> HIDE DEF new
  <2>3. job' \in [Jobs -> JobType]
    BY <2>1, <2>2 DEF TypeOK
  <2> QED
    BY <1>3, <2>3 DEF TypeOK, NextStream, Goto
<1> QED
  BY <1>2, <1>3

LEMMA FundingType ==
    ASSUME TypeOK, NEW j \in Jobs, Funding(j) \/ FundingFails(j)
    PROVE  TypeOK'
<1>1. ready' \in 0..MaxEnd
  <2>1. job[j].end \in 1..MaxEnd /\ MaxEnd \in Nat
    BY SyncAssumption DEF TypeOK, JobType
  <2> QED
    BY <2>1 DEF Funding, FundingFails, TypeOK
<1>2. CASE Funding(j)
  <2>1. \A status \in Statuses : Result(j, status) \in [Jobs -> JobType]
    BY ResultType
  <2>2. (IF job[j].short THEN "PARTIAL" ELSE "PASS") \in Statuses
    BY DEF Statuses
  <2>3. [job EXCEPT ![j] = NoJob] \in [Jobs -> JobType]
    BY NoJobType DEF TypeOK
  <2>4. job' \in [Jobs -> JobType]
    BY <1>2, <2>1, <2>2, <2>3 DEF Funding
  <2> QED
    BY <1>1, <1>2, <2>4 DEF TypeOK, Funding, Release, Goto
<1>3. CASE FundingFails(j)
  BY <1>1, <1>3, FailType DEF TypeOK, FundingFails, Steps, Working
<1> QED
  BY <1>2, <1>3

\* Steps that end a job or leave it as it is.
LEMMA PlainType ==
    ASSUME TypeOK, NEW j \in Jobs,
           Busy(j) \/ LeaveBusy(j) \/ FetchFails(j) \/ WriteReport(j) \/ Die(j)
    PROVE  TypeOK'
<1>1. [job EXCEPT ![j] = NoJob] \in [Jobs -> JobType]
  BY NoJobType DEF TypeOK
<1>2. CASE Busy(j) \/ LeaveBusy(j)
  BY <1>2 DEF Busy, LeaveBusy, Goto, TypeOK
<1>3. CASE FetchFails(j)
  BY <1>3, FailType DEF FetchFails, TypeOK, Steps, Working
<1>4. CASE WriteReport(j)
  <2>1. job[j].end \in 1..MaxEnd
    BY DEF TypeOK, JobType
  <2> QED
    BY <1>1, <1>4, <2>1 DEF WriteReport, Goto, TypeOK
<1>5. CASE Die(j)
  BY <1>1, <1>5 DEF Die, Release, Goto, TypeOK
<1> QED
  BY <1>2, <1>3, <1>4, <1>5

LEMMA OthersType ==
    ASSUME TypeOK,
           \/ \E r \in Readers : WantSnapshot(r) \/ TakeSnapshot(r) \/ LeaveSnapshot(r)
           \/ Tick \/ UNCHANGED vars
    PROVE  TypeOK'
<1>1. CASE Tick
  BY <1>1, SyncAssumption DEF Tick, TypeOK
<1>2. CASE UNCHANGED vars
  BY <1>2 DEF vars, TypeOK
<1>3. ASSUME NEW r \in Readers, WantSnapshot(r) \/ TakeSnapshot(r) \/ LeaveSnapshot(r)
      PROVE  TypeOK'
  BY <1>3 DEF WantSnapshot, TakeSnapshot, LeaveSnapshot, TypeOK
<1> QED
  BY <1>1, <1>2, <1>3

-----------------------------------------------------------------------------
(* The frame: what a step of one job leaves of the others                   *)

\* A step of a job, or of a reader or the clock (none of the jobs), with its effect.
LEMMA StepFrame ==
    ASSUME TypeOK, NEW j \in Jobs,
           \/ \E command \in Commands, end \in 1..MaxEnd, limit \in Limits :
                 Start(j, command, end, limit)
           \/ Busy(j) \/ Proceed(j) \/ Die(j)
    PROVE  \A k \in Jobs \ {j} : pc'[k] = pc[k] /\ job'[k] = job[k]
BY DEF TypeOK, Start, Busy, Proceed, LeaveBusy, ValidateTail, Write, FetchFails, Readback,
   NextStream, Funding, FundingFails, WriteReport, Die, Fail, Result, Goto

\* A job that fails comes to its report or ends.
LEMMA FailPlace ==
    ASSUME TypeOK, NEW j \in Jobs, Fail(j)
    PROVE  /\ pc'[j] \in {"report", "idle"}
           /\ pc'[j] = "report" => job'[j].status = "FAIL"
BY DEF Fail, Result, NoJob, Goto, TypeOK

\* The catalog only grows.
LEMMA BarsGrow ==
    ASSUME TypeOK, [Next]_vars
    PROVE  \A s \in StreamSet : bars[s] \subseteq bars'[s]
<1>1. CASE UNCHANGED bars
  BY <1>1
<1>2. ASSUME NEW j \in Jobs, Write(j)
      PROVE  \A s \in StreamSet : bars[s] \subseteq bars'[s]
  <2> DEFINE chunk == (job[j].cursor + 1)..ChunkEnd(j)
  <2>1. PICK kept \in SUBSET chunk : bars' = [bars EXCEPT ![Stream(j)] = @ \cup kept]
    BY <1>2 DEF Write
  <2> QED
    BY <2>1 DEF TypeOK
<1> QED
  BY <1>1, <1>2 DEF Next, vars, Start, Busy, Proceed, LeaveBusy, ValidateTail, FetchFails,
     Readback, NextStream, Funding, FundingFails, WriteReport, Die, WantSnapshot, TakeSnapshot,
     LeaveSnapshot, Tick

-----------------------------------------------------------------------------
(* The type invariant                                                       *)

LEMMA TypeNext ==
    ASSUME TypeInv, [Next]_vars
    PROVE  TypeInv'
<1>1. TypeOK'
  <2>1. ASSUME NEW j \in Jobs, Proceed(j)
        PROVE  TypeOK'
    <3>1. CASE Readback(j)
      <4>1. MoreChunks(j)
        BY <3>1 DEF TypeInv, ChunkDue, Readback
      <4> QED
        BY <3>1, <4>1, ReadbackType DEF TypeInv
    <3> QED
      BY <2>1, <3>1, PlainType, ValidateTailType, WriteType, NextStreamType, FundingType
         DEF TypeInv, Proceed
  <2> QED
    BY <2>1, StartType, PlainType, OthersType DEF TypeInv, Next
<1>2. ASSUME NEW k \in Jobs
      PROVE  ChunkDue(k)'
  <2>1. CASE pc'[k] = pc[k] /\ job'[k] = job[k]
    BY <2>1 DEF TypeInv, ChunkDue, At, MoreChunks
  <2>2. ASSUME \E command \in Commands, end \in 1..MaxEnd, limit \in Limits :
                  Start(k, command, end, limit)
        PROVE  ChunkDue(k)'
    BY <2>2 DEF TypeInv, TypeOK, ChunkDue, At, Start, Goto
  <2>3. CASE Write(k)
    BY <2>3 DEF TypeInv, TypeOK, ChunkDue, At, Write, Goto, MoreChunks
  <2>4. ASSUME Fail(k)
        PROVE  ChunkDue(k)'
    BY <2>4, FailPlace DEF TypeInv, ChunkDue, At
  <2>5. CASE Busy(k) \/ LeaveBusy(k) \/ ValidateTail(k) \/ FetchFails(k) \/ Readback(k)
             \/ NextStream(k) \/ Funding(k) \/ FundingFails(k) \/ WriteReport(k) \/ Die(k)
    BY <2>4, <2>5 DEF TypeInv, TypeOK, ChunkDue, At, Goto, Busy, LeaveBusy, ValidateTail,
       FetchFails, Readback, NextStream, Funding, FundingFails, WriteReport, Die
  <2>6. ASSUME NEW j \in Jobs \ {k},
               \/ \E command \in Commands, end \in 1..MaxEnd, limit \in Limits :
                     Start(j, command, end, limit)
               \/ Busy(j) \/ Proceed(j) \/ Die(j)
        PROVE  pc'[k] = pc[k] /\ job'[k] = job[k]
    BY <2>6, StepFrame DEF TypeInv
  <2>7. ASSUME \/ \E r \in Readers : WantSnapshot(r) \/ TakeSnapshot(r) \/ LeaveSnapshot(r)
               \/ Tick \/ UNCHANGED vars
        PROVE  pc'[k] = pc[k] /\ job'[k] = job[k]
    BY <2>7 DEF WantSnapshot, TakeSnapshot, LeaveSnapshot, Tick, vars
  <2> QED
    BY <2>1, <2>2, <2>3, <2>5, <2>6, <2>7 DEF Next, Proceed
<1> QED
  BY <1>1, <1>2 DEF TypeInv

LEMMA TypeAlways == Spec => []TypeInv
<1>1. Init => TypeInv
  BY TypeInit DEF Init, TypeInv, ChunkDue, At
<1> QED
  BY <1>1, TypeNext, PTL DEF Spec

\* The variables have their types, for every number of jobs, readers and streams.
THEOREM TypeCorrect == Spec => []TypeOK
<1>1. TypeInv => TypeOK
  BY DEF TypeInv
<1> QED
  BY <1>1, TypeAlways, PTL

-----------------------------------------------------------------------------
(* A PASS is about whole streams                                            *)

\* What a whole stream says stays true.
LEMMA WholeStays ==
    ASSUME TypeOK, [Next]_vars, NEW s \in StreamSet, NEW e, Whole(s, e)
    PROVE  Whole(s, e)'
BY BarsGrow DEF Whole

\* The claims about a job that did not move.
LEMMA UnmovedWhole ==
    ASSUME TypeInv, WholeInv, [Next]_vars, NEW k \in Jobs,
           pc'[k] = pc[k], job'[k] = job[k]
    PROVE  (BehindWhole(k) /\ CursorWhole(k) /\ FundingWhole(k) /\ ReportWhole(k))'
<1>1. job[k].at \in 1..Len(Streams)
  BY DEF TypeInv, TypeOK, JobType
<1>2. \A i \in 1..Len(Streams) : Streams[i] \in StreamSet
  BY StreamType
<1>3. \A s \in StreamSet : \A e : Whole(s, e) => Whole(s, e)'
  BY WholeStays DEF TypeInv
<1>4. BehindWhole(k)'
  BY <1>2, <1>3 DEF WholeInv, BehindWhole
<1>5. CursorWhole(k)'
  BY <1>1, <1>2, <1>3 DEF WholeInv, CursorWhole, Stream
<1>6. FundingWhole(k)' /\ ReportWhole(k)'
  BY <1>3 DEF WholeInv, FundingWhole, ReportWhole, At
<1> QED
  BY <1>4, <1>5, <1>6

\* The claims that matter at the place a job has come to.
LEMMA StartWhole ==
    ASSUME TypeInv, WholeInv, NEW k \in Jobs, NEW command \in Commands, NEW end \in 1..MaxEnd,
           NEW limit \in Limits, Start(k, command, end, limit)
    PROVE  (BehindWhole(k) /\ CursorWhole(k) /\ FundingWhole(k) /\ ReportWhole(k))'
<1> DEFINE new == [NoJob EXCEPT !.command = command, !.end = end, !.limit = limit]
<1>1. job'[k] = new /\ pc'[k] = IF command = "sync" THEN "tail" ELSE "funding"
  BY DEF Start, Goto, TypeInv, TypeOK
<1>2. new.at = 1 /\ new.command = command
  BY DEF NoJob
<1> HIDE DEF new
<1>3. BehindWhole(k)'
  BY <1>1, <1>2, StreamType DEF BehindWhole
<1>4. CursorWhole(k)' /\ FundingWhole(k)' /\ ReportWhole(k)'
  BY <1>1, <1>2 DEF CursorWhole, FundingWhole, ReportWhole, At
<1> QED
  BY <1>3, <1>4

LEMMA ValidateTailWhole ==
    ASSUME TypeInv, WholeInv, [Next]_vars, NEW k \in Jobs, NEW bar \in 0..MaxEnd,
           At(k, "tail"), TailIs(Stream(k), bar), UNCHANGED bars,
           job' = [job EXCEPT ![k].cursor = bar, ![k].chunks = 0], Goto(k, "chunk")
    PROVE  (BehindWhole(k) /\ CursorWhole(k) /\ FundingWhole(k) /\ ReportWhole(k))'
<1>1. /\ pc'[k] = "chunk" /\ job'[k].cursor = bar /\ job'[k].at = job[k].at
      /\ job'[k].end = job[k].end /\ job'[k].short = job[k].short
  BY DEF Goto, TypeInv, TypeOK, JobType
<1>2. BehindWhole(k)'
  BY <1>1 DEF WholeInv, BehindWhole, At, Whole
<1>3. CursorWhole(k)'
  BY <1>1 DEF CursorWhole, Whole, Stream, TailIs
<1> QED
  BY <1>1, <1>2, <1>3 DEF FundingWhole, ReportWhole, At

LEMMA WriteWhole ==
    ASSUME TypeInv, WholeInv, [Next]_vars, NEW k \in Jobs, Write(k)
    PROVE  (BehindWhole(k) /\ CursorWhole(k) /\ FundingWhole(k) /\ ReportWhole(k))'
<1>1. pc[k] = "chunk" /\ pc'[k] = "readback" /\ job'[k] = job[k]
  BY DEF Write, At, Goto, TypeInv, TypeOK
<1>2. job[k].at \in 1..Len(Streams)
  BY DEF TypeInv, TypeOK, JobType
<1>3. \A i \in 1..Len(Streams) : Streams[i] \in StreamSet
  BY StreamType
<1>4. \A s \in StreamSet : \A e : Whole(s, e) => Whole(s, e)'
  BY WholeStays DEF TypeInv
<1> QED
  BY <1>1, <1>2, <1>3, <1>4
     DEF WholeInv, BehindWhole, CursorWhole, FundingWhole, ReportWhole, At, Stream

\* A chunk that was read back continues what was whole.
LEMMA ReadbackWhole ==
    ASSUME TypeInv, WholeInv, [Next]_vars, NEW k \in Jobs, Readback(k), ChunkRead(k)
    PROVE  (BehindWhole(k) /\ CursorWhole(k) /\ FundingWhole(k) /\ ReportWhole(k))'
<1>1. /\ pc[k] = "readback" /\ pc'[k] = "chunk" /\ bars' = bars
      /\ job'[k].cursor = ChunkEnd(k) /\ job'[k].at = job[k].at
      /\ job'[k].end = job[k].end /\ job'[k].short = job[k].short
  BY DEF Readback, At, Goto, TypeInv, TypeOK, JobType
<1>2. Whole(Stream(k), ChunkEnd(k))
  <2>1. 1..job[k].cursor \subseteq bars[Stream(k)]
    BY <1>1 DEF WholeInv, CursorWhole, Whole
  <2>2. (job[k].cursor + 1)..ChunkEnd(k) \subseteq bars[Stream(k)]
    BY DEF ChunkRead
  <2>3. job[k].cursor \in Nat /\ ChunkEnd(k) \in Nat
    <3>1. MoreChunks(k)
      BY <1>1 DEF TypeInv, ChunkDue, At
    <3> QED
      BY <3>1, ChunkEndType DEF TypeInv, TypeOK, JobType
  <2>4. 1..ChunkEnd(k) \subseteq 1..job[k].cursor \cup (job[k].cursor + 1)..ChunkEnd(k)
    BY <2>3
  <2> QED
    BY <2>1, <2>2, <2>4 DEF Whole
<1>3. BehindWhole(k)'
  BY <1>1 DEF WholeInv, BehindWhole, Whole
<1>4. CursorWhole(k)'
  BY <1>1, <1>2 DEF CursorWhole, Whole, Stream
<1> QED
  BY <1>1, <1>3, <1>4 DEF FundingWhole, ReportWhole, At

\* A stream that is left without being short is whole; so are all at the last one.
LEMMA NextStreamWhole ==
    ASSUME TypeInv, WholeInv, [Next]_vars, NEW k \in Jobs, NextStream(k)
    PROVE  (BehindWhole(k) /\ CursorWhole(k) /\ FundingWhole(k) /\ ReportWhole(k))'
<1>1. pc[k] = "chunk" /\ bars' = bars
  BY DEF NextStream, At
<1>2. /\ job[k].at \in 1..Len(Streams) /\ job[k].cursor \in Nat /\ job[k].end \in Nat
      /\ job[k].short \in BOOLEAN
  BY DEF TypeInv, TypeOK, JobType
<1>3. ~Short(k) => \A i \in 1..Len(Streams) : i <= job[k].at => Whole(Streams[i], job[k].end)
  <2> SUFFICES ASSUME ~Short(k), NEW i \in 1..Len(Streams), i <= job[k].at
               PROVE  Whole(Streams[i], job[k].end)
    OBVIOUS
  <2>1. ~job[k].short /\ job[k].end <= job[k].cursor
    BY <1>2 DEF Short
  <2>2. CASE i < job[k].at
    BY <1>1, <2>1, <2>2 DEF WholeInv, BehindWhole
  <2>3. CASE i = job[k].at
    <3>1. 1..job[k].cursor \subseteq bars[Streams[i]]
      BY <1>1, <2>3 DEF WholeInv, CursorWhole, Whole, Stream
    <3>2. 1..job[k].end \subseteq 1..job[k].cursor
      BY <1>2, <2>1
    <3> QED
      BY <3>1, <3>2 DEF Whole
  <2> QED
    BY <1>2, <2>2, <2>3
<1>4. CASE job[k].at < Len(Streams)
  <2>1. /\ pc'[k] = "tail" /\ job'[k].at = job[k].at + 1 /\ job'[k].end = job[k].end
        /\ job'[k].short = Short(k)
    BY <1>4 DEF NextStream, Goto, TypeInv, TypeOK, JobType
  <2>2. BehindWhole(k)'
    BY <1>1, <1>2, <1>3, <2>1 DEF BehindWhole, Whole
  <2> QED
    BY <2>1, <2>2 DEF CursorWhole, FundingWhole, ReportWhole, At
<1>5. CASE ~(job[k].at < Len(Streams))
  <2>1. pc'[k] = "funding" /\ job'[k].end = job[k].end /\ job'[k].short = Short(k)
    BY <1>5 DEF NextStream, Goto, NoJob, TypeInv, TypeOK
  <2>2. job[k].at = Len(Streams)
    BY <1>2, <1>5, StreamType
  <2>3. FundingWhole(k)'
    <3>1. \A s \in StreamSet : \E i \in 1..Len(Streams) : s = Streams[i] /\ i <= job[k].at
      BY <2>2, StreamType
    <3> QED
      BY <1>1, <1>3, <2>1, <3>1 DEF FundingWhole, Whole
  <2> QED
    BY <2>1, <2>3 DEF BehindWhole, CursorWhole, ReportWhole, At
<1> QED
  BY <1>4, <1>5

\* Only a sync without a short stream reports PASS.
LEMMA FundingDoneWhole ==
    ASSUME TypeInv, WholeInv, [Next]_vars, NEW k \in Jobs, Funding(k)
    PROVE  (BehindWhole(k) /\ CursorWhole(k) /\ FundingWhole(k) /\ ReportWhole(k))'
<1>1. pc[k] = "funding" /\ bars' = bars
  BY DEF Funding, At
<1>2. CASE job[k].command = "sync"
  <2>1. /\ pc'[k] = "report" /\ job'[k].end = job[k].end
        /\ job'[k].status = "PASS" => ~job[k].short
    <3> DEFINE status == IF job[k].short THEN "PARTIAL" ELSE "PASS"
    <3>1. job' = [job EXCEPT ![k] = [NoJob EXCEPT !.command = "sync", !.end = job[k].end,
                                                  !.status = status]]
      BY <1>2 DEF Funding, Result
    <3>2. status = "PASS" => ~job[k].short
      BY DEF TypeInv, TypeOK, JobType
    <3> HIDE DEF status
    <3>3. job'[k].end = job[k].end /\ job'[k].status = status
      BY <3>1 DEF NoJob, TypeInv, TypeOK
    <3>4. pc'[k] = "report"
      BY <1>2 DEF Funding, Goto, TypeInv, TypeOK
    <3> QED
      BY <3>2, <3>3, <3>4
  <2> QED
    BY <1>1, <1>2, <2>1
       DEF WholeInv, BehindWhole, CursorWhole, FundingWhole, ReportWhole, At, Whole
<1>3. CASE job[k].command # "sync"
  <2>1. pc'[k] = "idle"
    BY <1>3 DEF Funding, Goto, TypeInv, TypeOK
  <2> QED
    BY <2>1 DEF BehindWhole, CursorWhole, FundingWhole, ReportWhole, At
<1> QED
  BY <1>2, <1>3

LEMMA FailWhole ==
    ASSUME TypeInv, NEW k \in Jobs, Fail(k)
    PROVE  (BehindWhole(k) /\ CursorWhole(k) /\ FundingWhole(k) /\ ReportWhole(k))'
BY FailPlace DEF TypeInv, BehindWhole, CursorWhole, FundingWhole, ReportWhole, At

LEMMA IdleWhole ==
    ASSUME TypeInv, NEW k \in Jobs, Busy(k) \/ LeaveBusy(k) \/ WriteReport(k) \/ Die(k)
    PROVE  (BehindWhole(k) /\ CursorWhole(k) /\ FundingWhole(k) /\ ReportWhole(k))'
<1>1. pc'[k] \in {"busy", "idle"}
  BY DEF Busy, LeaveBusy, WriteReport, Die, Goto, TypeInv, TypeOK
<1> QED
  BY <1>1 DEF BehindWhole, CursorWhole, FundingWhole, ReportWhole, At

\* A report that is written is about whole streams, and stays so.
LEMMA PassedWhole ==
    ASSUME TypeInv, WholeInv, [Next]_vars
    PROVE  PassMeansComplete'
<1>1. \A s \in StreamSet : \A e : Whole(s, e) => Whole(s, e)'
  BY WholeStays DEF TypeInv
<1>2. \A e \in passed : \A s \in StreamSet : Whole(s, e)
  BY DEF WholeInv, PassMeansComplete, Whole
<1>3. \A e \in passed' : e \in passed \/ \A s \in StreamSet : Whole(s, e)
  <2>1. CASE UNCHANGED passed
    BY <2>1
  <2>2. ASSUME NEW j \in Jobs, WriteReport(j)
        PROVE  \A e \in passed' : e \in passed \/ \A s \in StreamSet : Whole(s, e)
    BY <2>2 DEF WriteReport, WholeInv, ReportWhole
  <2> QED
    BY <2>1, <2>2 DEF Next, vars, Start, Busy, Proceed, LeaveBusy, ValidateTail, Write,
       FetchFails, Readback, NextStream, Funding, FundingFails, Die, WantSnapshot,
       TakeSnapshot, LeaveSnapshot, Tick
<1>4. \A e \in passed' : \A s \in StreamSet : Whole(s, e)'
  BY <1>1, <1>2, <1>3
<1> QED
  BY <1>4 DEF PassMeansComplete, Whole

LEMMA WholeNext ==
    ASSUME TypeInv, WholeInv, [Next]_vars
    PROVE  WholeInv'
<1>1. ASSUME NEW k \in Jobs
      PROVE  (BehindWhole(k) /\ CursorWhole(k) /\ FundingWhole(k) /\ ReportWhole(k))'
  <2> DEFINE Goal == (BehindWhole(k) /\ CursorWhole(k) /\ FundingWhole(k) /\ ReportWhole(k))'
  <2>1. ASSUME \E command \in Commands, end \in 1..MaxEnd, limit \in Limits :
                  Start(k, command, end, limit)
        PROVE  Goal
    BY <2>1, StartWhole
  <2>2. ASSUME ValidateTail(k)
        PROVE  Goal
    BY <2>2, ValidateTailWhole, FailWhole DEF ValidateTail
  <2>3. ASSUME Readback(k)
        PROVE  Goal
    BY <2>3, ReadbackWhole, FailWhole DEF Readback
  <2>4. ASSUME FetchFails(k) \/ FundingFails(k)
        PROVE  Goal
    BY <2>4, FailWhole DEF FetchFails, FundingFails
  <2>5. ASSUME pc'[k] = pc[k], job'[k] = job[k]
        PROVE  Goal
    BY <2>5, UnmovedWhole
  <2>6. ASSUME NEW j \in Jobs \ {k},
               \/ \E command \in Commands, end \in 1..MaxEnd, limit \in Limits :
                     Start(j, command, end, limit)
               \/ Busy(j) \/ Proceed(j) \/ Die(j)
        PROVE  pc'[k] = pc[k] /\ job'[k] = job[k]
    BY <2>6, StepFrame DEF TypeInv
  <2>7. ASSUME \/ \E r \in Readers : WantSnapshot(r) \/ TakeSnapshot(r) \/ LeaveSnapshot(r)
               \/ Tick \/ UNCHANGED vars
        PROVE  pc'[k] = pc[k] /\ job'[k] = job[k]
    BY <2>7 DEF WantSnapshot, TakeSnapshot, LeaveSnapshot, Tick, vars
  <2>8. ASSUME \/ Write(k) \/ NextStream(k) \/ Funding(k) \/ Busy(k) \/ LeaveBusy(k)
               \/ WriteReport(k) \/ Die(k)
        PROVE  Goal
    BY <2>8, WriteWhole, NextStreamWhole, FundingDoneWhole, IdleWhole
  <2> HIDE DEF Goal
  <2>9. ASSUME NEW j \in Jobs,
               \/ \E command \in Commands, end \in 1..MaxEnd, limit \in Limits :
                     Start(j, command, end, limit)
               \/ Busy(j) \/ Proceed(j) \/ Die(j)
        PROVE  Goal
    <3>1. CASE j = k
      <4>1. CASE \E command \in Commands, end \in 1..MaxEnd, limit \in Limits :
                    Start(j, command, end, limit)
        BY <2>1, <3>1, <4>1
      <4>2. CASE Busy(j) \/ Proceed(j) \/ Die(j)
        BY <2>2, <2>3, <2>4, <2>8, <3>1, <4>2 DEF Proceed
      <4> QED
        BY <2>9, <4>1, <4>2
    <3>2. CASE j # k
      BY <2>5, <2>6, <2>9, <3>2
    <3> QED
      BY <3>1, <3>2
  <2>10. Goal
    BY <2>5, <2>7, <2>9 DEF Next
  <2> QED
    BY <2>10 DEF Goal
<1> QED
  BY <1>1, PassedWhole DEF WholeInv

\* A PASS report is true and stays true: no stream has a hole before its boundary,
\* whatever bars the catalog loses and wherever jobs die.
THEOREM PassIsComplete == Spec => []PassMeansComplete
<1>1. Init => WholeInv
  BY DEF Init, WholeInv, PassMeansComplete, BehindWhole, CursorWhole, FundingWhole,
     ReportWhole, At
<1>2. TypeInv /\ WholeInv /\ [Next]_vars => WholeInv'
  BY WholeNext
<1>3. WholeInv => PassMeansComplete
  BY DEF WholeInv
<1> QED
  BY <1>1, <1>2, <1>3, TypeAlways, PTL DEF Spec

-----------------------------------------------------------------------------
(* The lock                                                                 *)

LEMMA LockNext ==
    ASSUME TypeInv, LockInv, [Next]_vars
    PROVE  LockInv'
<1>1. ASSUME NEW j \in Jobs, NEW command \in Commands, NEW end \in 1..MaxEnd,
             NEW limit \in Limits, Start(j, command, end, limit)
      PROVE  LockInv'
  BY <1>1, SyncAssumption DEF Start, LockFree, Goto, At, LockInv, Working, TypeInv, TypeOK
<1>2. ASSUME NEW j \in Jobs, Release(j), pc[j] \notin {"idle", "busy"},
             pc'[j] \in {"idle", "report"}, UNCHANGED reading,
             \A k \in Jobs \ {j} : pc'[k] = pc[k]
      PROVE  LockInv'
  BY <1>2, SyncAssumption DEF Release, LockInv, Working
<1>3. ASSUME NEW j \in Jobs, UNCHANGED <<owner, reading>>,
             pc'[j] \in Working => pc[j] \in Working,
             \A k \in Jobs \ {j} : pc'[k] = pc[k]
      PROVE  LockInv'
  BY <1>3 DEF LockInv
<1>4. ASSUME NEW j \in Jobs, Fail(j), pc[j] \in Working, UNCHANGED reading
      PROVE  LockInv'
  BY <1>2, <1>4 DEF Fail, Goto, TypeInv, TypeOK, Working
<1>5. ASSUME NEW j \in Jobs, Busy(j) \/ LeaveBusy(j) \/ Write(j) \/ NextStream(j) \/ WriteReport(j)
      PROVE  LockInv'
  <2>1. \A k \in Jobs \ {j} : pc'[k] = pc[k]
    BY <1>5, StepFrame DEF TypeInv, Proceed
  <2>2. UNCHANGED <<owner, reading>> /\ (pc'[j] \in Working => pc[j] \in Working)
    BY <1>5 DEF Busy, LeaveBusy, Write, NextStream, WriteReport, Goto, At, Working, TypeInv, TypeOK
  <2> QED
    BY <1>3, <2>1, <2>2
<1>6. ASSUME NEW j \in Jobs, ValidateTail(j) \/ Readback(j)
      PROVE  LockInv'
  <2>1. CASE Fail(j)
    BY <1>4, <1>6, <2>1 DEF ValidateTail, Readback, At, Working
  <2>2. CASE UNCHANGED owner /\ Goto(j, "chunk")
    <3>1. \A k \in Jobs \ {j} : pc'[k] = pc[k]
      BY <2>2 DEF Goto, TypeInv, TypeOK
    <3>2. UNCHANGED reading /\ pc[j] \in Working
      BY <1>6 DEF ValidateTail, Readback, At, Working
    <3> QED
      BY <1>3, <2>2, <3>1, <3>2
  <2> QED
    BY <1>6, <2>1, <2>2 DEF ValidateTail, Readback
<1>7. ASSUME NEW j \in Jobs, FetchFails(j) \/ FundingFails(j)
      PROVE  LockInv'
  BY <1>4, <1>7 DEF FetchFails, FundingFails, At, Working
<1>8. ASSUME NEW j \in Jobs, Funding(j) \/ Die(j)
      PROVE  LockInv'
  <2>1. \A k \in Jobs \ {j} : pc'[k] = pc[k]
    BY <1>8, StepFrame DEF TypeInv, Proceed
  <2>2. Release(j) /\ pc[j] \notin {"idle", "busy"} /\ pc'[j] \in {"idle", "report"}
        /\ UNCHANGED reading
    BY <1>8 DEF Funding, Die, Goto, At, TypeInv, TypeOK
  <2> QED
    BY <1>2, <2>1, <2>2
<1>9. CASE \/ \E r \in Readers : WantSnapshot(r) \/ TakeSnapshot(r) \/ LeaveSnapshot(r)
           \/ Tick \/ UNCHANGED vars
  BY <1>9 DEF WantSnapshot, TakeSnapshot, LeaveSnapshot, Tick, vars, LockInv, TypeInv, TypeOK
<1> QED
  BY <1>1, <1>5, <1>6, <1>7, <1>8, <1>9 DEF Next, Proceed

LEMMA LockAlways == Spec => []LockInv
<1>1. Init => LockInv
  BY DEF Init, LockInv, Working
<1>2. TypeInv /\ LockInv /\ [Next]_vars => LockInv'
  BY LockNext
<1> QED
  BY <1>1, <1>2, TypeAlways, PTL DEF Spec

\* Neither the catalog nor the funding changes under a research process that reads.
THEOREM SnapshotsHold == Spec => SnapshotStable
<1> DEFINE Stable == \A r \in Readers :
                        reading[r] = "reading" /\ reading'[r] = "reading"
                            => UNCHANGED <<bars, ready>>
<1>1. ASSUME LockInv, [Next]_vars
      PROVE  Stable
  <2>1. CASE UNCHANGED <<bars, ready>>
    BY <2>1
  <2>2. ASSUME NEW j \in Jobs, Write(j) \/ Funding(j) \/ FundingFails(j)
        PROVE  Stable
    <3>1. owner = j /\ owner # None
      BY <1>1, <2>2, SyncAssumption DEF LockInv, Write, Funding, FundingFails, At, Working
    <3> QED
      BY <1>1, <3>1 DEF LockInv
  <2> HIDE DEF Stable
  <2> QED
    BY <1>1, <2>1, <2>2 DEF Next, vars, Start, Busy, Proceed, LeaveBusy, ValidateTail,
       FetchFails, Readback, NextStream, WriteReport, Die, WantSnapshot, TakeSnapshot,
       LeaveSnapshot, Tick
<1>2. ASSUME LockInv, [Next]_vars
      PROVE  [Stable]_vars
  BY <1>1, <1>2
<1> QED
  <2>1. LockInv /\ [Next]_vars => [Stable]_vars
    BY <1>2
  <2> QED
    BY <2>1, LockAlways, PTL DEF Spec, SnapshotStable
================================================================================
