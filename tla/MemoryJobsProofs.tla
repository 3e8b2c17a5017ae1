------------------------- MODULE MemoryJobsProofs ---------------------------
(***************************************************************************)
(* What claims, leases and watermarks of the memory pipeline guarantee,    *)
(* for any number of threads, workers, retries and faults.  The watermark  *)
(* of the global job is ahead of everything that was written, and a run    *)
(* that missed a change is overtaken by it: that is what makes the job     *)
(* dirty when the run succeeds.                                            *)
(***************************************************************************)
EXTENDS MemoryJobs, FiniteSetTheorems, TLAPS

(* A job that runs can still fail once.                                    *)
Retriable(job) == job # NoJob /\ job.status = "running" => job.retries > 0

RetriesLeft == Retriable(phase2) /\ \A t \in Threads : Retriable(stage1[t])

(* Nothing was consolidated or written beyond the watermark.               *)
WatermarkAhead ==
    /\ phase2 # NoJob => phase2.success <= phase2.input
    /\ \A t \in Threads : output[t] # 0 =>
          phase2 # NoJob /\ output[t] <= phase2.input

(* What the run that owns the job claimed, and what it missed.             *)
RunBehind(w) ==
    run[w].step # "idle" /\ Owns(phase2, w) =>
        /\ run[w].watermark <= phase2.input
        /\ run[w].since # {} =>
              Dirty /\ run[w].watermark < phase2.input

JobsInv ==
    /\ NoLostWork
    /\ BaselineIsOneRun
    /\ RetriesLeft
    /\ WatermarkAhead
    /\ \A w \in Workers : RunBehind(w)

-----------------------------------------------------------------------------
(* Lemmas about the statements.                                            *)

(* The rows the statements write are rows.                                 *)
LEMMA JobRows ==
    ASSUME NEW job \in Job
    PROVE  /\ \A s \in {"pending", "running"}, b \in BOOLEAN, r \in 0..Retries, i \in Nat :
                [job EXCEPT !.status = s, !.backoff = b, !.retries = r, !.input = i] \in Job
           /\ \A b \in BOOLEAN : [job EXCEPT !.leased = b] \in Job
           /\ [job EXCEPT !.backoff = FALSE] \in Job
           /\ \A i \in Nat : [job EXCEPT !.status = "done", !.leased = FALSE,
                                         !.success = i] \in Job
           /\ \A w \in Workers : [job EXCEPT !.status = "running", !.owner = w,
                                     !.leased = TRUE, !.backoff = FALSE] \in Job
BY DEF Job

LEMMA NewRows ==
    ASSUME NEW x \in Nat, NEW y \in Nat, NEW r \in 0..Retries
    PROVE  /\ [status |-> "pending", owner |-> None, leased |-> FALSE,
               backoff |-> FALSE, retries |-> Retries, input |-> x, success |-> 0] \in Job
           /\ \A w \in Workers :
                 [status |-> "running", owner |-> w, leased |-> TRUE, backoff |-> FALSE,
                  retries |-> r, input |-> x, success |-> y] \in Job
BY JobsAssumption DEF Job

(* A failure of a job that runs uses up a retry.                           *)
LEMMA FailedIsJob ==
    ASSUME NEW job \in Job, job.retries > 0
    PROVE  /\ Failed(job) \in Job /\ Failed(job).status = "error"
           /\ Failed(job).input = job.input /\ Failed(job).success = job.success
<1>1. job.retries - 1 \in 0..Retries
    BY JobsAssumption DEF Job
<1>2. \A r \in 0..Retries : [job EXCEPT !.status = "error", !.leased = FALSE,
                              !.backoff = TRUE, !.retries = r] \in Job
    BY DEF Job
<1>3. Failed(job) \in Job
    BY <1>1, <1>2 DEF Failed
<1> QED
    BY <1>3 DEF Failed, Job

(* Every enqueue leaves a dirty job and moves its watermark.               *)
LEMMA EnqueueMoves ==
    ASSUME TypeOK, WatermarkAhead, RetriesLeft, NEW x \in Nat,
           x > 0 \/ phase2 # NoJob, Enqueue(x)
    PROVE  /\ phase2' \in Job /\ Dirty' /\ Retriable(phase2')
           /\ phase2'.success <= phase2'.input /\ x <= phase2'.input
           /\ phase2 # NoJob => phase2.input < phase2'.input
           /\ \A w \in Workers : Owns(phase2', w) => Owns(phase2, w)
<1>1. CASE phase2 = NoJob
  <2>1. phase2' = [status |-> "pending", owner |-> None, leased |-> FALSE,
                   backoff |-> FALSE, retries |-> Retries, input |-> x, success |-> 0]
      BY <1>1 DEF Enqueue
  <2>2. phase2' \in Job /\ phase2' # NoJob
      BY <2>1, NewRows, JobsAssumption
  <2>3. /\ phase2'.status = "pending" /\ phase2'.input = x
        /\ phase2'.success = 0
      BY <2>1
  <2> QED
      BY <1>1, <2>2, <2>3 DEF Dirty, Retriable, Owns
<1>2. CASE phase2 # NoJob
  <2> DEFINE s == IF phase2.status = "running" THEN phase2.status ELSE "pending"
             b == phase2.backoff /\ phase2.status = "running"
             r == Larger(phase2.retries, Retries)
             i == IF x > phase2.input THEN x ELSE phase2.input + 1
  <2>1. phase2 \in Job
      BY <1>2 DEF TypeOK
  <2>2. phase2' = [phase2 EXCEPT !.status = s, !.backoff = b, !.retries = r, !.input = i]
      BY <1>2 DEF Enqueue
  <2>3. s \in {"pending", "running"} /\ b \in BOOLEAN /\ r \in 0..Retries /\ i \in Nat
      BY <2>1, JobsAssumption DEF Job, Larger
  <2>4. r > 0 /\ x <= i /\ phase2.input < i /\ (s = "running" => phase2.status = "running")
      BY <2>1, JobsAssumption DEF Job, Larger
  <2> HIDE DEF s, b, r, i
  <2>5. phase2' \in Job /\ phase2' # NoJob
    <3>1. [phase2 EXCEPT !.status = s, !.backoff = b, !.retries = r, !.input = i] \in Job
        BY <2>1, <2>3, JobRows, Zenon
    <3> QED
        BY <2>2, <3>1, JobsAssumption
  <2>6. /\ phase2'.status = "running" => phase2.status = "running"
        /\ phase2'.owner = phase2.owner
        /\ phase2'.retries = r /\ phase2'.input = i
        /\ phase2'.success = phase2.success
      BY <2>1, <2>2, <2>4 DEF Job
  <2>7. phase2.input \in Nat /\ phase2.success \in Nat /\ phase2.success <= phase2.input
      BY <1>2, <2>1 DEF WatermarkAhead, Job
  <2> QED
      BY <1>2, <2>3, <2>4, <2>5, <2>6, <2>7 DEF Dirty, Retriable, Owns
<1> QED
    BY <1>1, <1>2

-----------------------------------------------------------------------------
(* Steps that leave the global job, the outputs and the runs alone.        *)
LEMMA Stage1Steps ==
    ASSUME JobsInv, TypeOK', phase2' = phase2, output' = output,
           baseline' = baseline, run' = run, fresh' = fresh, lastRead' = lastRead,
           \A t \in Threads : Retriable(stage1'[t])
    PROVE  JobsInv'
<1> USE DEF JobsInv
<1>1. Dirty' = Dirty
    BY DEF Dirty
<1>2. NoLostWork'
    BY <1>1 DEF NoLostWork
<1>3. BaselineIsOneRun'
    BY DEF BaselineIsOneRun
<1>4. RetriesLeft'
    BY DEF RetriesLeft
<1>5. WatermarkAhead'
    BY DEF WatermarkAhead
<1>6. \A w \in Workers : RunBehind(w)'
    BY <1>1 DEF RunBehind
<1> QED
    BY <1>2, <1>3, <1>4, <1>5, <1>6

(* Steps that change a run or the global job and keep its watermarks.      *)
LEMMA Phase2Steps ==
    ASSUME JobsInv, TypeOK', output' = output, stage1' = stage1,
           baseline' = baseline, fresh' = fresh, lastRead' = lastRead,
           phase2' = NoJob <=> phase2 = NoJob, Retriable(phase2'),
           phase2 # NoJob => phase2'.input = phase2.input
                             /\ phase2'.success = phase2.success,
           \A w \in Workers : RunBehind(w)'
    PROVE  JobsInv'
<1> USE DEF JobsInv
<1>1. Dirty' = Dirty
    BY DEF Dirty
<1>2. NoLostWork'
    BY <1>1 DEF NoLostWork
<1>3. BaselineIsOneRun'
    BY DEF BaselineIsOneRun
<1>4. RetriesLeft'
    BY DEF RetriesLeft
<1>5. WatermarkAhead'
    BY DEF WatermarkAhead
<1> QED
    BY <1>2, <1>3, <1>4, <1>5

(* Steps that enqueue, with or without a change of an output.              *)
LEMMA EnqueueSteps ==
    ASSUME JobsInv, TypeOK', NEW x \in Nat, x > 0 \/ phase2 # NoJob, Enqueue(x),
           BaselineIsOneRun',
           \A t \in Threads : Retriable(stage1'[t]),
           \A t \in Threads : output'[t] \in {0, output[t], x},
           \A w \in Workers : run'[w].step = run[w].step
                                /\ run'[w].watermark = run[w].watermark
    PROVE  JobsInv'
<1> USE DEF JobsInv
<1>1. /\ phase2' \in Job /\ Dirty' /\ Retriable(phase2')
      /\ phase2'.success <= phase2'.input /\ x <= phase2'.input
      /\ phase2 # NoJob => phase2.input < phase2'.input
      /\ \A w \in Workers : Owns(phase2', w) => Owns(phase2, w)
    BY EnqueueMoves DEF NoLostWork
<1>2. NoLostWork' /\ RetriesLeft'
    BY <1>1 DEF NoLostWork, RetriesLeft
<1>3. phase2' # NoJob /\ phase2'.input \in Nat
    BY <1>1, JobsAssumption DEF Job
<1>4. phase2 # NoJob => phase2.input \in Nat
    BY DEF NoLostWork, TypeOK, Job
<1>5. WatermarkAhead'
  <2>1. ASSUME NEW t \in Threads, output'[t] # 0
        PROVE  output'[t] <= phase2'.input
      BY <1>1, <1>3, <1>4, <2>1 DEF WatermarkAhead, NoLostWork, TypeOK, Sources
  <2> QED
      BY <1>1, <1>3, <2>1 DEF WatermarkAhead
<1>6. ASSUME NEW w \in Workers
      PROVE  RunBehind(w)'
  <2>1. run[w].watermark \in Nat
      BY DEF NoLostWork, TypeOK
  <2>2. Owns(phase2, w) => phase2 # NoJob
      BY DEF Owns
  <2> QED
      BY <1>1, <1>3, <1>4, <2>1, <2>2 DEF RunBehind
<1> QED
    BY <1>2, <1>5, <1>6

-----------------------------------------------------------------------------
(* Stage 1.                                                                *)

LEMMA ClaimStage1Step ==
    ASSUME JobsInv, NEW w \in Workers, NEW t \in Threads, NEW s \in 1..MaxSource,
           ClaimStage1(w, t, s)
    PROVE  JobsInv'
<1> USE DEF JobsInv, NoLostWork
<1> DEFINE r == IF stage1[t] = NoJob THEN Retries
                ELSE IF s > stage1[t].input THEN Retries ELSE stage1[t].retries
           y == IF stage1[t] = NoJob THEN 0 ELSE stage1[t].success
           row == [status |-> "running", owner |-> w, leased |-> TRUE,
                   backoff |-> FALSE, retries |-> r, input |-> s, success |-> y]
<1>1. r \in 0..Retries /\ r > 0 /\ y \in Nat /\ s \in Nat /\ s \in Sources
  <2>1. CASE stage1[t] = NoJob
      BY <2>1, JobsAssumption DEF Sources
  <2>2. CASE stage1[t] # NoJob
    <3>1. stage1[t] \in Job
        BY <2>2 DEF TypeOK
    <3>2. /\ stage1[t].retries \in 0..Retries /\ stage1[t].success \in Nat
          /\ stage1[t].input \in Nat
        BY <3>1 DEF Job
    <3> QED
        BY <2>2, <3>2, JobsAssumption DEF ClaimStage1, CanClaim, Sources
  <2> QED
      BY <2>1, <2>2
<1>2. stage1' = [stage1 EXCEPT ![t] = row]
    BY DEF ClaimStage1
<1> HIDE DEF r, y
<1>3. row \in Job /\ row.retries = r
    BY <1>1, NewRows
<1> HIDE DEF row
<1>4. TypeOK'
  <2>1. stage1' \in [Threads -> Job \cup {NoJob}]
      BY <1>2, <1>3 DEF TypeOK
  <2>2. extracts' \in [Workers -> [Threads -> Sources]]
      BY <1>1 DEF TypeOK, ClaimStage1
  <2> QED
      BY <2>1, <2>2 DEF TypeOK, ClaimStage1
<1>5. \A u \in Threads : Retriable(stage1'[u])
    BY <1>1, <1>2, <1>3 DEF TypeOK, RetriesLeft, Retriable
<1> QED
    BY <1>4, <1>5, Stage1Steps DEF ClaimStage1

LEMMA FinishTypes ==
    ASSUME TypeOK, NEW w \in Workers, NEW t \in Threads, Finish(w, t)
    PROVE  extracts' \in [Workers -> [Threads -> Sources]]
<1>1. 0 \in Sources
    BY JobsAssumption DEF Sources
<1> QED
    BY <1>1 DEF TypeOK, Finish

LEMMA LostStage1Step ==
    ASSUME JobsInv, NEW w \in Workers, NEW t \in Threads, LostStage1(w, t)
    PROVE  JobsInv'
<1> USE DEF JobsInv, NoLostWork
<1>1. TypeOK'
    BY FinishTypes DEF TypeOK, LostStage1, tables
<1>2. \A u \in Threads : Retriable(stage1'[u])
    BY DEF RetriesLeft, LostStage1, tables
<1> QED
    BY <1>1, <1>2, Stage1Steps DEF LostStage1, tables

LEMMA FailStage1Step ==
    ASSUME JobsInv, NEW w \in Workers, NEW t \in Threads, FailStage1(w, t)
    PROVE  JobsInv'
<1> USE DEF JobsInv, NoLostWork
<1>1. stage1[t] \in Job /\ stage1[t].retries > 0
    BY DEF TypeOK, FailStage1, Owns, RetriesLeft, Retriable
<1>2. Failed(stage1[t]) \in Job /\ Failed(stage1[t]).status = "error"
    BY <1>1, FailedIsJob
<1>3. stage1' = [stage1 EXCEPT ![t] = Failed(stage1[t])]
    BY DEF FailStage1
<1>4. TypeOK'
    BY <1>2, <1>3, FinishTypes DEF TypeOK, FailStage1
<1>5. \A u \in Threads : Retriable(stage1'[u])
    BY <1>2, <1>3 DEF TypeOK, RetriesLeft, Retriable
<1> QED
    BY <1>4, <1>5, Stage1Steps DEF FailStage1

(* Both successes end the claim.                                           *)
LEMMA DoneStage1Row ==
    ASSUME JobsInv, NEW w \in Workers, NEW t \in Threads,
           Owns(stage1[t], w), DoneStage1(t)
    PROVE  /\ stage1' \in [Threads -> Job \cup {NoJob}]
           /\ \A u \in Threads : Retriable(stage1'[u])
           /\ stage1[t].input \in Nat
<1> USE DEF JobsInv, NoLostWork
<1> DEFINE row == [stage1[t] EXCEPT !.status = "done", !.leased = FALSE,
                                    !.success = stage1[t].input]
<1>1. stage1[t] \in Job /\ stage1 \in [Threads -> Job \cup {NoJob}]
    BY DEF TypeOK, Owns
<1>2. stage1[t].input \in Nat
    BY <1>1 DEF Job
<1>3. row \in Job
    BY <1>1, <1>2, JobRows, Zenon
<1>4. row.status = "done"
    BY <1>1 DEF Job
<1>5. stage1' = [stage1 EXCEPT ![t] = row]
    BY <1>1 DEF DoneStage1
<1> HIDE DEF row
<1> QED
    BY <1>1, <1>2, <1>3, <1>4, <1>5 DEF RetriesLeft, Retriable

(* An output that changed is noted by the runs that have read it.          *)
LEMMA ChangedRuns ==
    ASSUME TypeOK, NEW t \in Threads, Changed(t)
    PROVE  /\ fresh' \in SUBSET Threads
           /\ run' \in [Workers -> [step: {"idle", "claimed", "selected"},
                            watermark: Nat, read: [Threads -> Sources],
                            since: SUBSET Threads]]
           /\ \A w \in Workers : run'[w].step = run[w].step
                                   /\ run'[w].watermark = run[w].watermark
<1>1. fresh' \in SUBSET Threads
    BY DEF TypeOK, Changed
<1>2. ASSUME NEW w \in Workers
      PROVE  /\ run'[w] \in [step: {"idle", "claimed", "selected"},
                              watermark: Nat, read: [Threads -> Sources],
                              since: SUBSET Threads]
             /\ run'[w].step = run[w].step
             /\ run'[w].watermark = run[w].watermark
    BY DEF TypeOK, Changed
<1>3. run' = [w \in Workers |-> run'[w]]
    BY DEF Changed
<1> QED
    BY <1>1, <1>2, <1>3

LEMMA SucceedStage1Step ==
    ASSUME JobsInv, NEW w \in Workers, NEW t \in Threads, SucceedStage1(w, t)
    PROVE  JobsInv'
<1> USE DEF JobsInv, NoLostWork
<1> DEFINE x == extracts[w][t]
<1>1. x \in Nat /\ x > 0 /\ x \in Sources
    BY JobsAssumption DEF SucceedStage1, TypeOK, Sources
<1>2. stage1' \in [Threads -> Job \cup {NoJob}] /\ \A u \in Threads : Retriable(stage1'[u])
    BY DoneStage1Row DEF SucceedStage1
<1>3. /\ output' \in [Threads -> Sources]
      /\ \A u \in Threads : output'[u] \in {output[u], x} /\ output'[u] >= output[u]
  <2>1. output \in [Threads -> Sources] /\ \A u \in Threads : output[u] \in Nat
      BY DEF TypeOK, Sources
  <2>2. CASE x >= output[t]
    <3>1. output' = [output EXCEPT ![t] = x]
        BY <2>2 DEF SucceedStage1
    <3> HIDE DEF x
    <3> QED
        BY <1>1, <2>1, <2>2, <3>1
  <2>3. CASE ~(x >= output[t])
      BY <2>1, <2>3 DEF SucceedStage1
  <2> QED
      BY <2>2, <2>3
<1>4. /\ fresh' \in SUBSET Threads
      /\ run' \in [Workers -> [step: {"idle", "claimed", "selected"},
                            watermark: Nat, read: [Threads -> Sources],
                            since: SUBSET Threads]]
      /\ \A v \in Workers : run'[v].step = run[v].step
                              /\ run'[v].watermark = run[v].watermark
  <2>1. CASE Changed(t)
      BY <2>1, ChangedRuns
  <2>2. CASE UNCHANGED <<run, fresh>>
      BY <2>2 DEF TypeOK
  <2> QED
      BY <2>1, <2>2 DEF SucceedStage1
<1>5. phase2' \in Job
    BY <1>1, EnqueueMoves DEF SucceedStage1
<1>6. TypeOK'
    BY <1>2, <1>3, <1>4, <1>5, FinishTypes DEF TypeOK, SucceedStage1
<1>7. BaselineIsOneRun'
    BY <1>3 DEF BaselineIsOneRun, SucceedStage1, TypeOK, Sources
<1> QED
    BY <1>1, <1>2, <1>3, <1>4, <1>6, <1>7, EnqueueSteps DEF SucceedStage1

LEMMA SucceedStage1NoOutputStep ==
    ASSUME JobsInv, NEW w \in Workers, NEW t \in Threads, SucceedStage1NoOutput(w, t)
    PROVE  JobsInv'
<1> USE DEF JobsInv, NoLostWork
<1>1. /\ stage1' \in [Threads -> Job \cup {NoJob}]
      /\ \A u \in Threads : Retriable(stage1'[u])
      /\ stage1[t].input \in Nat
    BY DoneStage1Row DEF SucceedStage1NoOutput
<1>2. CASE output[t] = 0
  <2>1. TypeOK'
      BY <1>1, <1>2, FinishTypes DEF TypeOK, SucceedStage1NoOutput
  <2> QED
      BY <1>1, <1>2, <2>1, Stage1Steps DEF SucceedStage1NoOutput
<1>3. CASE output[t] # 0
  <2>1. Enqueue(stage1[t].input) /\ phase2 # NoJob
      BY <1>3 DEF SucceedStage1NoOutput, WatermarkAhead
  <2>2. /\ output' = [output EXCEPT ![t] = 0] /\ baseline' = [baseline EXCEPT ![t] = 0]
        /\ Changed(t)
      BY <1>3 DEF SucceedStage1NoOutput
  <2>3. phase2' \in Job
      BY <1>1, <2>1, EnqueueMoves
  <2>4. TypeOK'
      BY <1>1, <2>2, <2>3, ChangedRuns, FinishTypes, JobsAssumption
         DEF TypeOK, SucceedStage1NoOutput, Sources
  <2>5. BaselineIsOneRun'
      BY <2>2 DEF BaselineIsOneRun, SucceedStage1NoOutput, TypeOK, Sources
  <2>6. \A u \in Threads : output'[u] \in {0, output[u]}
      BY <2>2 DEF TypeOK
  <2> QED
      BY <1>1, <2>1, <2>2, <2>4, <2>5, <2>6, ChangedRuns, EnqueueSteps
<1> QED
    BY <1>2, <1>3

-----------------------------------------------------------------------------
(* Phase 2.                                                                *)

LEMMA EndRunTypes ==
    ASSUME TypeOK, NEW w \in Workers, EndRun(w)
    PROVE  /\ run' \in [Workers -> [step: {"idle", "claimed", "selected"},
                            watermark: Nat, read: [Threads -> Sources],
                            since: SUBSET Threads]]
           /\ run'[w].step = "idle" /\ \A v \in Workers : v # w => run'[v] = run[v]
<1>1. NoRun \in [step: {"idle", "claimed", "selected"}, watermark: Nat,
                 read: [Threads -> Sources], since: SUBSET Threads]
      /\ NoRun.step = "idle"
    BY JobsAssumption DEF NoRun, Sources
<1> QED
    BY <1>1 DEF EndRun, TypeOK

LEMMA ClaimPhase2Step ==
    ASSUME JobsInv, NEW w \in Workers, ClaimPhase2(w)
    PROVE  JobsInv'
<1> USE DEF JobsInv, NoLostWork
<1>1. phase2 \in Job /\ phase2 # NoJob /\ phase2.retries > 0 /\ phase2.input \in Nat
    BY DEF ClaimPhase2, Claimable, Dirty, TypeOK, Job
<1>2. phase2' = [phase2 EXCEPT !.status = "running", !.owner = w,
                               !.leased = TRUE, !.backoff = FALSE]
    BY DEF ClaimPhase2
<1>3. phase2' \in Job
    BY <1>1, <1>2, JobRows, Zenon
<1>4. /\ phase2'.owner = w /\ phase2'.input = phase2.input
      /\ phase2'.success = phase2.success /\ phase2'.retries = phase2.retries
    BY <1>1, <1>2 DEF Job
<1> DEFINE r == [NoRun EXCEPT !.step = "claimed", !.watermark = phase2.input]
<1>5. run' = [run EXCEPT ![w] = r]
    BY DEF ClaimPhase2
<1>6. /\ r \in [step: {"idle", "claimed", "selected"}, watermark: Nat,
                read: [Threads -> Sources], since: SUBSET Threads]
      /\ r.watermark = phase2.input /\ r.since = {}
  <2>1. NoRun \in [step: {"idle", "claimed", "selected"}, watermark: Nat,
                   read: [Threads -> Sources], since: SUBSET Threads]
        /\ NoRun.since = {}
      BY JobsAssumption DEF NoRun, Sources
  <2> QED
      BY <1>1, <2>1
<1> HIDE DEF r
<1>7. run'[w].watermark = phase2.input /\ run'[w].since = {}
    BY <1>5, <1>6 DEF TypeOK
<1>8. TypeOK'
    BY <1>3, <1>5, <1>6 DEF ClaimPhase2, TypeOK
<1>9. \A v \in Workers : RunBehind(v)'
    BY <1>1, <1>4, <1>7 DEF RunBehind, Owns
<1> QED
    BY <1>1, <1>3, <1>4, <1>8, <1>9, JobsAssumption, Phase2Steps
       DEF ClaimPhase2, RetriesLeft, Retriable

LEMMA SelectInputStep ==
    ASSUME JobsInv, NEW w \in Workers, SelectInput(w)
    PROVE  JobsInv'
<1> USE DEF JobsInv, NoLostWork
<1>1. PICK x \in RunWatermark(run[w].watermark, Selection) :
          run' = [run EXCEPT ![w] = [step |-> "selected", read |-> Selection,
                                     watermark |-> x, since |-> {}]]
    BY DEF SelectInput
<1>2. Selection \in [Threads -> Sources]
    BY JobsAssumption DEF Selection, TypeOK, Sources
<1>3. run[w].watermark \in Nat
    BY DEF TypeOK
<1>4. x \in Nat /\ (x = run[w].watermark \/ \E t \in Threads : x = Selection[t])
    BY <1>2, <1>3 DEF RunWatermark, Sources
<1>5. TypeOK'
    BY <1>1, <1>2, <1>4 DEF TypeOK, SelectInput, tables
<1>6. ASSUME NEW v \in Workers
      PROVE  RunBehind(v)'
  <2>1. phase2' = phase2 /\ run[w].step # "idle"
      BY DEF SelectInput, tables
  <2>2. CASE v = w
    <3>1. run'[w].watermark = x /\ run'[w].since = {}
        BY <1>1 DEF TypeOK
    <3>2. ASSUME Owns(phase2, w)
          PROVE  x <= phase2.input
      <4>1. phase2 # NoJob /\ phase2.input \in Nat /\ run[w].watermark <= phase2.input
          BY <2>1, <3>2 DEF Owns, RunBehind, TypeOK, Job
      <4>2. \A t \in Threads : Selection[t] <= phase2.input
          BY <4>1 DEF Selection, WatermarkAhead
      <4> QED
          BY <1>4, <4>1, <4>2
    <3> QED
        BY <2>1, <2>2, <3>1, <3>2 DEF RunBehind, Owns
  <2>3. CASE v # w
    <3>1. run'[v] = run[v]
        BY <1>1, <2>3 DEF TypeOK
    <3> QED
        BY <2>1, <3>1 DEF RunBehind, Owns, Dirty
  <2> QED
      BY <2>2, <2>3
<1> QED
    BY <1>5, <1>6, Phase2Steps DEF SelectInput, tables, RetriesLeft

(* A run that ends leaves the other runs as they are.                      *)
LEMMA EndedRuns ==
    ASSUME JobsInv, NEW w \in Workers, EndRun(w),
           \A v \in Workers : v # w /\ Owns(phase2', v) => phase2' = phase2
    PROVE  \A v \in Workers : RunBehind(v)'
<1> SUFFICES ASSUME NEW v \in Workers
             PROVE  RunBehind(v)'
    OBVIOUS
<1>1. /\ run'[w].step = "idle" /\ (v # w => run'[v] = run[v])
    BY EndRunTypes DEF JobsInv, NoLostWork
<1> QED
    BY <1>1 DEF JobsInv, RunBehind, Dirty, Owns

LEMMA LostPhase2Step ==
    ASSUME JobsInv, NEW w \in Workers, LostPhase2(w)
    PROVE  JobsInv'
<1> USE DEF JobsInv, NoLostWork, LostPhase2, tables
<1>1. TypeOK'
    BY EndRunTypes DEF TypeOK
<1>2. \A v \in Workers : RunBehind(v)'
    BY EndedRuns
<1> QED
    BY <1>1, <1>2, Phase2Steps DEF RetriesLeft

LEMMA FailPhase2Step ==
    ASSUME JobsInv, NEW w \in Workers, FailPhase2(w)
    PROVE  JobsInv'
<1> USE DEF JobsInv, NoLostWork
<1>1. phase2 \in Job /\ phase2 # NoJob /\ phase2.retries > 0
    BY DEF FailPhase2, Owns, RetriesLeft, Retriable, TypeOK
<1>2. /\ phase2' \in Job /\ phase2'.status = "error"
      /\ phase2'.input = phase2.input /\ phase2'.success = phase2.success
    BY <1>1, FailedIsJob DEF FailPhase2
<1>3. TypeOK'
    BY <1>2, EndRunTypes DEF TypeOK, FailPhase2
<1>4. \A v \in Workers : RunBehind(v)'
    BY <1>2, EndedRuns DEF Owns, FailPhase2
<1> QED
    BY <1>1, <1>2, <1>3, <1>4, JobsAssumption, Phase2Steps DEF FailPhase2, Retriable

LEMMA SucceedPhase2Step ==
    ASSUME JobsInv, NEW w \in Workers, SucceedPhase2(w)
    PROVE  JobsInv'
<1> USE DEF JobsInv, NoLostWork
<1> DEFINE i == Larger(phase2.success, run[w].watermark)
<1>1. /\ phase2 \in Job /\ phase2 # NoJob /\ run[w].watermark \in Nat
      /\ phase2.input \in Nat /\ phase2.success \in Nat
      /\ run[w].step = "selected" /\ Owns(phase2, w)
    BY DEF SucceedPhase2, Owns, TypeOK, Job
<1>2. /\ i \in Nat /\ i <= phase2.input
      /\ run[w].since # {} => i < phase2.input
    BY <1>1 DEF Larger, RunBehind, WatermarkAhead, Dirty
<1>3. phase2' = [phase2 EXCEPT !.status = "done", !.leased = FALSE, !.success = i]
    BY <1>1 DEF SucceedPhase2, DonePhase2
<1> HIDE DEF i
<1>4. phase2' \in Job
    BY <1>1, <1>2, <1>3, JobRows, Zenon
<1>5. /\ phase2' # NoJob /\ phase2'.status = "done"
      /\ phase2'.input = phase2.input /\ phase2'.success = i
    BY <1>1, <1>3, <1>4, JobsAssumption DEF Job
<1>6. baseline' \in [Threads -> Sources]
      /\ \A t \in Threads : baseline'[t] # 0 => baseline'[t] = output[t] /\ output[t] = run[w].read[t]
    BY JobsAssumption DEF SucceedPhase2, TypeOK, Sources
<1>7. run[w].since \in SUBSET Threads /\ run[w].read \in [Threads -> Sources]
    BY DEF TypeOK
<1>8. TypeOK'
    BY <1>4, <1>6, <1>7, EndRunTypes DEF TypeOK, SucceedPhase2
<1>9. NoLostWork'
    BY <1>1, <1>2, <1>5, <1>8 DEF Dirty, SucceedPhase2
<1>10. BaselineIsOneRun'
    BY <1>6 DEF BaselineIsOneRun, SucceedPhase2, TypeOK, Sources
<1>11. RetriesLeft'
    BY <1>5 DEF RetriesLeft, Retriable, SucceedPhase2
<1>12. WatermarkAhead'
    BY <1>1, <1>2, <1>5 DEF WatermarkAhead, SucceedPhase2
<1>13. \A v \in Workers : RunBehind(v)'
    BY <1>5, EndedRuns DEF Owns, SucceedPhase2
<1> QED
    BY <1>9, <1>10, <1>11, <1>12, <1>13

LEMMA HeartbeatStep ==
    ASSUME JobsInv, NEW w \in Workers, Heartbeat(w)
    PROVE  JobsInv'
<1> USE DEF JobsInv, NoLostWork
<1>1. phase2 \in Job /\ phase2 # NoJob /\ phase2' = [phase2 EXCEPT !.leased = TRUE]
    BY DEF Heartbeat, Owns, TypeOK
<1>2. phase2' \in Job
    BY <1>1, JobRows, Zenon
<1>3. /\ phase2' # NoJob /\ phase2'.status = phase2.status /\ phase2'.owner = phase2.owner
      /\ phase2'.input = phase2.input /\ phase2'.success = phase2.success
      /\ phase2'.retries = phase2.retries
    BY <1>1, <1>2, JobsAssumption DEF Job
<1>4. TypeOK'
    BY <1>2 DEF TypeOK, Heartbeat
<1>5. \A v \in Workers : RunBehind(v)'
    BY <1>1, <1>3 DEF RunBehind, Owns, Dirty, Heartbeat
<1> QED
    BY <1>1, <1>3, <1>4, <1>5, Phase2Steps DEF Heartbeat, RetriesLeft, Retriable

-----------------------------------------------------------------------------
(* Threads, operators, time and failure.                                   *)

LEMMA UpdateThreadStep ==
    ASSUME JobsInv, NEW t \in Threads, UpdateThread(t)
    PROVE  JobsInv'
<1> USE DEF JobsInv, NoLostWork
<1>1. updated[t] + 1 \in Sources
    BY JobsAssumption DEF UpdateThread, TypeOK, Sources
<1>2. TypeOK'
    BY <1>1 DEF TypeOK, UpdateThread
<1> QED
    BY <1>2, Stage1Steps DEF UpdateThread, RetriesLeft

LEMMA PolluteStep ==
    ASSUME JobsInv, NEW t \in Threads, Pollute(t)
    PROVE  JobsInv'
<1> USE DEF JobsInv, NoLostWork
<1>1. MaxSource + 1 \in Nat /\ MaxSource + 1 > 0
    BY JobsAssumption
<1>2. CASE baseline[t] # 0
  <2>1. Enqueue(MaxSource + 1)
      BY <1>2 DEF Pollute
  <2>2. phase2' \in Job
      BY <1>1, <2>1, EnqueueMoves
  <2>3. TypeOK'
      BY <2>2 DEF TypeOK, Pollute
  <2>4. BaselineIsOneRun'
      BY DEF BaselineIsOneRun, Pollute
  <2> QED
      BY <1>1, <2>1, <2>3, <2>4, EnqueueSteps DEF Pollute, RetriesLeft
<1>3. CASE baseline[t] = 0
  <2>1. TypeOK' /\ phase2' = phase2
      BY <1>3 DEF TypeOK, Pollute
  <2> QED
      BY <2>1, Stage1Steps DEF Pollute, RetriesLeft
<1> QED
    BY <1>2, <1>3

LEMMA PruneStep ==
    ASSUME JobsInv, NEW t \in Threads, Prune(t)
    PROVE  JobsInv'
<1> USE DEF JobsInv, NoLostWork
<1>1. TypeOK'
    BY JobsAssumption DEF TypeOK, Prune, Sources
<1>2. \A u \in Threads : output'[u] = output[u] \/ (output'[u] = 0 /\ baseline[u] = 0)
    BY DEF TypeOK, Prune
<1>3. NoLostWork'
    BY <1>1 DEF Prune, Dirty
<1>4. BaselineIsOneRun'
    BY <1>2 DEF BaselineIsOneRun, Prune
<1>5. RetriesLeft' /\ WatermarkAhead'
    BY <1>2 DEF RetriesLeft, WatermarkAhead, Prune
<1>6. \A w \in Workers : RunBehind(w)'
    BY DEF RunBehind, Dirty, Prune
<1> QED
    BY <1>3, <1>4, <1>5, <1>6

LEMMA ClearStep ==
    ASSUME JobsInv, ClearMemoryData
    PROVE  JobsInv'
<1> USE DEF JobsInv, NoLostWork
<1>1. faults + 1 \in 0..MaxFaults
    BY JobsAssumption DEF ClearMemoryData, TypeOK
<1>2. TypeOK'
    BY <1>1, JobsAssumption DEF TypeOK, ClearMemoryData, Sources
<1>3. NoLostWork' /\ BaselineIsOneRun'
    BY <1>2 DEF BaselineIsOneRun, ClearMemoryData
<1>4. RetriesLeft' /\ WatermarkAhead'
    BY DEF RetriesLeft, Retriable, WatermarkAhead, ClearMemoryData
<1>5. \A w \in Workers : RunBehind(w)'
    BY DEF RunBehind, Owns, ClearMemoryData
<1> QED
    BY <1>3, <1>4, <1>5

LEMMA BackoffEndsStep ==
    ASSUME JobsInv, BackoffEnds
    PROVE  JobsInv'
<1> USE DEF JobsInv, NoLostWork
<1>1. ASSUME NEW t \in Threads, stage1[t] # NoJob, stage1[t].backoff,
             stage1' = [stage1 EXCEPT ![t].backoff = FALSE],
             UNCHANGED <<updated, polluted, output, baseline, phase2, extracts, run,
                         fresh, lastRead, faults>>
      PROVE  JobsInv'
  <2>1. stage1[t] \in Job
      BY <1>1 DEF TypeOK
  <2>2. [stage1[t] EXCEPT !.backoff = FALSE] \in Job
      BY <2>1, JobRows, Zenon
  <2>3. TypeOK'
      BY <1>1, <2>2 DEF TypeOK
  <2>4. \A u \in Threads : Retriable(stage1'[u])
      BY <1>1, <2>1 DEF TypeOK, RetriesLeft, Retriable, Job
  <2> QED
      BY <1>1, <2>3, <2>4, Stage1Steps
<1>2. ASSUME phase2 # NoJob, phase2' = [phase2 EXCEPT !.backoff = FALSE],
             UNCHANGED <<updated, polluted, output, baseline, stage1, extracts, run,
                         fresh, lastRead, faults>>
      PROVE  JobsInv'
  <2>1. phase2 \in Job
      BY <1>2 DEF TypeOK
  <2>2. phase2' \in Job
      BY <1>2, <2>1, JobRows, Zenon
  <2>3. /\ phase2' # NoJob /\ phase2'.status = phase2.status /\ phase2'.owner = phase2.owner
        /\ phase2'.input = phase2.input /\ phase2'.success = phase2.success
        /\ phase2'.retries = phase2.retries
      BY <1>2, <2>1, <2>2, JobsAssumption DEF Job
  <2>4. TypeOK'
      BY <1>2, <2>2 DEF TypeOK
  <2>5. \A v \in Workers : RunBehind(v)'
      BY <1>2, <2>3 DEF RunBehind, Owns, Dirty
  <2> QED
      BY <1>2, <2>3, <2>4, <2>5, Phase2Steps DEF RetriesLeft, Retriable
<1> QED
    BY <1>1, <1>2 DEF BackoffEnds

LEMMA LeaseEndsStep ==
    ASSUME JobsInv, LeaseEnds
    PROVE  JobsInv'
<1> USE DEF JobsInv, NoLostWork
<1>0. faults' \in 0..MaxFaults
    BY JobsAssumption DEF LeaseEnds, Alive, TypeOK
<1>1. ASSUME NEW t \in Threads, Leased(stage1[t]),
             stage1' = [stage1 EXCEPT ![t].leased = FALSE],
             UNCHANGED <<updated, polluted, output, baseline, phase2, extracts, run,
                         fresh, lastRead>>
      PROVE  JobsInv'
  <2>1. stage1[t] \in Job
      BY <1>1 DEF TypeOK, Leased
  <2>2. [stage1[t] EXCEPT !.leased = FALSE] \in Job
      BY <2>1, JobRows, Zenon
  <2>3. TypeOK'
      BY <1>0, <1>1, <2>2 DEF TypeOK
  <2>4. \A u \in Threads : Retriable(stage1'[u])
      BY <1>1, <2>1 DEF TypeOK, RetriesLeft, Retriable, Leased, Job
  <2> QED
      BY <1>1, <2>3, <2>4, Stage1Steps
<1>2. ASSUME Leased(phase2), phase2' = [phase2 EXCEPT !.leased = FALSE],
             UNCHANGED <<updated, polluted, output, baseline, stage1, extracts, run,
                         fresh, lastRead>>
      PROVE  JobsInv'
  <2>1. phase2 \in Job /\ phase2 # NoJob
      BY <1>2 DEF TypeOK, Leased
  <2>2. phase2' \in Job
      BY <1>2, <2>1, JobRows, Zenon
  <2>3. /\ phase2' # NoJob /\ phase2'.status = phase2.status /\ phase2'.owner = phase2.owner
        /\ phase2'.input = phase2.input /\ phase2'.success = phase2.success
        /\ phase2'.retries = phase2.retries
      BY <1>2, <2>1, <2>2, JobsAssumption DEF Job
  <2>4. TypeOK'
      BY <1>0, <1>2, <2>2 DEF TypeOK
  <2>5. \A v \in Workers : RunBehind(v)'
      BY <1>2, <2>1, <2>3 DEF RunBehind, Owns, Dirty
  <2> QED
      BY <1>2, <2>1, <2>3, <2>4, <2>5, Phase2Steps DEF RetriesLeft, Retriable
<1> QED
    BY <1>1, <1>2 DEF LeaseEnds

LEMMA CrashStep ==
    ASSUME JobsInv, NEW w \in Workers, Crash(w)
    PROVE  JobsInv'
<1> USE DEF JobsInv, NoLostWork
<1>1. faults + 1 \in 0..MaxFaults /\ [t \in Threads |-> 0] \in [Threads -> Sources]
    BY JobsAssumption DEF Crash, TypeOK, Sources
<1>2. extracts' \in [Workers -> [Threads -> Sources]]
    BY <1>1 DEF Crash, TypeOK
<1>3. TypeOK'
    BY <1>1, <1>2, EndRunTypes DEF TypeOK, Crash, tables
<1>4. \A v \in Workers : RunBehind(v)'
    BY EndedRuns DEF Crash, tables
<1> QED
    BY <1>3, <1>4, Phase2Steps DEF Crash, tables, RetriesLeft

-----------------------------------------------------------------------------
(* The theorems.                                                           *)

(* The inductive invariant of the memory pipeline: lost work, the baseline *)
(* and the watermarks of claims.                                           *)
THEOREM JobsInvariant == Spec => []JobsInv
<1>1. Init => JobsInv
  <2> SUFFICES ASSUME Init PROVE JobsInv
      OBVIOUS
  <2>1. TypeOK
      BY JobsAssumption DEF Init, TypeOK, NoRun, Sources
  <2>2. /\ phase2 = NoJob /\ fresh = {} /\ \A t \in Threads : stage1[t] = NoJob
        /\ \A t \in Threads : output[t] = 0 /\ baseline[t] = 0
      BY DEF Init
  <2> QED
      BY <2>1, <2>2 DEF JobsInv, NoLostWork, BaselineIsOneRun, RetriesLeft,
         Retriable, WatermarkAhead, RunBehind, Owns
<1>2. JobsInv /\ [Next]_vars => JobsInv'
  <2> SUFFICES ASSUME JobsInv, [Next]_vars PROVE JobsInv'
      OBVIOUS
  <2>1. CASE UNCHANGED vars
    <3>1. TypeOK'
        BY <2>1 DEF JobsInv, NoLostWork, TypeOK, vars, tables
    <3> QED
        BY <2>1, <3>1, Stage1Steps DEF JobsInv, RetriesLeft, vars, tables
  <2>2. ASSUME NEW w \in Workers, NEW t \in Threads, Extract(w, t)
        PROVE  JobsInv'
      BY <2>2, LostStage1Step, SucceedStage1Step, SucceedStage1NoOutputStep,
         FailStage1Step DEF Extract
  <2>3. ASSUME NEW w \in Workers, Consolidate(w)
        PROVE  JobsInv'
      BY <2>3, SelectInputStep, LostPhase2Step, SucceedPhase2Step, FailPhase2Step
         DEF Consolidate
  <2> QED
      BY <2>1, <2>2, <2>3, ClaimStage1Step, ClaimPhase2Step, HeartbeatStep, CrashStep,
         UpdateThreadStep, PolluteStep, PruneStep, ClearStep, BackoffEndsStep,
         LeaseEndsStep DEF Next
<1> QED
    BY <1>1, <1>2, PTL DEF Spec

(* No output that changed is left out of the consolidation to come, for    *)
(* any number of threads, workers and faults                               *)
(* (enqueue_global_consolidation_with_executor).                           *)
THEOREM JobsNoLostWork == Spec => []NoLostWork
<1>1. JobsInv => NoLostWork
    BY DEF JobsInv
<1> QED
    BY <1>1, JobsInvariant, PTL

(* The baseline is the selection of one run                                *)
(* (mark_global_phase2_job_succeeded).                                     *)
THEOREM JobsBaseline == Spec => []BaselineIsOneRun
<1>1. JobsInv => BaselineIsOneRun
    BY DEF JobsInv
<1> QED
    BY <1>1, JobsInvariant, PTL

(* Only a claim adds a job that runs under a lease.                        *)
LEMMA LeasedSteps ==
    ASSUME JobsInv, [Next]_vars,
           ~\E w \in Workers, t \in Threads, s \in 1..MaxSource : ClaimStage1(w, t, s),
           NEW u \in Threads, Leased(stage1'[u])
    PROVE  Leased(stage1[u])
<1> USE DEF JobsInv, NoLostWork
<1>0. stage1 \in [Threads -> Job \cup {NoJob}]
    BY DEF TypeOK
<1>1. ASSUME NEW w \in Workers, NEW t \in Threads, Owns(stage1[t], w), DoneStage1(t)
      PROVE  Leased(stage1[u])
  <2>1. stage1[t] \in Job
      BY <1>0, <1>1 DEF Owns
  <2> QED
      BY <1>0, <1>1, <2>1 DEF DoneStage1, Leased, Job
<1>2. ASSUME NEW w \in Workers, NEW t \in Threads, FailStage1(w, t)
      PROVE  Leased(stage1[u])
  <2>1. stage1[t] \in Job /\ stage1[t].retries > 0
      BY <1>0, <1>2 DEF FailStage1, Owns, RetriesLeft, Retriable
  <2>2. Failed(stage1[t]).status = "error"
      BY <2>1, FailedIsJob
  <2> QED
      BY <1>0, <1>2, <2>2 DEF FailStage1, Leased
<1>3. CASE ClearMemoryData
    BY <1>3 DEF ClearMemoryData, Leased
<1>4. CASE BackoffEnds
  <2>1. ASSUME NEW t \in Threads, stage1[t] # NoJob,
               stage1' = [stage1 EXCEPT ![t].backoff = FALSE]
        PROVE  Leased(stage1[u])
    <3>1. stage1[t] \in Job
        BY <1>0, <2>1
    <3> QED
        BY <1>0, <2>1, <3>1 DEF Leased, Job
  <2> QED
      BY <1>4, <2>1 DEF BackoffEnds
<1>5. CASE LeaseEnds
  <2>1. ASSUME NEW t \in Threads, Leased(stage1[t]),
               stage1' = [stage1 EXCEPT ![t].leased = FALSE]
        PROVE  Leased(stage1[u])
    <3>1. stage1[t] \in Job
        BY <1>0, <2>1 DEF Leased
    <3> QED
        BY <1>0, <2>1, <3>1 DEF Leased, Job
  <2> QED
      BY <1>5, <2>1 DEF LeaseEnds
<1>6. CASE UNCHANGED stage1
    BY <1>6
<1>7. ASSUME NEW w \in Workers, NEW t \in Threads, Extract(w, t)
      PROVE  Leased(stage1[u])
    BY <1>1, <1>2, <1>6, <1>7 DEF Extract, LostStage1, SucceedStage1,
       SucceedStage1NoOutput, tables
<1>8. ASSUME NEW w \in Workers,
             ClaimPhase2(w) \/ Heartbeat(w) \/ Consolidate(w) \/ Crash(w)
      PROVE  UNCHANGED stage1
    BY <1>8 DEF ClaimPhase2, Heartbeat, Consolidate, SelectInput, LostPhase2,
       SucceedPhase2, FailPhase2, Crash, tables
<1>9. ASSUME NEW t \in Threads, UpdateThread(t) \/ Pollute(t) \/ Prune(t)
      PROVE  UNCHANGED stage1
    BY <1>9 DEF UpdateThread, Pollute, Prune
<1>10. CASE UNCHANGED vars
    BY <1>10, <1>6 DEF vars, tables
<1> QED
    BY <1>3, <1>4, <1>5, <1>6, <1>7, <1>8, <1>9, <1>10 DEF Next

(* No more stage-1 jobs run under a lease than the cap allows, for any     *)
(* number of threads and workers (try_claim_stage1_job).                   *)
THEOREM JobsRunningCap == Spec => []RunningCap
<1> DEFINE Under(j) == {t \in Threads : Leased(j[t])}
<1>0. \A S \in SUBSET Threads : IsFiniteSet(S) /\ Cardinality(S) \in Nat
    BY JobsAssumption, FS_Subset, FS_CardinalityType
<1>1. Init => RunningCap
  <2> SUFFICES ASSUME Init PROVE RunningCap
      OBVIOUS
  <2>1. Under(stage1) = {}
      BY DEF Init, Leased
  <2> QED
      BY <2>1, FS_EmptySet, JobsAssumption DEF RunningCap
<1>2. JobsInv /\ RunningCap /\ [Next]_vars => RunningCap'
  <2> SUFFICES ASSUME JobsInv, RunningCap, [Next]_vars PROVE RunningCap'
      OBVIOUS
  <2>1. ASSUME NEW w \in Workers, NEW t \in Threads, NEW s \in 1..MaxSource,
               ClaimStage1(w, t, s)
        PROVE  RunningCap'
    <3> DEFINE A == RunningOthers(t)
               B == Under(stage1')
    <3>1. A \in SUBSET Threads /\ B \in SUBSET Threads /\ t \notin A
        BY DEF RunningOthers
    <3>2. B \subseteq A \cup {t}
        BY <2>1 DEF JobsInv, NoLostWork, TypeOK, ClaimStage1, RunningOthers
    <3>3. Cardinality(A) < MaxRunning
        BY <2>1 DEF ClaimStage1, CanClaim
    <3> HIDE DEF A, B
    <3>4. IsFiniteSet(A \cup {t}) /\ Cardinality(A \cup {t}) = Cardinality(A) + 1
        BY <1>0, <3>1, FS_AddElement
    <3>5. Cardinality(B) <= Cardinality(A \cup {t})
        BY <3>2, <3>4, FS_Subset
    <3>6. Cardinality(B) <= MaxRunning
        BY <1>0, <3>1, <3>3, <3>4, <3>5, JobsAssumption
    <3> QED
        BY <3>6 DEF B, RunningCap
  <2>2. CASE ~\E w \in Workers, t \in Threads, s \in 1..MaxSource : ClaimStage1(w, t, s)
    <3>1. Under(stage1') \subseteq Under(stage1)
        BY <2>2, LeasedSteps
    <3>2. Cardinality(Under(stage1')) <= Cardinality(Under(stage1))
        BY <1>0, <3>1, FS_Subset
    <3> QED
        BY <1>0, <3>2, JobsAssumption DEF RunningCap
  <2> QED
      BY <2>1, <2>2
<1> QED
    BY <1>1, <1>2, JobsInvariant, PTL DEF Spec
=============================================================================
