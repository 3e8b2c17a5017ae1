----------------------------- MODULE MemoryJobs -----------------------------
(***************************************************************************)
(* The two-stage memory pipeline of several processes over the tables jobs *)
(* and stage1_outputs of the shared state database.  Stage 1 extracts the  *)
(* memory of one thread, phase 2 consolidates the outputs of all threads.  *)
(* Both run under claims with an ownership token, a lease that can run out *)
(* under a stalled or dead worker, retries with a backoff, and watermarks  *)
(* that say which work is done.                                            *)
(*                                                                         *)
(* A worker is one process's startup pipeline; its name stands for the     *)
(* token of the claims it holds, since it claims a job again only after it *)
(* dropped the earlier claim.  Leases and backoffs are flags that go down  *)
(* when their time is over.  Watermarks count; the wall clock of           *)
(* mark_thread_memory_mode_polluted is later than every thread's           *)
(* updated_at.                                                             *)
(***************************************************************************)
EXTENDS Naturals, FiniteSets

CONSTANTS Threads, Workers,
          None,        \* no owner
          NoJob,       \* there is no row in jobs
          Live,        \* threads that are written to again
          MaxSource,   \* bound on a thread's updated_at
          MaxRunning,  \* max_running_jobs of stage 1
          Retries,     \* DEFAULT_RETRY_REMAINING
          MaxFaults    \* bound on crashes, stalls past a lease and clears

Sources == 0..MaxSource

Job == [status: {"pending", "running", "done", "error"},
        owner: Workers \cup {None}, leased: BOOLEAN, backoff: BOOLEAN,
        retries: 0..Retries, input: Nat, success: Nat]

ASSUME JobsAssumption ==
    /\ IsFiniteSet(Threads) /\ Live \subseteq Threads
    /\ None \notin Workers /\ NoJob \notin Job
    /\ MaxSource \in Nat \ {0} /\ MaxRunning \in Nat \ {0}
    /\ Retries \in Nat \ {0} /\ MaxFaults \in Nat

VARIABLES
    updated,   \* threads.updated_at
    polluted,  \* threads whose memory_mode is polluted
    output,    \* stage1_outputs.source_updated_at, 0 without a row
    baseline,  \* selected_for_phase2_source_updated_at, 0 when not selected
    stage1,    \* the stage-1 job of each thread
    phase2,    \* the global consolidation job
    extracts,  \* extracts[w][t]: the watermark w claimed t's job at, or 0
    run,       \* a worker's consolidation
    fresh,     \* outputs that changed since the last consolidation read them
    lastRead,  \* what the last successful consolidation read
    faults

tables == <<updated, polluted, output, baseline, stage1, phase2>>
vars   == <<tables, extracts, run, fresh, lastRead, faults>>

NoRun == [step |-> "idle", watermark |-> 0, read |-> [t \in Threads |-> 0],
          since |-> {}]

TypeOK ==
    /\ updated \in [Threads -> Sources] /\ polluted \in SUBSET Threads
    /\ output \in [Threads -> Sources] /\ baseline \in [Threads -> Sources]
    /\ stage1 \in [Threads -> Job \cup {NoJob}] /\ phase2 \in Job \cup {NoJob}
    /\ extracts \in [Workers -> [Threads -> Sources]]
    /\ run \in [Workers -> [step: {"idle", "claimed", "selected"},
                            watermark: Nat, read: [Threads -> Sources],
                            since: SUBSET Threads]]
    /\ fresh \in SUBSET Threads /\ lastRead \in [Threads -> Sources]
    /\ faults \in 0..MaxFaults

Init ==
    /\ updated = [t \in Threads |-> 1] /\ polluted = {}
    /\ output = [t \in Threads |-> 0] /\ baseline = [t \in Threads |-> 0]
    /\ stage1 = [t \in Threads |-> NoJob] /\ phase2 = NoJob
    /\ extracts = [w \in Workers |-> [t \in Threads |-> 0]]
    /\ run = [w \in Workers |-> NoRun]
    /\ fresh = {} /\ lastRead = [t \in Threads |-> 0]
    /\ faults = 0

Larger(x, y) == IF x > y THEN x ELSE y

Owns(job, w) == job # NoJob /\ job.status = "running" /\ job.owner = w

Leased(job) == job # NoJob /\ job.status = "running" /\ job.leased

Failed(job) == [job EXCEPT !.status = "error", !.leased = FALSE,
                           !.backoff = TRUE, !.retries = @ - 1]

(* Mutant: the watermark is the largest that was ever enqueued.            *)
EnqueueKeepsMax(x) ==
    phase2' =
        IF phase2 = NoJob
        THEN [status |-> "pending", owner |-> None, leased |-> FALSE,
              backoff |-> FALSE, retries |-> Retries, input |-> x, success |-> 0]
        ELSE [phase2 EXCEPT
                 !.status  = IF @ = "running" THEN @ ELSE "pending",
                 !.backoff = @ /\ phase2.status = "running",
                 !.retries = Larger(@, Retries),
                 !.input   = Larger(@, x)]

(* enqueue_global_consolidation_with_executor: every call moves the        *)
(* watermark, an older one by a single count.                              *)
Enqueue(x) ==
    phase2' =
        IF phase2 = NoJob
        THEN [status |-> "pending", owner |-> None, leased |-> FALSE,
              backoff |-> FALSE, retries |-> Retries, input |-> x, success |-> 0]
        ELSE [phase2 EXCEPT
                 !.status  = IF @ = "running" THEN @ ELSE "pending",
                 !.backoff = @ /\ phase2.status = "running",
                 !.retries = Larger(@, Retries),
                 !.input   = IF x > @ THEN x ELSE @ + 1]

(* An output changed; a consolidation that has read its input missed it.   *)
Changed(t) ==
    /\ fresh' = fresh \cup {t}
    /\ run' = [w \in Workers |->
                  IF run[w].step = "selected"
                  THEN [run[w] EXCEPT !.since = @ \cup {t}] ELSE run[w]]

-----------------------------------------------------------------------------
(* Stage 1.                                                                *)

RunningOthers(t) == {u \in Threads \ {t} : Leased(stage1[u])}

(* Mutant: the cap is checked for new jobs and not for takeovers.          *)
CanClaimNoCap(t, s) ==
    LET job == stage1[t]
    IN  /\ output[t] < s
        /\ IF job = NoJob
           THEN Cardinality(RunningOthers(t)) < MaxRunning
           ELSE /\ job.success < s
                /\ ~Leased(job)
                /\ ~job.backoff \/ s > job.input
                /\ job.retries > 0 \/ s > job.input

(* try_claim_stage1_job inserts or updates the row.                        *)
CanClaim(t, s) ==
    LET job == stage1[t]
    IN  /\ output[t] < s
        /\ Cardinality(RunningOthers(t)) < MaxRunning
        /\ job # NoJob =>
              /\ job.success < s
              /\ ~Leased(job)
              /\ ~job.backoff \/ s > job.input
              /\ job.retries > 0 \/ s > job.input

(* claim_stage1_jobs_for_startup claims at the updated_at it listed, which *)
(* the thread may have passed since.                                       *)
ClaimStage1(w, t, s) ==
    /\ run[w].step = "idle" /\ extracts[w][t] = 0
    /\ t \notin polluted /\ s \in 1..updated[t]
    /\ CanClaim(t, s)
    /\ stage1' = [stage1 EXCEPT ![t] =
          [status |-> "running", owner |-> w, leased |-> TRUE, backoff |-> FALSE,
           retries |-> IF stage1[t] = NoJob THEN Retries
                       ELSE IF s > stage1[t].input THEN Retries
                       ELSE stage1[t].retries,
           input |-> s,
           success |-> IF stage1[t] = NoJob THEN 0 ELSE stage1[t].success]]
    /\ extracts' = [extracts EXCEPT ![w][t] = s]
    /\ UNCHANGED <<updated, polluted, output, baseline, phase2, run, fresh,
                   lastRead, faults>>

Finish(w, t) == extracts' = [extracts EXCEPT ![w][t] = 0]

DoneStage1(t) ==
    stage1' = [stage1 EXCEPT ![t].status = "done", ![t].leased = FALSE,
                             ![t].success = stage1[t].input]

(* A worker whose claim was taken over finds out and writes nothing.       *)
LostStage1(w, t) ==
    /\ extracts[w][t] # 0 /\ ~Owns(stage1[t], w)
    /\ Finish(w, t)
    /\ UNCHANGED <<tables, run, fresh, lastRead, faults>>

SucceedStage1(w, t) ==
    /\ extracts[w][t] # 0 /\ Owns(stage1[t], w)
    /\ DoneStage1(t)
    /\ IF extracts[w][t] >= output[t]
       THEN output' = [output EXCEPT ![t] = extracts[w][t]] /\ Changed(t)
       ELSE UNCHANGED <<output, run, fresh>>
    /\ Enqueue(extracts[w][t])
    /\ Finish(w, t)
    /\ UNCHANGED <<updated, polluted, baseline, lastRead, faults>>

(* mark_stage1_job_succeeded_no_output deletes the thread's output.        *)
SucceedStage1NoOutput(w, t) ==
    /\ extracts[w][t] # 0 /\ Owns(stage1[t], w)
    /\ DoneStage1(t)
    /\ IF output[t] # 0
       THEN /\ output' = [output EXCEPT ![t] = 0]
            /\ baseline' = [baseline EXCEPT ![t] = 0]
            /\ Enqueue(stage1[t].input)
            /\ Changed(t)
       ELSE UNCHANGED <<output, baseline, phase2, run, fresh>>
    /\ Finish(w, t)
    /\ UNCHANGED <<updated, polluted, lastRead, faults>>

FailStage1(w, t) ==
    /\ extracts[w][t] # 0 /\ Owns(stage1[t], w)
    /\ stage1' = [stage1 EXCEPT ![t] = Failed(@)]
    /\ Finish(w, t)
    /\ UNCHANGED <<updated, polluted, output, baseline, phase2, run, fresh,
                   lastRead, faults>>

-----------------------------------------------------------------------------
(* Phase 2, after every extraction of the worker has ended.                *)

Dirty == phase2 # NoJob /\ phase2.input > phase2.success

(* Mutant: a running job is left alone, with or without a lease.           *)
ClaimableNotRunning ==
    Dirty /\ phase2.retries > 0 /\ ~phase2.backoff /\ phase2.status # "running"

(* try_claim_global_phase2_job.                                            *)
Claimable ==
    Dirty /\ phase2.retries > 0 /\ ~phase2.backoff /\ ~Leased(phase2)

ClaimPhase2(w) ==
    /\ run[w].step = "idle" /\ \A t \in Threads : extracts[w][t] = 0
    /\ Claimable
    /\ phase2' = [phase2 EXCEPT !.status = "running", !.owner = w,
                                !.leased = TRUE, !.backoff = FALSE]
    /\ run' = [run EXCEPT ![w] = [NoRun EXCEPT !.step = "claimed",
                                               !.watermark = phase2.input]]
    /\ UNCHANGED <<updated, polluted, output, baseline, stage1, extracts, fresh,
                   lastRead, faults>>

Selection == [t \in Threads |-> IF t \in polluted THEN 0 ELSE output[t]]

(* get_watermark: the newest selected output, or what was claimed.         *)
RunWatermark(claimed, read) ==
    {x \in {claimed} \cup {read[t] : t \in Threads} :
        x >= claimed /\ \A t \in Threads : x >= read[t]}

(* get_phase2_input_selection; the files are written and the agent starts. *)
SelectInput(w) ==
    /\ run[w].step = "claimed"
    /\ \E x \in RunWatermark(run[w].watermark, Selection) :
          run' = [run EXCEPT ![w] = [step |-> "selected", read |-> Selection,
                                     watermark |-> x, since |-> {}]]
    /\ UNCHANGED <<tables, extracts, fresh, lastRead, faults>>

EndRun(w) == run' = [run EXCEPT ![w] = NoRun]

(* The heartbeat of a run that lost its claim, or an attempt to finish it. *)
LostPhase2(w) ==
    /\ run[w].step # "idle" /\ ~Owns(phase2, w)
    /\ EndRun(w)
    /\ UNCHANGED <<tables, extracts, fresh, lastRead, faults>>

Heartbeat(w) ==
    /\ run[w].step = "selected" /\ Owns(phase2, w)
    /\ phase2' = [phase2 EXCEPT !.leased = TRUE]
    /\ UNCHANGED <<updated, polluted, output, baseline, stage1, extracts, run,
                   fresh, lastRead, faults>>

DonePhase2(w) ==
    phase2' = [phase2 EXCEPT !.status = "done", !.leased = FALSE,
                             !.success = Larger(@, run[w].watermark)]

(* Mutant: the marks of the previous selection stay.                       *)
SucceedPhase2KeepsMarks(w) ==
    /\ run[w].step = "selected" /\ Owns(phase2, w)
    /\ DonePhase2(w)
    /\ baseline' = [t \in Threads |->
          IF run[w].read[t] # 0 /\ output[t] = run[w].read[t]
          THEN output[t] ELSE baseline[t]]
    /\ fresh' = run[w].since /\ lastRead' = run[w].read
    /\ EndRun(w)
    /\ UNCHANGED <<updated, polluted, output, stage1, extracts, faults>>

(* mark_global_phase2_job_succeeded: exactly the snapshots that were read  *)
(* and are still there make up the new baseline.                           *)
SucceedPhase2(w) ==
    /\ run[w].step = "selected" /\ Owns(phase2, w)
    /\ DonePhase2(w)
    /\ baseline' = [t \in Threads |->
          IF output[t] = run[w].read[t] THEN output[t] ELSE 0]
    /\ fresh' = run[w].since /\ lastRead' = run[w].read
    /\ EndRun(w)
    /\ UNCHANGED <<updated, polluted, output, stage1, extracts, faults>>

FailPhase2(w) ==
    /\ run[w].step # "idle" /\ Owns(phase2, w)
    /\ phase2' = Failed(phase2)
    /\ EndRun(w)
    /\ UNCHANGED <<updated, polluted, output, baseline, stage1, extracts, fresh,
                   lastRead, faults>>

-----------------------------------------------------------------------------
(* Threads and operators.                                                  *)

UpdateThread(t) ==
    /\ t \in Live /\ updated[t] < MaxSource
    /\ updated' = [updated EXCEPT ![t] = @ + 1]
    /\ UNCHANGED <<polluted, output, baseline, stage1, phase2, extracts, run,
                   fresh, lastRead, faults>>

(* mark_thread_memory_mode_polluted.                                       *)
Pollute(t) ==
    /\ t \notin polluted
    /\ polluted' = polluted \cup {t}
    /\ IF baseline[t] # 0 THEN Enqueue(MaxSource + 1) ELSE UNCHANGED phase2
    /\ UNCHANGED <<updated, output, baseline, stage1, extracts, run, fresh,
                   lastRead, faults>>

(* prune_stage1_outputs_for_retention forgets what nobody uses.            *)
Prune(t) ==
    /\ output[t] # 0 /\ baseline[t] = 0
    /\ output' = [output EXCEPT ![t] = 0]
    /\ fresh' = fresh \ {t}
    /\ UNCHANGED <<updated, polluted, baseline, stage1, phase2, extracts, run,
                   lastRead, faults>>

ClearMemoryData ==
    /\ faults < MaxFaults /\ faults' = faults + 1
    /\ output' = [t \in Threads |-> 0] /\ baseline' = [t \in Threads |-> 0]
    /\ stage1' = [t \in Threads |-> NoJob] /\ phase2' = NoJob
    /\ fresh' = {}
    /\ UNCHANGED <<updated, polluted, extracts, run, lastRead>>

-----------------------------------------------------------------------------
(* Time and failure.                                                       *)

BackoffEnds ==
    \/ /\ \E t \in Threads : /\ stage1[t] # NoJob /\ stage1[t].backoff
                             /\ stage1' = [stage1 EXCEPT ![t].backoff = FALSE]
       /\ UNCHANGED <<updated, polluted, output, baseline, phase2, extracts, run,
                      fresh, lastRead, faults>>
    \/ /\ phase2 # NoJob /\ phase2.backoff
       /\ phase2' = [phase2 EXCEPT !.backoff = FALSE]
       /\ UNCHANGED <<updated, polluted, output, baseline, stage1, extracts, run,
                      fresh, lastRead, faults>>

(* A lease runs out under a dead worker, or under one that stalls.         *)
Alive(alive) ==
    faults' = IF alive THEN faults + 1 ELSE faults

LeaseEnds ==
    \/ /\ \E t \in Threads :
             /\ Leased(stage1[t])
             /\ LET alive == extracts[stage1[t].owner][t] # 0
                IN  (alive => faults < MaxFaults) /\ Alive(alive)
             /\ stage1' = [stage1 EXCEPT ![t].leased = FALSE]
       /\ UNCHANGED <<updated, polluted, output, baseline, phase2, extracts, run,
                      fresh, lastRead>>
    \/ /\ Leased(phase2)
       /\ LET alive == run[phase2.owner].step # "idle"
          IN  (alive => faults < MaxFaults) /\ Alive(alive)
       /\ phase2' = [phase2 EXCEPT !.leased = FALSE]
       /\ UNCHANGED <<updated, polluted, output, baseline, stage1, extracts, run,
                      fresh, lastRead>>

(* The process ends; the next one to start has the worker's name.          *)
Crash(w) ==
    /\ faults < MaxFaults /\ faults' = faults + 1
    /\ run[w].step # "idle" \/ \E t \in Threads : extracts[w][t] # 0
    /\ extracts' = [extracts EXCEPT ![w] = [t \in Threads |-> 0]]
    /\ EndRun(w)
    /\ UNCHANGED <<tables, fresh, lastRead>>

Extract(w, t) ==
    \/ LostStage1(w, t) \/ SucceedStage1(w, t)
    \/ SucceedStage1NoOutput(w, t) \/ FailStage1(w, t)

Consolidate(w) == SelectInput(w) \/ LostPhase2(w) \/ SucceedPhase2(w) \/ FailPhase2(w)

Next ==
    \/ \E w \in Workers :
          \/ \E t \in Threads : \/ Extract(w, t)
                                \/ \E s \in 1..MaxSource : ClaimStage1(w, t, s)
          \/ ClaimPhase2(w) \/ Heartbeat(w) \/ Consolidate(w)
          \/ Crash(w)
    \/ \E t \in Threads : UpdateThread(t) \/ Pollute(t) \/ Prune(t)
    \/ ClearMemoryData \/ BackoffEnds \/ LeaseEnds

(* Time passes, a claimed job is worked on, and processes keep starting.   *)
Spec     == Init /\ [][Next]_vars
FairSpec == /\ Spec
            /\ WF_vars(BackoffEnds) /\ WF_vars(LeaseEnds)
            /\ WF_vars(\E w \in Workers : ClaimPhase2(w))
            /\ \A w \in Workers :
                  /\ WF_vars(Consolidate(w))
                  /\ \A t \in Threads : WF_vars(Extract(w, t))

-----------------------------------------------------------------------------
(* An output that was written or deleted after the last successful         *)
(* consolidation read its input leaves the global job dirty, whatever its  *)
(* watermark, however long the run took and whichever run succeeded        *)
(* (enqueue_global_consolidation_with_executor, get_watermark,             *)
(* mark_global_phase2_job_succeeded).                                      *)
NoLostWork == TypeOK /\ (fresh # {} => Dirty)

(* The baseline that decides what to retain and what to forget is one      *)
(* run's selection: marks of two runs never mix, and a marked output is    *)
(* the one that was read or a newer one (mark_global_phase2_job_succeeded, *)
(* mark_stage1_job_succeeded).                                             *)
BaselineIsOneRun ==
    \A t \in Threads : baseline[t] # 0 =>
        baseline[t] = lastRead[t] /\ output[t] >= baseline[t]

(* No more stage-1 jobs run under a lease than the cap allows, takeovers   *)
(* of dead workers' jobs included (try_claim_stage1_job).                  *)
RunningCap == Cardinality({t \in Threads : Leased(stage1[t])}) <= MaxRunning

(* A dirty global job is consolidated, or used up its retries, though      *)
(* workers die and stall with it (try_claim_global_phase2_job,             *)
(* heartbeat_global_phase2_job).                                           *)
DirtyIsConsolidated ==
    Dirty ~> (~Dirty \/ phase2.retries = 0)
=============================================================================
