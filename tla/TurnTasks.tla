----------------------------- MODULE TurnTasks ------------------------------
(***************************************************************************)
(* The turns of one agent session.  The session keeps at most one active   *)
(* turn: a set of running tasks and the turn state they share (pending     *)
(* input, pending approvals, mailbox phase).  The submission loop starts,  *)
(* steers and aborts turns; a task ends its own turn; a scheduler spawned  *)
(* at the end of a turn, an interrupt and a triggering mail start a turn   *)
(* for pending work; the guardian aborts a turn from a task of its own.    *)
(* Every lock of the active turn is one step: all these actors interleave  *)
(* between them.                                                           *)
(*                                                                         *)
(* Input items are tracked by identity: what matters is where an item is   *)
(* and whether it reaches the history, not what it says.                   *)
(***************************************************************************)
EXTENDS Naturals

CONSTANTS N,          \* bound on the turns of a behaviour
          Prompts,    \* user prompts
          Mails,      \* inter-agent mail
          Triggers,   \* the mail marked trigger_turn
          Notes,      \* items of approve_guardian_denied_action
          Others,     \* shell commands, reviews and compactions
          Busy,       \* bound: the turns that ask for approval or defer mail
          MaxAborts   \* bound on interrupts, guardian aborts, cancelled trees

ASSUME TurnAssumption ==
    /\ N \in Nat \ {0}
    /\ Triggers \subseteq Mails
    /\ Others \cap (Prompts \cup Mails \cup Notes) = {}
    /\ Busy \subseteq 1..N
    /\ MaxAborts \in Nat

VARIABLES
    active,    \* Session.active_turn
    tstate,    \* every TurnState ever made, by the start that made it
    idle,      \* idle_pending_input
    mail,      \* the mailbox
    task,      \* the task of each turn
    act,       \* where each actor is in a start or an abort
    ended,     \* the terminal events emitted for each turn
    fresh,     \* requests the session has not been given yet
    history,   \* input recorded in the conversation history
    dropped,   \* input that an abort, a hook or a refused turn threw away
    aborts,    \* interrupts, guardian aborts and cancelled trees so far
    stray,     \* input pushed to a turn state that was not active any more
    cut        \* turns whose task stopped between its removal and its event

vars == <<active, tstate, idle, mail, task, act, ended, fresh, history,
          dropped, aborts, stray, cut>>

Turns == 1..N
Loop == 0                      \* the submission loop
Guard == N + 1                 \* the guardian's abort task
Actors == 0..(N + 1)           \* t \in Turns: the scheduler turn t's end spawned
Items == Prompts \cup Mails \cup Notes
Requests == Items \cup Others

\* A TurnState is named by the start that made it and the lock it was made at:
\* the placeholder, the first and the second lock of start_task.
TurnStates == Turns \X (1..3)
NoTs == <<0, 0>>
NewTs == [input |-> {}, waits |-> {}, phase |-> "current"]
NoTurn == [ts |-> NoTs, tasks |-> {}]

Running == {"begin", "running", "drained", "approval"}
Ending == {"finish", "record", "cancel", "clear"}
Starting == {"take", "attach", "push", "spawn"}

ActiveTurn == [ts: TurnStates \cup {NoTs}, tasks: SUBSET Turns]
TurnState == [input: SUBSET Items, waits: SUBSET Turns, phase: {"current", "next"}]
Task == [pc: {"none", "new", "gone"} \cup Running \cup Ending,
         kind: {"regular", "shell", "review"}, held: SUBSET Items,
         cancelled: BOOLEAN, aborted: BOOLEAN, ts: TurnStates \cup {NoTs},
         cleared: BOOLEAN]
Actor == [pc: {"idle", "takeall", "abort", "grace", "check", "place", "exited"}
                \cup Starting,
          why: {"replaced", "interrupted", "shutdown"}, turn: 0..N,
          todo: SUBSET Turns, victim: 0..N, ts: TurnStates \cup {NoTs},
          held: SUBSET Items]

TypeOK ==
    /\ active \in ActiveTurn
    /\ tstate \in [TurnStates -> TurnState]
    /\ idle \subseteq Items /\ mail \subseteq Mails
    /\ task \in [Turns -> Task]
    /\ act \in [Actors -> Actor]
    /\ ended \in [Turns -> SUBSET {"complete", "aborted"}]
    /\ fresh \subseteq Requests /\ history \subseteq Items
    /\ dropped \subseteq Items
    /\ aborts \in 0..MaxAborts
    /\ stray \subseteq Items /\ cut \subseteq Turns

AtRest == [pc |-> "idle", why |-> "interrupted", turn |-> 0, todo |-> {},
           victim |-> 0, ts |-> NoTs, held |-> {}]

Init ==
    /\ active = NoTurn
    /\ tstate = [k \in TurnStates |-> NewTs]
    /\ idle = {} /\ mail = {}
    /\ task = [t \in Turns |->
                 [pc |-> "none", kind |-> "regular", held |-> {},
                  cancelled |-> FALSE, aborted |-> FALSE, ts |-> NoTs,
                  cleared |-> FALSE]]
    /\ act = [a \in Actors |-> AtRest]
    /\ ended = [t \in Turns |-> {}]
    /\ fresh = Requests
    /\ history = {} /\ dropped = {}
    /\ aborts = 0
    /\ stray = {} /\ cut = {}

-----------------------------------------------------------------------------
(* Helpers.                                                                *)

\* Somebody still has the Arc of turn state k.
Referenced(k) ==
    \/ active.ts = k
    \/ \E a \in Actors : act[a].ts = k
    \/ \E t \in Turns : task[t].ts = k

\* The next sub_id; no action takes one when the bound is used up.
NewTurn == {t \in Turns : /\ task[t].pc = "none"
                          /\ \A u \in 1..(t - 1) : task[u].pc # "none"}

\* new_default_turn_with_sub_id and the task to run in it.
NewTask(t, kind, items) ==
    task' = [task EXCEPT ![t].pc = "new", ![t].kind = kind, ![t].held = items]

\* What get_pending_input would return: it looks at whichever turn is active.
TurnInput == IF active.ts = NoTs THEN {} ELSE tstate[active.ts].input
AcceptsMail == active.ts = NoTs \/ tstate[active.ts].phase = "current"
PendingInput == TurnInput \cup (IF AcceptsMail THEN mail ELSE {})

\* Mutant: the mailbox is read, not drained.
TakePendingInputKeepsMail ==
    /\ tstate' = IF active.ts = NoTs THEN tstate
                 ELSE [tstate EXCEPT ![active.ts].input = {}]
    /\ mail' = mail

\* get_pending_input: the active turn's input and, if it takes mail, the mailbox.
TakePendingInput ==
    /\ tstate' = IF active.ts = NoTs THEN tstate
                 ELSE [tstate EXCEPT ![active.ts].input = {}]
    /\ mail' = IF AcceptsMail THEN {} ELSE mail

\* clear_pending: senders and input of a turn state are dropped; the state
\* itself goes with the turn when that is over.
ClearPending(k, over) ==
    /\ tstate' = [tstate EXCEPT ![k] = IF over THEN NewTs
                                       ELSE [@ EXCEPT !.input = {}, !.waits = {}]]
    /\ dropped' = dropped \cup tstate[k].input

\* A task is stopped where it is; what it held goes with it.
StopTask(t) ==
    /\ task' = [task EXCEPT ![t].pc = "gone", ![t].held = {}, ![t].ts = NoTs]
    /\ dropped' = dropped \cup task[t].held

\* An actor is through; the submission loop leaves after a shutdown.
Through(a) ==
    [AtRest EXCEPT !.pc = IF a = Loop /\ act[a].why = "shutdown"
                          THEN "exited" ELSE "idle"]

\* What follows abort_all_tasks: a replaced turn is started, an interrupt and
\* a shutdown look for pending work.
AfterAbort(a) ==
    [act[a] EXCEPT !.pc = IF act[a].why = "replaced" THEN "take" ELSE "check",
                   !.ts = NoTs]

Counted == aborts < MaxAborts /\ aborts' = aborts + 1 /\ UNCHANGED <<stray, cut>>
Uncounted == UNCHANGED <<aborts, stray, cut>>

-----------------------------------------------------------------------------
(* The submission loop's operations.                                       *)

\* user_input_or_turn when steer_input accepts: the prompt joins the turn.
Steer(i) ==
    /\ act[Loop].pc = "idle" /\ i \in fresh
    /\ \E t \in active.tasks : task[t].kind # "review"
    /\ fresh' = fresh \ {i}
    /\ tstate' = [tstate EXCEPT ![active.ts].input = @ \cup {i},
                                ![active.ts].phase = "current"]
    /\ UNCHANGED <<active, idle, mail, task, act, ended, history, dropped>>
    /\ Uncounted

\* spawn_task: a new sub_id, then abort_all_tasks(Replaced).
SpawnOp(i, kind, items) ==
    /\ act[Loop].pc = "idle" /\ i \in fresh
    /\ \E t \in NewTurn :
         /\ NewTask(t, kind, items)
         /\ act' = [act EXCEPT ![Loop] = [AtRest EXCEPT !.pc = "takeall",
                                            !.why = "replaced", !.turn = t]]
    /\ fresh' = fresh \ {i}
    /\ UNCHANGED <<active, tstate, idle, mail, ended, history, dropped>>
    /\ Uncounted

\* user_input_or_turn when there is no task to steer.
UserTurn(i) == active.tasks = {} /\ SpawnOp(i, "regular", {i})

\* run_user_shell_command on an idle session; compact and review on any.
OtherTask(i) ==
    \/ active.tasks = {} /\ SpawnOp(i, "shell", {})
    \/ SpawnOp(i, "review", {})

\* interrupt_task: also what ExecApproval and PatchApproval do on Abort.
Interrupt ==
    /\ act[Loop].pc = "idle" /\ active.ts # NoTs
    /\ act' = [act EXCEPT ![Loop] = [AtRest EXCEPT !.pc = "takeall"]]
    /\ UNCHANGED <<active, tstate, idle, mail, task, ended, fresh, history,
                   dropped>>
    /\ Counted

\* shutdown: abort_all_tasks(Interrupted), then the loop is left.
Shutdown ==
    /\ act[Loop].pc = "idle"
    /\ act' = [act EXCEPT ![Loop] = [AtRest EXCEPT !.pc = "takeall",
                                                   !.why = "shutdown"]]
    /\ UNCHANGED <<active, tstate, idle, mail, task, ended, fresh, history,
                   dropped>>
    /\ Counted

\* inter_agent_communication: enqueue, and look for pending work on a trigger.
InterAgentCommunication(i) ==
    /\ act[Loop].pc = "idle" /\ i \in fresh
    /\ fresh' = fresh \ {i} /\ mail' = mail \cup {i}
    /\ act' = [act EXCEPT ![Loop].pc = IF i \in Triggers THEN "check" ELSE "idle"]
    /\ UNCHANGED <<active, tstate, idle, task, ended, history, dropped>>
    /\ Uncounted

\* approve_guardian_denied_action: inject_response_items, or queue the item.
ApproveGuardianDenied(i) ==
    /\ act[Loop].pc = "idle" /\ i \in fresh
    /\ fresh' = fresh \ {i}
    /\ \/ /\ active.ts # NoTs
          /\ tstate' = [tstate EXCEPT ![active.ts].input = @ \cup {i}]
          /\ idle' = idle
       \/ /\ active.ts = NoTs
          /\ idle' = idle \cup {i}
          /\ tstate' = tstate
    /\ UNCHANGED <<active, mail, task, act, ended, history, dropped>>
    /\ Uncounted

\* notify_approval: only the active turn's approvals can be answered.
NotifyApproval(t) ==
    /\ act[Loop].pc = "idle" /\ active.ts # NoTs
    /\ t \in tstate[active.ts].waits
    /\ tstate' = [tstate EXCEPT ![active.ts].waits = @ \ {t}]
    /\ UNCHANGED <<active, idle, mail, task, act, ended, fresh, history,
                   dropped>>
    /\ Uncounted

-----------------------------------------------------------------------------
(* Aborting a turn.                                                        *)

\* take_active_turn
TakeActiveTurn(a) ==
    /\ act[a].pc = "takeall"
    /\ active' = NoTurn
    /\ act' = [act EXCEPT ![a] =
                 IF active.ts = NoTs THEN AfterAbort(a)
                 ELSE [@ EXCEPT !.pc = "abort", !.todo = active.tasks,
                                !.ts = active.ts]]
    /\ UNCHANGED <<tstate, idle, mail, task, ended, fresh, history, dropped>>
    /\ Uncounted

\* abort_turn_if_active, in the guardian's task.
AbortTurnIfActive(t) ==
    /\ act[Guard].pc = "idle" /\ t \in active.tasks
    /\ active' = NoTurn
    /\ act' = [act EXCEPT ![Guard] = [AtRest EXCEPT !.pc = "abort",
                                   !.todo = active.tasks, !.ts = active.ts]]
    /\ UNCHANGED <<tstate, idle, mail, task, ended, fresh, history, dropped>>
    /\ Counted

\* handle_task_abort: cancel the token and give the task its grace period.
\* A token that is cancelled already means nothing to do, which never happens:
\* only this cancels it, and a tree cancels a child of it.
CancelTask(a) ==
    /\ act[a].pc = "abort"
    /\ \E t \in act[a].todo :
         /\ task' = [task EXCEPT ![t].cancelled = TRUE]
         /\ act' = [act EXCEPT ![a].pc = "grace", ![a].victim = t,
                               ![a].todo = @ \ {t}]
    /\ UNCHANGED <<active, tstate, idle, mail, ended, fresh, history, dropped>>
    /\ Uncounted

\* The task is done or its grace is over: abort its handle, emit TurnAborted.
\* A task that waits stops there; one at its end may get some way further.
AbortTask(a) ==
    /\ act[a].pc = "grace"
    /\ IF task[act[a].victim].pc \in Running
       THEN StopTask(act[a].victim)
       ELSE /\ task' = [task EXCEPT ![act[a].victim].aborted = TRUE]
            /\ dropped' = dropped
    /\ ended' = [ended EXCEPT ![act[a].victim] = @ \cup {"aborted"}]
    /\ act' = [act EXCEPT ![a].pc = "abort", ![a].victim = 0]
    /\ UNCHANGED <<active, tstate, idle, mail, fresh, history>>
    /\ Uncounted

\* Every task is aborted: the turn state the abort took is cleared.
ClearAborted(a) ==
    /\ act[a].pc = "abort" /\ act[a].todo = {}
    /\ ClearPending(act[a].ts, TRUE)
    /\ act' = [act EXCEPT ![a] = AfterAbort(a)]
    /\ UNCHANGED <<active, idle, mail, task, ended, fresh, history>>
    /\ Uncounted

-----------------------------------------------------------------------------
(* Starting a turn.                                                        *)

\* maybe_start_turn_for_pending_work: is there any?
CheckPendingWork(a) ==
    /\ act[a].pc = "check"
    /\ act' = [act EXCEPT ![a] = IF idle # {} \/ mail \cap Triggers # {}
                                 THEN [@ EXCEPT !.pc = "place"] ELSE Through(a)]
    /\ UNCHANGED <<active, tstate, idle, mail, task, ended, fresh, history,
                   dropped>>
    /\ Uncounted

\* The session is idle: an empty turn reserves it while the context is built.
PlaceTurn(a) ==
    /\ act[a].pc = "place" /\ active.ts = NoTs
    /\ \E t \in NewTurn :
         /\ active' = [ts |-> <<t, 1>>, tasks |-> {}]
         /\ NewTask(t, "regular", {})
         /\ act' = [act EXCEPT ![a].pc = "take", ![a].turn = t]
    /\ UNCHANGED <<tstate, idle, mail, ended, fresh, history, dropped>>
    /\ Uncounted

\* The session is not idle: whoever ends that turn looks again.
LeaveTurn(a) ==
    /\ act[a].pc = "place" /\ active.ts # NoTs
    /\ act' = [act EXCEPT ![a] = Through(a)]
    /\ UNCHANGED <<active, tstate, idle, mail, task, ended, fresh, history,
                   dropped>>
    /\ Uncounted

\* start_task: take_queued_response_items_for_next_turn and get_pending_input
TakePending(a) ==
    /\ act[a].pc = "take"
    /\ act' = [act EXCEPT ![a].pc = "attach", ![a].held = idle \cup PendingInput]
    /\ idle' = {}
    /\ TakePendingInput
    /\ UNCHANGED <<active, task, ended, fresh, history, dropped>>
    /\ Uncounted

\* start_task, first lock: the active turn, or a new one.
AttachTurn(a) ==
    /\ act[a].pc = "attach"
    /\ active' = IF active.ts = NoTs
                 THEN [ts |-> <<act[a].turn, 2>>, tasks |-> {}] ELSE active
    /\ act' = [act EXCEPT ![a].pc = "push", ![a].ts = active'.ts]
    /\ UNCHANGED <<tstate, idle, mail, task, ended, fresh, history, dropped>>
    /\ Uncounted

\* start_task: the items go to the turn state of the first lock.
PushInput(a) ==
    /\ act[a].pc = "push"
    /\ tstate' = [tstate EXCEPT ![act[a].ts].input = @ \cup act[a].held]
    /\ act' = [act EXCEPT ![a].pc = "spawn", ![a].ts = NoTs, ![a].held = {}]
    /\ stray' = IF active.ts = act[a].ts THEN stray ELSE stray \cup act[a].held
    /\ UNCHANGED <<active, idle, mail, task, ended, fresh, history, dropped,
                   aborts, cut>>

(* Mutant: the second lock takes the turn over from any other task.        *)
SpawnTaskReplacesTurn(a) ==
    /\ act[a].pc = "spawn"
    /\ active' = [ts |-> IF active.ts = NoTs THEN <<act[a].turn, 3>> ELSE active.ts,
                  tasks |-> {act[a].turn}]
    /\ task' = [task EXCEPT ![act[a].turn].pc = "begin"]
    /\ act' = [act EXCEPT ![a] = Through(a)]
    /\ UNCHANGED <<tstate, idle, mail, ended, fresh, history, dropped>>
    /\ Uncounted

\* start_task, second lock: the task is spawned and added under the lock.
SpawnTask(a) ==
    /\ act[a].pc = "spawn"
    /\ active' = [ts |-> IF active.ts = NoTs THEN <<act[a].turn, 3>> ELSE active.ts,
                  tasks |-> active.tasks \cup {act[a].turn}]
    /\ task' = [task EXCEPT ![act[a].turn].pc = "begin"]
    /\ act' = [act EXCEPT ![a] = Through(a)]
    /\ UNCHANGED <<tstate, idle, mail, ended, fresh, history, dropped>>
    /\ Uncounted

-----------------------------------------------------------------------------
(* The task of a turn.                                                     *)

\* run_turn records the task's own prompt, or returns before it does: without
\* an account, after a failed compaction, at a cancellation or on a hook's word.
BeginRun(t) ==
    /\ task[t].pc = "begin"
    /\ task' = [task EXCEPT ![t].pc = "running", ![t].held = {}]
    /\ \/ history' = history \cup task[t].held /\ dropped' = dropped
       \/ dropped' = dropped \cup task[t].held /\ history' = history
    /\ UNCHANGED <<active, tstate, idle, mail, act, ended, fresh>>
    /\ Uncounted

\* run_turn: pending input is drained before the next sampling request ...
DrainPending(t) ==
    /\ task[t].pc = "running" /\ task[t].kind = "regular"
    /\ PendingInput # {}
    /\ task' = [task EXCEPT ![t].pc = "drained", ![t].held = PendingInput]
    /\ TakePendingInput
    /\ UNCHANGED <<active, idle, act, ended, fresh, history, dropped>>
    /\ Uncounted

\* ... and recorded once its hooks have run.
RecordPending(t) ==
    /\ task[t].pc = "drained"
    /\ task' = [task EXCEPT ![t].pc = "running", ![t].held = {}]
    /\ history' = history \cup task[t].held
    /\ UNCHANGED <<active, tstate, idle, mail, act, ended, fresh, dropped>>
    /\ Uncounted

\* A hook blocks prompt i: what came before it is recorded, the rest goes back
\* to whichever turn is active (prepend_pending_input).
BlockPending(t, i, before) ==
    /\ task[t].pc = "drained" /\ i \in task[t].held
    /\ before \subseteq task[t].held \ {i}
    /\ task' = [task EXCEPT ![t].pc = "running", ![t].held = {}]
    /\ history' = history \cup before
    /\ LET rest == task[t].held \ (before \cup {i}) IN
       IF active.ts = NoTs
       THEN tstate' = tstate /\ dropped' = dropped \cup {i} \cup rest
       ELSE /\ tstate' = [tstate EXCEPT ![active.ts].input = @ \cup rest]
            /\ dropped' = dropped \cup {i}
    /\ UNCHANGED <<active, idle, mail, act, ended, fresh>>
    /\ Uncounted

\* defer_mailbox_delivery_to_next_turn, accept_mailbox_delivery_for_current_turn
SetMailPhase(t, p) ==
    /\ task[t].pc = "running" /\ t \in active.tasks
    /\ tstate[active.ts].phase # p
    /\ p = "next" => tstate[active.ts].input = {}
    /\ tstate' = [tstate EXCEPT ![active.ts].phase = p]
    /\ UNCHANGED <<active, idle, mail, task, act, ended, fresh, history, dropped>>
    /\ Uncounted

\* request_command_approval: without an active turn the answer is Abort at once.
RequestApproval(t) ==
    /\ task[t].pc = "running" /\ task[t].kind = "regular" /\ active.ts # NoTs
    /\ tstate' = [tstate EXCEPT ![active.ts].waits = @ \cup {t}]
    /\ task' = [task EXCEPT ![t].pc = "approval"]
    /\ UNCHANGED <<active, idle, mail, act, ended, fresh, history, dropped>>
    /\ Uncounted

\* The sender has been used or dropped, or the tool call sees the cancellation.
ApprovalOver(t) ==
    /\ task[t].pc = "approval"
    /\ \/ task[t].cancelled
       \/ \A k \in TurnStates : t \in tstate[k].waits => ~Referenced(k)
    /\ task' = [task EXCEPT ![t].pc = "running"]
    /\ UNCHANGED <<active, tstate, idle, mail, act, ended, fresh, history, dropped>>
    /\ Uncounted

\* The collaboration tree of the turn is cancelled.
CancelTree(t) ==
    /\ task[t].pc \in Running /\ ~task[t].cancelled
    /\ task' = [task EXCEPT ![t].cancelled = TRUE]
    /\ UNCHANGED <<active, tstate, idle, mail, act, ended, fresh, history, dropped>>
    /\ Counted

\* run returns: a regular task only when no input is pending, or when it was
\* cancelled before it began.  The token decides which end it takes.
ExitRun(t) ==
    /\ \/ task[t].pc = "running" /\ (task[t].kind = "regular" => PendingInput = {})
       \/ task[t].pc = "begin" /\ task[t].cancelled
    /\ task' = [task EXCEPT ![t].pc = IF task[t].cancelled THEN "cancel" ELSE "finish",
                            ![t].held = {}]
    /\ dropped' = dropped \cup task[t].held
    /\ UNCHANGED <<active, tstate, idle, mail, act, ended, fresh, history>>
    /\ Uncounted

\* remove_task drops the AbortOnDropHandle of a task that removes itself: the
\* task stops at the next await that does not complete at once.
SelfAborts(t) == t \in active.tasks

(* Mutant: only the last task of a turn is removed from it.                *)
OnTaskFinishedKeepsEntry(t) ==
    /\ task[t].pc = "finish"
    /\ LET clear == active.tasks = {t} IN
         /\ active' = IF clear THEN NoTurn ELSE active
         /\ task' = [task EXCEPT ![t].pc = "record", ![t].cleared = clear,
                       ![t].ts = IF clear THEN active.ts ELSE NoTs]
    /\ UNCHANGED <<tstate, idle, mail, act, ended, fresh, history, dropped>>
    /\ Uncounted

(* Mutant: the task is removed and the empty turn stays active.            *)
OnTaskFinishedKeepsTurn(t) ==
    /\ task[t].pc = "finish"
    /\ active' = [active EXCEPT !.tasks = @ \ {t}]
    /\ task' = [task EXCEPT ![t].pc = "record", ![t].cleared = (active'.tasks = {}),
                            ![t].ts = active.ts]
    /\ UNCHANGED <<tstate, idle, mail, act, ended, fresh, history, dropped>>
    /\ Uncounted

\* on_task_finished: remove_task says whether the turn has no task left, which
\* is also so of a turn this task was never in.
OnTaskFinished(t) ==
    /\ task[t].pc = "finish"
    /\ LET rest == active.tasks \ {t}
           clear == active.ts # NoTs /\ rest = {} IN
         /\ active' = IF clear THEN NoTurn ELSE [active EXCEPT !.tasks = rest]
         /\ task' = [task EXCEPT ![t].pc = "record", ![t].cleared = clear,
                       ![t].ts = IF clear THEN active.ts ELSE NoTs,
                       ![t].aborted = @ \/ SelfAborts(t)]
         /\ UNCHANGED <<tstate, idle, mail, act, ended, fresh, history, dropped>>
    /\ Uncounted

(* Mutant: the end of a turn looks for no pending work.                    *)
RescheduleNever(t, clear) == act' = act

\* The end of a cleared turn spawns a scheduler.
Reschedule(t, clear) ==
    act' = IF clear THEN [act EXCEPT ![t].pc = "check"] ELSE act

(* Mutant: input that arrived after the last check is thrown away.         *)
CompleteTurnForgetsInput(t, blocked) ==
    /\ task[t].pc = "record" /\ blocked = {}
    /\ tstate' = IF task[t].ts = NoTs THEN tstate
                 ELSE [tstate EXCEPT ![task[t].ts] = NewTs]
    /\ ended' = [ended EXCEPT ![t] = @ \cup {"complete"}]
    /\ Reschedule(t, task[t].cleared)
    /\ task' = [task EXCEPT ![t].pc = "gone", ![t].ts = NoTs]
    /\ UNCHANGED <<active, idle, mail, fresh, history, dropped>>
    /\ Uncounted

\* on_task_finished: record what is left of the input but for the prompts a
\* hook blocks, emit TurnComplete.
CompleteTurn(t, blocked) ==
    /\ task[t].pc = "record"
    /\ IF task[t].ts = NoTs THEN blocked = {} /\ UNCHANGED <<tstate, history, dropped>>
       ELSE /\ blocked \subseteq tstate[task[t].ts].input
            /\ history' = history \cup (tstate[task[t].ts].input \ blocked)
            /\ dropped' = dropped \cup blocked
            /\ tstate' = [tstate EXCEPT ![task[t].ts] = NewTs]
    /\ ended' = [ended EXCEPT ![t] = @ \cup {"complete"}]
    /\ Reschedule(t, task[t].cleared)
    /\ task' = [task EXCEPT ![t].pc = "gone", ![t].ts = NoTs]
    /\ UNCHANGED <<active, idle, mail, fresh>>
    /\ Uncounted

(* Mutant: a cancelled task leaves its turn's end to an abort in any case. *)
OnTaskCancelledSilent(t) ==
    /\ task[t].pc = "cancel"
    /\ LET rest == active.tasks \ {t} IN
       active' = IF t \in active.tasks /\ rest = {} THEN NoTurn
                 ELSE [active EXCEPT !.tasks = rest]
    /\ task' = [task EXCEPT ![t].pc = "gone"]
    /\ UNCHANGED <<tstate, idle, mail, act, ended, fresh, history, dropped>>
    /\ Uncounted

\* on_task_cancelled: silent when the turn was taken by an abort.
OnTaskCancelled(t) ==
    /\ task[t].pc = "cancel"
    /\ LET rest == active.tasks \ {t} IN
       IF t \notin active.tasks
       THEN /\ task' = [task EXCEPT ![t].pc = "gone"]
            /\ UNCHANGED active
       ELSE /\ active' = IF rest = {} THEN NoTurn ELSE [active EXCEPT !.tasks = rest]
            /\ task' = [task EXCEPT ![t].pc = "clear", ![t].ts = active.ts,
                          ![t].cleared = (rest = {}),
                          ![t].aborted = @ \/ SelfAborts(t)]
    /\ UNCHANGED <<tstate, idle, mail, act, ended, fresh, history, dropped>>
    /\ Uncounted

\* on_task_cancelled: clear the turn state, emit TurnAborted.
CancelTurn(t) ==
    /\ task[t].pc = "clear"
    /\ ClearPending(task[t].ts, task[t].cleared)
    /\ ended' = [ended EXCEPT ![t] = @ \cup {"aborted"}]
    /\ Reschedule(t, task[t].cleared)
    /\ task' = [task EXCEPT ![t].pc = "gone", ![t].ts = NoTs]
    /\ UNCHANGED <<active, idle, mail, fresh, history>>
    /\ Uncounted

\* An aborted task stops at an await of its end.  The turn state of a turn it
\* has cleared goes with it, and nobody spawns the scheduler.
Stop(t) ==
    /\ task[t].aborted /\ task[t].pc \in Ending
    /\ task' = [task EXCEPT ![t].pc = "gone", ![t].ts = NoTs]
    /\ IF task[t].cleared THEN ClearPending(task[t].ts, TRUE)
       ELSE UNCHANGED <<tstate, dropped>>
    /\ cut' = IF task[t].pc \in {"record", "clear"} THEN cut \cup {t} ELSE cut
    /\ UNCHANGED <<active, idle, mail, act, ended, fresh, history, aborts, stray>>

-----------------------------------------------------------------------------
Submission ==
    \/ \E i \in Prompts : Steer(i) \/ UserTurn(i)
    \/ \E i \in Mails : InterAgentCommunication(i)
    \/ \E i \in Notes : ApproveGuardianDenied(i)
    \/ \E i \in Others : OtherTask(i)
    \/ \E t \in Turns : NotifyApproval(t)

ActorStep(a) ==
    \/ TakeActiveTurn(a) \/ CancelTask(a) \/ AbortTask(a) \/ ClearAborted(a)
    \/ CheckPendingWork(a) \/ PlaceTurn(a) \/ LeaveTurn(a)
    \/ TakePending(a) \/ AttachTurn(a) \/ PushInput(a) \/ SpawnTask(a)

TaskStep(t) ==
    \/ BeginRun(t) \/ RecordPending(t) \/ ApprovalOver(t)
    \/ \E i \in Prompts, before \in SUBSET Items : BlockPending(t, i, before)
    \/ OnTaskFinished(t) \/ \E blocked \in SUBSET Prompts : CompleteTurn(t, blocked)
    \/ OnTaskCancelled(t) \/ CancelTurn(t) \/ Stop(t)

SamplingOver(t) == DrainPending(t) \/ ExitRun(t)

Aborting ==
    \/ Interrupt \/ Shutdown
    \/ \E t \in Turns : AbortTurnIfActive(t) \/ CancelTree(t)

Next ==
    \/ Submission \/ Aborting
    \/ \E a \in Actors : ActorStep(a)
    \/ \E t \in Turns : TaskStep(t) \/ SamplingOver(t)
    \/ \E t \in Busy : \/ RequestApproval(t)
                       \/ \E p \in {"current", "next"} : SetMailPhase(t, p)

\* The runtime polls every task and actor; a sampling request ends, and the
\* model stops asking for more; the user answers an approval.
Fairness ==
    /\ \A a \in Actors : WF_vars(ActorStep(a))
    /\ \A t \in Turns : /\ WF_vars(TaskStep(t))
                        /\ SF_vars(SamplingOver(t))
                        /\ WF_vars(NotifyApproval(t))

Spec == Init /\ [][Next]_vars /\ Fairness

-----------------------------------------------------------------------------
(* Properties.                                                             *)

\* A task the active turn lists has not ended: it will remove itself, so the
\* session cannot stay busy with a turn nobody runs.  (With the types.)
ActiveTurnOK ==
    /\ TypeOK
    /\ \A t \in active.tasks : task[t].pc \in Running \cup {"finish", "cancel"}

\* A running task can be interrupted: it is in the active turn or in the hands
\* of an abort, however starts, ends and aborts overlap.
RunningInterruptible ==
    \A t \in Turns :
        task[t].pc \in Running =>
            \/ t \in active.tasks
            \/ \E a \in Actors : t \in act[a].todo \cup {act[a].victim}

\* An active turn without a task belongs to the start that put it there, which
\* is still under way: a placeholder never outlives its start.
PlaceholderOwned ==
    active.ts # NoTs /\ active.tasks = {} =>
        \E a \in Actors : act[a].pc \in Starting /\ act[a].turn = active.ts[1]

\* Somebody is still to record or to drop what is in turn state k: the turn is
\* active, an abort has taken it, or the task that ended it has.
Owned(k) ==
    \/ active.ts = k
    \/ \E a \in Actors : act[a].pc \in {"abort", "grace"} /\ act[a].ts = k
    \/ \E t \in Turns : task[t].cleared /\ task[t].ts = k

Somewhere ==
    fresh \cup idle \cup mail \cup history \cup dropped
          \cup (UNION {act[a].held : a \in Actors})
          \cup (UNION {task[t].held : t \in Turns})
          \cup (UNION {tstate[k].input : k \in {j \in TurnStates : Owned(j)}})

\* Input the session accepted is recorded, or thrown away by somebody, or where
\* somebody will do one of the two; only what a start pushes to a turn that was
\* taken from it between its two locks may be forgotten (start_task,
\* on_task_finished, abort_all_tasks).
InputAccounted == Items \subseteq Somewhere \cup stray

\* The places an item can be in, and what is in each; a turn state counts
\* whether or not somebody still has it.
Places == ({"fresh", "idle", "mail", "history", "dropped"} \X {0})
              \cup ({"actor"} \X Actors) \cup ({"task"} \X Turns)
              \cup ({"turn"} \X TurnStates)

Content(p) ==
    CASE p[1] = "fresh" -> fresh
      [] p[1] = "idle" -> idle
      [] p[1] = "mail" -> mail
      [] p[1] = "history" -> history
      [] p[1] = "dropped" -> dropped
      [] p[1] = "actor" -> act[p[2]].held
      [] p[1] = "task" -> task[p[2]].held
      [] p[1] = "turn" -> tstate[p[2]].input

\* Input is delivered at most once: an item that is recorded or dropped is
\* nowhere else, and no two takers of pending input hold the same item, with
\* or without overlapping starts.
InputOnce ==
    \A i \in Items :
        LET where == {p \in Places : i \in Content(p)}
        IN  \A p, q \in where : p = q

\* A turn whose task was spawned ends with a terminal event, unless its task
\* stopped between removing itself and the event, or the session was shut down
\* and nobody is left to answer its approvals (on_task_finished,
\* on_task_cancelled, handle_task_abort).
TurnsEnd ==
    \A t \in Turns : task[t].pc = "begin" ~>
        (ended[t] # {} \/ t \in cut \/ act[Loop].pc = "exited")

\* Mail marked trigger_turn leaves the mailbox: the end of a turn, an abort or
\* the mail itself starts a turn for it (within the bound on turns), unless a
\* task stopped before it spawned the scheduler that looks for it
\* (maybe_start_turn_for_pending_work).
TriggerMailTaken ==
    \A i \in Triggers : i \in mail ~>
        (i \notin mail \/ NewTurn = {} \/ act[Loop].pc = "exited"
           \/ \E t \in cut : task[t].cleared)
=============================================================================
