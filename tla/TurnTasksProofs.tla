--------------------------- MODULE TurnTasksProofs ---------------------------
(***************************************************************************)
(* Proofs of the safety properties of TurnTasks: whatever turns start, end *)
(* and are aborted at once, the active turn lists only tasks that will     *)
(* remove themselves, a running task can be interrupted, an empty turn     *)
(* belongs to the start that made it, accepted input is recorded, thrown   *)
(* away or with somebody who will do one of the two, but for what a start  *)
(* pushes to a turn that was taken from it, and no input is delivered      *)
(* twice.                                                                  *)
(*                                                                         *)
(* Every action moves at most one actor and one task.  The two lemmas      *)
(* MoveStructure and MoveInput say what such a move must respect; the      *)
(* proof of each action shows that it does.  OnceMove does the same for an *)
(* item that goes from one place to another.                               *)
(***************************************************************************)
EXTENDS TurnTasks, TLAPS

-----------------------------------------------------------------------------
(* The inductive invariant.                                                *)

\* The tasks an abort has taken and not dealt with yet.
Doom(r) == {t \in Turns : t \in r.todo \/ t = r.victim}

\* What an actor's place in a start or an abort says of its other fields.
ActorRec(r) ==
    /\ r.pc = "idle" => r = AtRest
    /\ r.pc \notin {"abort", "grace"} => r.todo = {}
    /\ r.pc # "grace" <=> r.victim = 0
    /\ r.pc \in {"abort", "grace", "push"} <=> r.ts # NoTs
    /\ r.held # {} => r.pc \in {"attach", "push"}
    /\ r.pc \in Starting \/ r.why = "replaced" => r.turn # 0

\* What a task's place says of its other fields.
TaskRec(m) ==
    /\ m.aborted => m.pc \in Ending \cup {"gone"}
    /\ m.ts # NoTs => m.pc \in {"record", "clear"}
    /\ m.pc = "clear" => m.ts # NoTs
    /\ m.held # {} => m.pc \in {"new", "begin", "drained"}
    /\ m.cleared => m.pc \in {"record", "clear", "gone"}
    /\ m.cleared /\ m.ts = NoTs => m.pc = "gone"

\* A task the active turn may list.
Listed(m) == m.pc \in Running \cup {"finish", "cancel"} /\ ~m.aborted

ActiveOK ==
    /\ active.ts = NoTs => active.tasks = {}
    /\ \A t \in active.tasks : Listed(task[t])

\* The turn of a start has not been spawned, and is nobody else's.
StartsOK ==
    /\ \A a \in Actors : act[a].turn # 0 => task[act[a].turn].pc = "new"
    /\ \A a, b \in Actors : act[a].turn = act[b].turn /\ a # b => act[a].turn = 0

\* A task an abort has taken was spawned and is not listed any more.
AbortsOK ==
    \A a \in Actors : \A t \in Doom(act[a]) :
        t \notin active.tasks /\ task[t].pc \notin {"none", "new"}

\* The scheduler of a turn does nothing before the turn's task is gone.
SchedulersOK == \A t \in Turns : task[t].pc # "gone" => act[t] = AtRest

Structure ==
    /\ TypeOK
    /\ \A a \in Actors : ActorRec(act[a])
    /\ \A t \in Turns : TaskRec(task[t])
    /\ ActiveOK
    /\ StartsOK
    /\ AbortsOK
    /\ SchedulersOK
    /\ RunningInterruptible
    /\ PlaceholderOwned

InputSafe == Items \subseteq Somewhere \cup stray

TurnInv == Structure /\ InputSafe

-----------------------------------------------------------------------------
(* One actor and one task move.                                            *)

Moves(a, r, t, m) ==
    /\ act' = [act EXCEPT ![a] = r]
    /\ task' = [task EXCEPT ![t] = m]

\* The active turn keeps its name, and gets no task but the one that moves.
ActiveMove(t, m) ==
    /\ active'.ts = NoTs => active'.tasks = {}
    /\ active'.tasks \subseteq active.tasks \cup {t}
    /\ t \in active'.tasks => Listed(m) /\ (t \in active.tasks \/ task[t].pc = "new")

\* An actor's turn is the one it had, or the one made now; only its actor
\* spawns it.
StartMove(a, r, t, m) ==
    /\ r.turn # 0 => \/ r.turn = act[a].turn /\ (t = r.turn => m.pc = "new")
                     \/ r.turn = t /\ task[t].pc = "none" /\ m.pc = "new"
    /\ task[t].pc = "new" => m.pc = "new" \/ act[a].turn = t

\* An abort takes what leaves the active turn, and lets go of what has ended.
AbortMove(a, r, t, m) ==
    /\ \A u \in Doom(r) : u \in Doom(act[a]) \/ (u \in active.tasks /\ u \notin active'.tasks)
    /\ \A u \in Turns :
         u \in Doom(act[a]) \/ (u \in active.tasks /\ u \notin active'.tasks)
             => u \in Doom(r) \/ (u = t /\ m.pc \notin Running)

\* A task comes neither from nowhere nor back, and runs only when listed.
TaskMove(a, r, t, m) ==
    /\ m.pc \in {"none", "new"} => task[t].pc \in {"none", "new"}
    /\ m.pc # "gone" => task[t].pc # "gone"
    /\ m.pc \in Running => task[t].pc \in Running \/ t \in active'.tasks
    /\ a \in Turns => r = act[a] \/ task'[a].pc = "gone"

\* An actor with record r is the start of turn state k.
Starts(r, k) == r.pc \in Starting /\ r.turn = k[1]

\* A turn left without a task has its start under way.
PlaceholderMove(a, r) ==
    active'.ts # NoTs /\ active'.tasks = {} =>
        \/ Starts(r, active'.ts)
        \/ active'.ts = active.ts /\ active.tasks = {} /\ ~Starts(act[a], active.ts)

StructureMove(a, r, t, m) ==
    /\ ActorRec(r) /\ TaskRec(m)
    /\ ActiveMove(t, m)
    /\ StartMove(a, r, t, m)
    /\ AbortMove(a, r, t, m)
    /\ TaskMove(a, r, t, m)
    /\ PlaceholderMove(a, r)

\* A move that respects StructureMove keeps what the turns, tasks, starts and
\* aborts of the session agree on.
LEMMA MoveStructure ==
    ASSUME Structure, TypeOK',
           NEW a \in Actors, NEW r \in Actor, NEW t \in Turns, NEW m \in Task,
           Moves(a, r, t, m), StructureMove(a, r, t, m)
    PROVE  Structure'
<1> USE DEF Moves, Turns, Actors
<1>0. Turns \subseteq Actors /\ 0 \notin Turns
  BY TurnAssumption
<1>1. /\ act \in [Actors -> Actor] /\ task \in [Turns -> Task]
      /\ active.tasks \subseteq Turns /\ active'.tasks \subseteq Turns
  BY DEF Structure, TypeOK, ActiveTurn
<1>2. /\ act'[a] = r /\ \A b \in Actors : b # a => act'[b] = act[b]
      /\ task'[t] = m /\ \A u \in Turns : u # t => task'[u] = task[u]
  BY <1>1
<1> HIDE DEF Moves, Turns, Actors
<1>3. /\ \A b \in Actors : act[b].turn \in Turns \cup {0} /\ Doom(act[b]) \subseteq Turns
      /\ r.turn \in Turns \cup {0} /\ Doom(r) \subseteq Turns
  BY <1>1, TurnAssumption DEF Actor, Doom, Turns
<1>4. (\A b \in Actors : ActorRec(act[b]))'
  BY <1>2 DEF Structure, StructureMove, ActorRec
<1>5. (\A u \in Turns : TaskRec(task[u]))'
  BY <1>2 DEF Structure, StructureMove, TaskRec
<1>6. ActiveOK'
  BY <1>1, <1>2 DEF Structure, StructureMove, ActiveOK, ActiveMove, Listed
<1>7. StartsOK'
  <2>1. \A b \in Actors : act'[b].turn # 0 => task'[act'[b].turn].pc = "new"
    BY <1>2, <1>3 DEF Structure, StructureMove, StartsOK, StartMove
  <2>2. \A b \in Actors : b # a /\ r.turn = act[b].turn => r.turn = 0
    BY <1>2, <1>3 DEF Structure, StructureMove, StartsOK, StartMove
  <2> QED
    BY <1>2, <2>1, <2>2 DEF Structure, StartsOK
<1>8. AbortsOK'
  <2> SUFFICES ASSUME NEW b \in Actors, NEW u \in Doom(act'[b])
               PROVE  u \notin active'.tasks /\ task'[u].pc \notin {"none", "new"}
    BY DEF AbortsOK, Doom
  <2>1. u \in Turns
    BY <1>2, <1>3
  <2>2. task[u].pc \notin {"none", "new"} /\ u \notin active'.tasks
    <3>1. CASE u \in Doom(act[b])
      BY <2>1, <3>1 DEF Structure, StructureMove, AbortsOK, ActiveMove
    <3>2. CASE u \notin Doom(act[b])
      BY <1>2, <2>1, <3>2
      DEF Structure, StructureMove, AbortMove, ActiveOK, Listed, Running
    <3> QED BY <3>1, <3>2
  <2> QED
    BY <1>2, <2>1, <2>2 DEF StructureMove, TaskMove
<1>9. SchedulersOK'
  BY <1>0, <1>2 DEF Structure, StructureMove, SchedulersOK, TaskMove
<1>10. RunningInterruptible'
  <2> SUFFICES ASSUME NEW u \in Turns, task'[u].pc \in Running, u \notin active'.tasks
               PROVE  \E b \in Actors : u \in act'[b].todo \cup {act'[b].victim}
    BY DEF RunningInterruptible
  <2>1. task[u].pc \in Running /\ ~(u = t /\ m.pc \notin Running)
    BY <1>2 DEF StructureMove, TaskMove
  <2>2. u \in active.tasks \/ \E b \in Actors : u \in Doom(act[b])
    BY <2>1 DEF Structure, RunningInterruptible, Doom
  <2>3. u \in Doom(r) \/ \E b \in Actors : b # a /\ u \in Doom(act[b])
    BY <2>1, <2>2 DEF StructureMove, AbortMove
  <2> QED
    BY <1>2, <2>3 DEF Doom
<1>11. PlaceholderOwned'
  BY <1>2 DEF Structure, StructureMove, PlaceholderMove, PlaceholderOwned, Starts
<1> QED
  BY <1>4, <1>5, <1>6, <1>7, <1>8, <1>9, <1>10, <1>11 DEF Structure

-----------------------------------------------------------------------------
(* Where the input is.                                                     *)

\* Input outside the turn states, the actors and the tasks.
Loose == fresh \cup idle \cup mail \cup history \cup dropped

\* An actor or a task with this record is to deal with turn state k.
ActorOwns(r, k) == r.pc \in {"abort", "grace"} /\ r.ts = k
TaskOwns(m, k) == m.cleared /\ m.ts = k

\* After a move that leaves actor a as r and task t as m, input i is loose, has
\* gone astray, or is in the hands of one of the two or in the active turn.
Kept(i, r, m) ==
    \/ i \in Loose'
    \/ i \in stray'
    \/ i \in r.held
    \/ i \in m.held
    \/ active'.ts # NoTs /\ i \in tstate'[active'.ts].input

\* Input stays where it is or is kept, and so is the input of a turn state the
\* move lets go of.
InputMove(a, r, t, m) ==
    /\ \A i \in Items : i \in Loose \/ i \in act[a].held \/ i \in task[t].held
                            => Kept(i, r, m)
    /\ \A k \in TurnStates : \A i \in tstate[k].input :
         i \in tstate'[k].input \/ Kept(i, r, m)
    /\ \A k \in TurnStates : \A i \in tstate[k].input :
         active.ts = k \/ ActorOwns(act[a], k) \/ TaskOwns(task[t], k) =>
             active'.ts = k \/ ActorOwns(r, k) \/ TaskOwns(m, k) \/ Kept(i, r, m)

\* The union that InputSafe speaks of, place by place, before and after a step.
LEMMA SomewhereIs ==
    /\ \A i : i \in Somewhere \cup stray <=>
         \/ i \in Loose \/ i \in stray
         \/ \E a \in Actors : i \in act[a].held
         \/ \E t \in Turns : i \in task[t].held
         \/ \E k \in TurnStates : Owned(k) /\ i \in tstate[k].input
    /\ \A i : i \in Somewhere' \cup stray' <=>
         \/ i \in Loose' \/ i \in stray'
         \/ \E a \in Actors : i \in act'[a].held
         \/ \E t \in Turns : i \in task'[t].held
         \/ \E k \in TurnStates : Owned(k)' /\ i \in tstate'[k].input
  BY DEF Somewhere, Loose

\* A move that respects InputMove loses no input.
LEMMA MoveInput ==
    ASSUME Structure, InputSafe, TypeOK', stray \subseteq stray',
           NEW a \in Actors, NEW r \in Actor, NEW t \in Turns, NEW m \in Task,
           Moves(a, r, t, m), InputMove(a, r, t, m)
    PROVE  InputSafe'
<1> SUFFICES ASSUME NEW i \in Items
             PROVE  i \in Somewhere' \cup stray'
  BY DEF InputSafe, Items
<1>1. act \in [Actors -> Actor] /\ task \in [Turns -> Task]
  BY DEF Structure, TypeOK
<1>2. /\ act'[a] = r /\ \A b \in Actors : b # a => act'[b] = act[b]
      /\ task'[t] = m /\ \A u \in Turns : u # t => task'[u] = task[u]
  BY <1>1 DEF Moves
<1>3. \A k : Owned(k)' <=> \/ active'.ts = k
                           \/ \E b \in Actors : ActorOwns(act'[b], k)
                           \/ \E u \in Turns : TaskOwns(task'[u], k)
  BY DEF Owned, ActorOwns, TaskOwns
<1>4. active'.ts \in TurnStates \cup {NoTs}
  BY DEF TypeOK, ActiveTurn
<1>5. Kept(i, r, m) => i \in Somewhere' \cup stray'
  BY <1>2, <1>3, <1>4, SomewhereIs DEF Kept
<1>6. CASE i \in Loose \/ i \in stray
  BY <1>5, <1>6, SomewhereIs DEF InputMove
<1>7. ASSUME NEW b \in Actors, i \in act[b].held
      PROVE  i \in Somewhere' \cup stray'
  <2>1. CASE b = a
    BY <1>5, <1>7, <2>1 DEF InputMove
  <2>2. CASE b # a
    BY <1>2, <1>7, <2>2, SomewhereIs
  <2> QED BY <2>1, <2>2
<1>8. ASSUME NEW u \in Turns, i \in task[u].held
      PROVE  i \in Somewhere' \cup stray'
  <2>1. CASE u = t
    BY <1>5, <1>8, <2>1 DEF InputMove
  <2>2. CASE u # t
    BY <1>2, <1>8, <2>2, SomewhereIs
  <2> QED BY <2>1, <2>2
<1>9. ASSUME NEW k \in TurnStates, Owned(k), i \in tstate[k].input
      PROVE  i \in Somewhere' \cup stray'
  <2> SUFFICES ASSUME ~Kept(i, r, m)
               PROVE  i \in Somewhere' \cup stray'
    BY <1>5
  <2>1. i \in tstate'[k].input
    BY <1>9 DEF InputMove
  <2>2. Owned(k)'
    <3>1. CASE active.ts = k \/ ActorOwns(act[a], k) \/ TaskOwns(task[t], k)
      <4>1. active'.ts = k \/ ActorOwns(r, k) \/ TaskOwns(m, k)
        BY <1>9, <3>1 DEF InputMove
      <4> QED
        BY <1>2, <1>3, <4>1
    <3>2. CASE ~(active.ts = k \/ ActorOwns(act[a], k) \/ TaskOwns(task[t], k))
      <4>1. \/ \E b \in Actors : ActorOwns(act[b], k)
            \/ \E u \in Turns : TaskOwns(task[u], k)
        BY <1>9, <3>2 DEF Owned, ActorOwns, TaskOwns
      <4> QED
        BY <1>2, <1>3, <3>2, <4>1
    <3> QED BY <3>1, <3>2
  <2> QED
    BY <2>1, <2>2, SomewhereIs
<1> QED
  BY <1>6, <1>7, <1>8, <1>9, SomewhereIs DEF InputSafe

-----------------------------------------------------------------------------
(* The move of an action, with the types of what else it assigns.          *)

\* Input goes astray, or a task stops after its own removal.
Marked == /\ aborts' = aborts
          /\ stray \subseteq stray' /\ stray' \subseteq Items
          /\ cut' \subseteq Turns

Typed ==
    /\ active' \in ActiveTurn
    /\ tstate' \in [TurnStates -> TurnState]
    /\ idle' \subseteq Items /\ mail' \subseteq Mails
    /\ ended' \in [Turns -> SUBSET {"complete", "aborted"}]
    /\ fresh' \subseteq Requests /\ history' \subseteq Items
    /\ dropped' \subseteq Items
    /\ Counted \/ Uncounted \/ Marked

\* A move of one actor and one task that respects both kinds of move keeps the
\* invariant.
LEMMA MoveInv ==
    ASSUME TurnInv, Typed,
           NEW a \in Actors, NEW r \in Actor, NEW t \in Turns, NEW m \in Task,
           Moves(a, r, t, m), StructureMove(a, r, t, m), InputMove(a, r, t, m)
    PROVE  TurnInv'
<1>1. Structure /\ TypeOK
  BY DEF TurnInv, Structure
<1>2. /\ aborts' \in 0..MaxAborts /\ cut' \subseteq Turns
      /\ stray' \subseteq Items /\ stray \subseteq stray'
  BY <1>1, TurnAssumption DEF Typed, Counted, Uncounted, Marked, TypeOK
<1>3. act' \in [Actors -> Actor] /\ task' \in [Turns -> Task]
  BY <1>1 DEF TypeOK, Moves
<1>4. TypeOK'
  BY <1>2, <1>3 DEF Typed, TypeOK
<1>5. Structure'
  BY <1>1, <1>4, MoveStructure
<1>6. InputSafe'
  BY <1>1, <1>2, <1>4, MoveInput DEF TurnInv
<1> QED
  BY <1>5, <1>6 DEF TurnInv

\* Only an actor moves, with or without the active turn.
LEMMA ActorMoves ==
    ASSUME TurnInv, Typed,
           NEW a \in Actors, NEW r \in Actor,
           act' = [act EXCEPT ![a] = r], task' = task,
           ActorRec(r), PlaceholderMove(a, r),
           active'.ts = NoTs => active'.tasks = {},
           active'.tasks \subseteq active.tasks,
           r.turn \in {0, act[a].turn},
           \A u \in Turns :
             u \in Doom(r) <=> \/ u \in Doom(act[a])
                               \/ u \in active.tasks /\ u \notin active'.tasks,
           a \in Turns => r = act[a] \/ task[a].pc = "gone",
           \A m \in Task :
             /\ \A i \in Items : i \in Loose \/ i \in act[a].held => Kept(i, r, m)
             /\ \A k \in TurnStates : \A i \in tstate[k].input :
                  i \in tstate'[k].input \/ Kept(i, r, m)
             /\ \A k \in TurnStates : \A i \in tstate[k].input :
                  active.ts = k \/ ActorOwns(act[a], k) =>
                      active'.ts = k \/ ActorOwns(r, k) \/ Kept(i, r, m)
    PROVE  TurnInv'
<1>1. 1 \in Turns
  BY TurnAssumption DEF Turns
<1>2. Structure /\ TypeOK
  BY DEF TurnInv, Structure
<1>3. /\ task[1] \in Task /\ task \in [Turns -> Task]
      /\ TaskRec(task[1]) /\ active.tasks \subseteq Turns
  BY <1>1, <1>2 DEF Structure, TypeOK, ActiveTurn
<1>4. Moves(a, r, 1, task[1])
  BY <1>1, <1>3 DEF Moves
<1>5. r.turn # 0 => task[r.turn].pc = "new"
  BY <1>2 DEF Structure, StartsOK
<1>6. \A u \in active.tasks : Listed(task[u])
  BY <1>2 DEF Structure, ActiveOK
<1>7. StructureMove(a, r, 1, task[1])
  <2>1. ActiveMove(1, task[1])
    BY <1>6 DEF ActiveMove
  <2>2. StartMove(a, r, 1, task[1])
    BY <1>5 DEF StartMove
  <2>3. AbortMove(a, r, 1, task[1])
    BY <1>3 DEF AbortMove, Doom
  <2>4. TaskMove(a, r, 1, task[1])
    BY DEF TaskMove
  <2> QED
    BY <1>3, <2>1, <2>2, <2>3, <2>4 DEF StructureMove
<1>8. InputMove(a, r, 1, task[1])
  BY <1>3 DEF InputMove, Kept
<1> QED
  BY <1>1, <1>3, <1>4, <1>7, <1>8, MoveInv

\* Only a task that was spawned moves, with or without the active turn.
LEMMA TaskMoves ==
    ASSUME TurnInv, Typed,
           NEW t \in Turns, NEW m \in Task,
           task' = [task EXCEPT ![t] = m], act' = act,
           TaskRec(m),
           active'.ts = NoTs => active'.tasks = {},
           active'.tasks \subseteq active.tasks,
           t \in active'.tasks => Listed(m),
           active.tasks \subseteq active'.tasks \cup {t},
           t \in active.tasks /\ t \notin active'.tasks => m.pc \notin Running,
           active'.ts # NoTs /\ active'.tasks = {} =>
               active'.ts = active.ts /\ active.tasks = {},
           task[t].pc \notin {"none", "new"}, m.pc \notin {"none", "new"},
           m.pc # "gone" => task[t].pc # "gone",
           m.pc \in Running => task[t].pc \in Running,
           \A r \in Actor :
             /\ \A i \in Items : i \in Loose \/ i \in task[t].held => Kept(i, r, m)
             /\ \A k \in TurnStates : \A i \in tstate[k].input :
                  i \in tstate'[k].input \/ Kept(i, r, m)
             /\ \A k \in TurnStates : \A i \in tstate[k].input :
                  active.ts = k \/ TaskOwns(task[t], k) =>
                      active'.ts = k \/ TaskOwns(m, k) \/ Kept(i, r, m)
    PROVE  TurnInv'
<1>1. \E a \in Actors : active'.ts # NoTs /\ active'.tasks = {} => Starts(act[a], active'.ts)
  BY TurnAssumption DEF TurnInv, Structure, PlaceholderOwned, Actors, Starts
<1>2. PICK a \in Actors :
        active'.ts # NoTs /\ active'.tasks = {} => Starts(act[a], active'.ts)
  BY <1>1
<1> DEFINE r == act[a]
<1>3. Structure /\ TypeOK
  BY DEF TurnInv, Structure
<1>4. r \in Actor /\ act \in [Actors -> Actor] /\ ActorRec(r)
  BY <1>3 DEF Structure, TypeOK
<1>5. Moves(a, r, t, m)
  BY <1>4 DEF Moves
<1>6. r.turn # 0 => task[r.turn].pc = "new"
  BY <1>3 DEF Structure, StartsOK
<1>7. StructureMove(a, r, t, m)
  <2>1. ActiveMove(t, m)
    BY DEF ActiveMove
  <2>2. StartMove(a, r, t, m)
    BY <1>6 DEF StartMove
  <2>3. AbortMove(a, r, t, m)
    BY DEF AbortMove
  <2>4. TaskMove(a, r, t, m)
    BY DEF TaskMove
  <2>5. PlaceholderMove(a, r)
    BY <1>2 DEF PlaceholderMove
  <2> QED
    BY <1>4, <2>1, <2>2, <2>3, <2>4, <2>5 DEF StructureMove
<1>8. InputMove(a, r, t, m)
  BY <1>4 DEF InputMove, Kept
<1> HIDE DEF r
<1> QED
  BY <1>4, <1>5, <1>7, <1>8, MoveInv

-----------------------------------------------------------------------------
(* What the proofs of the actions use of the invariant.                    *)

\* The parts of the invariant that the steps of a task or an actor read.
LEMMA Known ==
    ASSUME TurnInv
    PROVE  /\ TypeOK /\ ActiveOK
           /\ active \in ActiveTurn /\ task \in [Turns -> Task]
           /\ act \in [Actors -> Actor] /\ tstate \in [TurnStates -> TurnState]
           /\ \A t \in Turns : /\ task[t] \in Task /\ TaskRec(task[t])
                               /\ t \in active.tasks => Listed(task[t])
           /\ \A a \in Actors : act[a] \in Actor /\ ActorRec(act[a])
  BY DEF TurnInv, Structure, ActiveOK, TypeOK

\* NoTs names no turn state, and every kind of item is input.
LEMMA Names ==
    /\ NoTs \notin TurnStates
    /\ Prompts \subseteq Items /\ Mails \subseteq Items /\ Notes \subseteq Items
    /\ Items \subseteq Requests /\ Others \cap Items = {}
    /\ Turns \subseteq Actors /\ 0 \notin Turns
    /\ Turns \subseteq 0..N /\ 0 \in 0..N
    /\ Loop \in Actors /\ Guard \in Actors
    /\ Loop \notin Turns /\ Guard \notin Turns
  BY TurnAssumption
  DEF NoTs, TurnStates, Items, Requests, Turns, Actors, Loop, Guard

\* The pending input is input, and taking it leaves nothing of it behind: it
\* was in the active turn or in the mailbox.
LEMMA Pending ==
    ASSUME TurnInv
    PROVE  /\ PendingInput \subseteq Items
           /\ TakePendingInput =>
                /\ tstate' \in [TurnStates -> TurnState] /\ mail' \subseteq Mails
                /\ \A i \in mail : i \in mail' \/ i \in PendingInput
                /\ \A k \in TurnStates : \A i \in tstate[k].input :
                     i \in tstate'[k].input \/ i \in PendingInput
<1>1. /\ active \in ActiveTurn /\ tstate \in [TurnStates -> TurnState]
      /\ mail \subseteq Mails
  BY Known DEF TypeOK
<1>2. /\ active.ts # NoTs => active.ts \in TurnStates
      /\ \A k \in TurnStates : tstate[k] \in TurnState /\ tstate[k].input \subseteq Items
  BY <1>1 DEF ActiveTurn, TurnState
<1>3. TurnInput \subseteq Items
  BY <1>2 DEF TurnInput
<1>4. PendingInput \subseteq Items
  BY <1>1, <1>3, Names DEF PendingInput
<1>5. ASSUME TakePendingInput
      PROVE  /\ tstate' \in [TurnStates -> TurnState]
             /\ \A k \in TurnStates : \A i \in tstate[k].input :
                  i \in tstate'[k].input \/ i \in PendingInput
  <2>1. CASE active.ts = NoTs
    BY <1>1, <1>5, <2>1 DEF TakePendingInput
  <2>2. CASE active.ts # NoTs
    <3>1. tstate' = [tstate EXCEPT ![active.ts] = [tstate[active.ts] EXCEPT !.input = {}]]
      BY <1>5, <2>2 DEF TakePendingInput
    <3>2. [tstate[active.ts] EXCEPT !.input = {}] \in TurnState
      BY <1>2, <2>2 DEF TurnState
    <3>3. tstate' \in [TurnStates -> TurnState]
      BY <1>1, <3>1, <3>2
    <3>4. \A k \in TurnStates : k # active.ts => tstate'[k] = tstate[k]
      BY <1>1, <3>1
    <3>5. tstate[active.ts].input \subseteq PendingInput
      BY <2>2 DEF PendingInput, TurnInput
    <3> QED
      BY <3>3, <3>4, <3>5
  <2> QED BY <2>1, <2>2
<1>6. TakePendingInput => /\ mail' \subseteq Mails
                          /\ \A i \in mail : i \in mail' \/ i \in PendingInput
  BY <1>1 DEF TakePendingInput, PendingInput
<1> QED
  BY <1>4, <1>5, <1>6

-----------------------------------------------------------------------------
(* The task of a turn.                                                     *)

\* The task's prompt goes to the history, or is dropped.
LEMMA BeginRunInv ==
    ASSUME TurnInv, NEW t \in Turns, BeginRun(t)
    PROVE  TurnInv'
<1> DEFINE m == [task[t] EXCEPT !.pc = "running", !.held = {}]
<1>1. /\ m \in Task /\ task' = [task EXCEPT ![t] = m]
      /\ m.pc = "running" /\ m.held = {} /\ m.ts = task[t].ts
      /\ m.aborted = task[t].aborted /\ m.cleared = task[t].cleared
      /\ task[t].pc = "begin"
  BY Known DEF BeginRun, Task, Running
<1> HIDE DEF m
<1>2. Typed
  BY Known DEF BeginRun, Typed, TypeOK, Task
<1>3. TaskRec(m) /\ Listed(m) /\ ~m.aborted
  BY <1>1, Known DEF TaskRec, Listed, Running, Ending
<1>4. ASSUME NEW r \in Actor, NEW i
      PROVE  /\ i \in Loose \/ i \in task[t].held => Kept(i, r, m)
             /\ \A k \in TurnStates : i \in tstate[k].input => i \in tstate'[k].input
  BY DEF Kept, Loose, BeginRun
<1> QED
  BY <1>1, <1>2, <1>3, <1>4, TaskMoves, Known
  DEF BeginRun, ActiveOK, Running, TaskOwns

\* The pending input is in the task's hands ...
LEMMA DrainPendingInv ==
    ASSUME TurnInv, NEW t \in Turns, DrainPending(t)
    PROVE  TurnInv'
<1> DEFINE m == [task[t] EXCEPT !.pc = "drained", !.held = PendingInput]
<1>1. /\ m \in Task /\ task' = [task EXCEPT ![t] = m]
      /\ m.pc = "drained" /\ m.held = PendingInput /\ m.ts = task[t].ts
      /\ m.aborted = task[t].aborted /\ m.cleared = task[t].cleared
      /\ task[t].pc = "running"
  <2>1. PendingInput \subseteq Items
    BY Pending
  <2> HIDE DEF PendingInput
  <2> QED
    BY <2>1, Known DEF DrainPending, Task, Running
<1> HIDE DEF m
<1>2. Typed
  BY Known, Pending DEF DrainPending, Typed, TypeOK
<1>3. TaskRec(m) /\ Listed(m) /\ ~m.aborted /\ task[t].held = {}
  BY <1>1, Known DEF TaskRec, Listed, Running, Ending
<1>4. ASSUME NEW r \in Actor, NEW i
      PROVE  /\ i \in Loose \/ i \in task[t].held => Kept(i, r, m)
             /\ \A k \in TurnStates :
                  i \in tstate[k].input => i \in tstate'[k].input \/ Kept(i, r, m)
  BY <1>1, <1>3, Pending DEF Kept, Loose, DrainPending
<1> QED
  BY <1>1, <1>2, <1>3, <1>4, TaskMoves, Known
  DEF DrainPending, ActiveOK, Running, TaskOwns

\* ... and then in the history.
LEMMA RecordPendingInv ==
    ASSUME TurnInv, NEW t \in Turns, RecordPending(t)
    PROVE  TurnInv'
<1> DEFINE m == [task[t] EXCEPT !.pc = "running", !.held = {}]
<1>1. /\ m \in Task /\ task' = [task EXCEPT ![t] = m]
      /\ m.pc = "running" /\ m.held = {} /\ m.ts = task[t].ts
      /\ m.aborted = task[t].aborted /\ m.cleared = task[t].cleared
      /\ task[t].pc = "drained"
  BY Known DEF RecordPending, Task, Running
<1> HIDE DEF m
<1>2. Typed
  BY Known DEF RecordPending, Typed, TypeOK, Task
<1>3. TaskRec(m) /\ Listed(m) /\ ~m.aborted
  BY <1>1, Known DEF TaskRec, Listed, Running, Ending
<1>4. ASSUME NEW r \in Actor, NEW i
      PROVE  /\ i \in Loose \/ i \in task[t].held => Kept(i, r, m)
             /\ \A k \in TurnStates : i \in tstate[k].input => i \in tstate'[k].input
  BY DEF Kept, Loose, RecordPending
<1> QED
  BY <1>1, <1>2, <1>3, <1>4, TaskMoves, Known
  DEF RecordPending, ActiveOK, Running, TaskOwns

\* A blocked prompt is dropped; what came after it is back in the active turn,
\* or dropped with it.
LEMMA BlockPendingInv ==
    ASSUME TurnInv, NEW t \in Turns, NEW i0 \in Prompts, NEW before \in SUBSET Items,
           BlockPending(t, i0, before)
    PROVE  TurnInv'
<1> DEFINE m == [task[t] EXCEPT !.pc = "running", !.held = {}]
           rest == task[t].held \ (before \cup {i0})
           s == [tstate[active.ts] EXCEPT !.input = @ \cup rest]
<1>1. /\ m \in Task /\ task' = [task EXCEPT ![t] = m]
      /\ m.pc = "running" /\ m.held = {} /\ m.ts = task[t].ts
      /\ m.aborted = task[t].aborted /\ m.cleared = task[t].cleared
      /\ task[t].pc = "drained" /\ task[t].held \subseteq Items
  BY Known DEF BlockPending, Task, Running
<1>2. /\ history' = history \cup before /\ i0 \in dropped'
      /\ active.ts = NoTs => tstate' = tstate /\ dropped' = dropped \cup {i0} \cup rest
      /\ active.ts # NoTs => /\ tstate' = [tstate EXCEPT ![active.ts] = s]
                             /\ dropped' = dropped \cup {i0}
      /\ UNCHANGED <<active, idle, mail, act, ended, fresh>> /\ Uncounted
  BY DEF BlockPending
<1>3. rest \subseteq Items /\ \A i \in task[t].held : i \in before \/ i = i0 \/ i \in rest
  BY <1>1
<1> HIDE DEF m, rest
<1>4. active.ts # NoTs => /\ active.ts \in TurnStates /\ s \in TurnState
                          /\ s.input = tstate[active.ts].input \cup rest
  BY <1>3, Known DEF ActiveTurn, TurnState
<1> HIDE DEF s
<1>5. /\ tstate' \in [TurnStates -> TurnState]
      /\ \A k \in TurnStates : tstate[k].input \subseteq tstate'[k].input
      /\ active.ts # NoTs => rest \subseteq tstate'[active.ts].input
  BY <1>2, <1>4, Known
<1>6. dropped \subseteq dropped' /\ dropped' \subseteq Items /\ history' \subseteq Items
  BY <1>2, <1>3, Known, Names DEF TypeOK
<1>7. Typed
  BY <1>2, <1>5, <1>6, Known DEF Typed, TypeOK
<1>8. TaskRec(m) /\ Listed(m) /\ ~m.aborted
  BY <1>1, Known DEF TaskRec, Listed, Running, Ending
<1>9. Loose \subseteq Loose' /\ before \subseteq Loose' /\ i0 \in Loose'
      /\ (active.ts = NoTs => rest \subseteq Loose')
  BY <1>2, <1>6 DEF Loose
<1>10. ASSUME NEW r \in Actor, NEW i
       PROVE  /\ i \in Loose \/ i \in task[t].held => Kept(i, r, m)
              /\ \A k \in TurnStates : i \in tstate[k].input => i \in tstate'[k].input
  BY <1>2, <1>3, <1>5, <1>9 DEF Kept
<1>11. active' = active /\ act' = act
  BY <1>2
<1> QED
  BY <1>1, <1>7, <1>8, <1>10, <1>11, TaskMoves, Known DEF ActiveOK, Running, TaskOwns

\* An approval is waited for in the active turn.
LEMMA RequestApprovalInv ==
    ASSUME TurnInv, NEW t \in Turns, RequestApproval(t)
    PROVE  TurnInv'
<1> DEFINE m == [task[t] EXCEPT !.pc = "approval"]
<1>1. /\ m \in Task /\ task' = [task EXCEPT ![t] = m]
      /\ m.pc = "approval" /\ m.held = task[t].held /\ m.ts = task[t].ts
      /\ m.aborted = task[t].aborted /\ m.cleared = task[t].cleared
      /\ task[t].pc = "running"
  BY Known DEF RequestApproval, Task, Running
<1> HIDE DEF m
<1> DEFINE s == [tstate[active.ts] EXCEPT !.waits = @ \cup {t}]
<1>2. active.ts \in TurnStates
  BY Known DEF RequestApproval, ActiveTurn
<1>3. s \in TurnState /\ s.input = tstate[active.ts].input
  BY <1>2, Known DEF TurnState
<1>4. tstate' = [tstate EXCEPT ![active.ts] = s]
  BY DEF RequestApproval
<1> HIDE DEF s
<1>5. /\ tstate' \in [TurnStates -> TurnState]
      /\ \A k \in TurnStates : tstate'[k].input = tstate[k].input
  BY <1>2, <1>3, <1>4, Known
<1>6. Typed
  BY <1>5, Known DEF RequestApproval, Typed, TypeOK
<1>7. TaskRec(m) /\ Listed(m) /\ ~m.aborted
  BY <1>1, Known DEF TaskRec, Listed, Running, Ending
<1>8. ASSUME NEW r \in Actor, NEW i
      PROVE  i \in Loose \/ i \in task[t].held => Kept(i, r, m)
  BY <1>1 DEF Kept, Loose, RequestApproval
<1> QED
  BY <1>1, <1>5, <1>6, <1>7, <1>8, TaskMoves, Known
  DEF RequestApproval, ActiveOK, Running, TaskOwns

\* The wait for an approval ends.
LEMMA ApprovalOverInv ==
    ASSUME TurnInv, NEW t \in Turns, ApprovalOver(t)
    PROVE  TurnInv'
<1> DEFINE m == [task[t] EXCEPT !.pc = "running"]
<1>1. /\ m \in Task /\ task' = [task EXCEPT ![t] = m]
      /\ m.pc = "running" /\ m.held = task[t].held /\ m.ts = task[t].ts
      /\ m.aborted = task[t].aborted /\ m.cleared = task[t].cleared
      /\ task[t].pc = "approval"
  BY Known DEF ApprovalOver, Task, Running
<1> HIDE DEF m
<1>2. Typed
  BY Known DEF ApprovalOver, Typed, TypeOK
<1>3. TaskRec(m) /\ Listed(m) /\ ~m.aborted
  BY <1>1, Known DEF TaskRec, Listed, Running, Ending
<1>4. ASSUME NEW r \in Actor, NEW i
      PROVE  /\ i \in Loose \/ i \in task[t].held => Kept(i, r, m)
             /\ \A k \in TurnStates : i \in tstate[k].input => i \in tstate'[k].input
  BY <1>1 DEF Kept, Loose, ApprovalOver
<1> QED
  BY <1>1, <1>2, <1>3, <1>4, TaskMoves, Known
  DEF ApprovalOver, ActiveOK, Running, TaskOwns

\* A cancelled tree leaves the task where it is.
LEMMA CancelTreeInv ==
    ASSUME TurnInv, NEW t \in Turns, CancelTree(t)
    PROVE  TurnInv'
<1> DEFINE m == [task[t] EXCEPT !.cancelled = TRUE]
<1>1. /\ m \in Task /\ task' = [task EXCEPT ![t] = m]
      /\ m.pc = task[t].pc /\ m.held = task[t].held /\ m.ts = task[t].ts
      /\ m.aborted = task[t].aborted /\ m.cleared = task[t].cleared
      /\ m.pc \in Running
  BY Known DEF CancelTree, Task, Running
<1> HIDE DEF m
<1>2. Typed
  BY Known DEF CancelTree, Typed, TypeOK
<1>3. TaskRec(m) /\ Listed(m) /\ ~m.aborted
  BY <1>1, Known DEF TaskRec, Listed, Running, Ending
<1>4. ASSUME NEW r \in Actor, NEW i
      PROVE  /\ i \in Loose \/ i \in task[t].held => Kept(i, r, m)
             /\ \A k \in TurnStates : i \in tstate[k].input => i \in tstate'[k].input
  BY <1>1 DEF Kept, Loose, CancelTree
<1> QED
  BY <1>1, <1>2, <1>3, <1>4, TaskMoves, Known
  DEF CancelTree, ActiveOK, Running, TaskOwns

\* run returns; the prompt of a task cancelled before it began is dropped.
LEMMA ExitRunInv ==
    ASSUME TurnInv, NEW t \in Turns, ExitRun(t)
    PROVE  TurnInv'
<1> DEFINE e == IF task[t].cancelled THEN "cancel" ELSE "finish"
           m == [task[t] EXCEPT !.pc = e, !.held = {}]
<1>1. e \in {"cancel", "finish"}
  OBVIOUS
<1>2. task' = [task EXCEPT ![t] = m]
  BY DEF ExitRun
<1> HIDE DEF e
<1>3. /\ m \in Task
      /\ m.pc = e /\ m.held = {} /\ m.ts = task[t].ts
      /\ m.aborted = task[t].aborted /\ m.cleared = task[t].cleared
      /\ task[t].pc \in Running
  BY <1>1, Known DEF ExitRun, Task, Running, Ending
<1> HIDE DEF m
<1>4. Typed
  BY Known DEF ExitRun, Typed, TypeOK, Task
<1>5. TaskRec(m) /\ Listed(m) /\ ~m.aborted
  BY <1>1, <1>3, Known DEF TaskRec, Listed, Running, Ending
<1>6. ASSUME NEW r \in Actor, NEW i
      PROVE  /\ i \in Loose \/ i \in task[t].held => Kept(i, r, m)
             /\ \A k \in TurnStates : i \in tstate[k].input => i \in tstate'[k].input
  BY DEF Kept, Loose, ExitRun
<1>7. task[t].pc \notin {"none", "new"} /\ m.pc \notin {"none", "new"} \cup Running
  BY <1>1, <1>3 DEF Running
<1>8. active' = active /\ act' = act
  BY DEF ExitRun
<1> QED
  BY <1>2, <1>3, <1>4, <1>5, <1>6, <1>7, <1>8, TaskMoves, Known
  DEF ActiveOK, Running, TaskOwns

\* What clear_pending leaves of the turn states, and where their input goes.
LEMMA ClearPendingItems ==
    ASSUME TurnInv, NEW k0 \in TurnStates, NEW over, ClearPending(k0, over)
    PROVE  /\ tstate' \in [TurnStates -> TurnState] /\ dropped' \subseteq Items
           /\ dropped \subseteq dropped' /\ tstate[k0].input \subseteq dropped'
           /\ \A k \in TurnStates : k # k0 => tstate'[k] = tstate[k]
<1> DEFINE s == IF over THEN NewTs ELSE [tstate[k0] EXCEPT !.input = {}, !.waits = {}]
<1>1. tstate[k0] \in TurnState /\ tstate[k0].input \subseteq Items
  BY Known DEF TurnState
<1>2. s \in TurnState
  <2>1. CASE over
    BY <2>1 DEF NewTs, TurnState
  <2>2. CASE ~over
    BY <1>1, <2>2 DEF TurnState
  <2> QED BY <2>1, <2>2
<1>3. tstate' = [tstate EXCEPT ![k0] = s]
  BY DEF ClearPending
<1> HIDE DEF s
<1> QED
  BY <1>1, <1>2, <1>3, Known DEF ClearPending, TypeOK

\* An aborted task stops at its end; the input of the turn it has cleared is
\* dropped.
LEMMA StopInv ==
    ASSUME TurnInv, NEW t \in Turns, Stop(t)
    PROVE  TurnInv'
<1> DEFINE m == [task[t] EXCEPT !.pc = "gone", !.ts = NoTs]
<1>1. /\ m \in Task /\ task' = [task EXCEPT ![t] = m]
      /\ m.pc = "gone" /\ m.held = task[t].held /\ m.ts = NoTs
      /\ task[t].aborted /\ task[t].pc \in Ending
  BY Known DEF Stop, Task
<1> HIDE DEF m
<1>2. task[t].held = {} /\ (task[t].cleared => task[t].ts \in TurnStates)
  BY <1>1, Known DEF TaskRec, Task, Ending
<1>3. /\ tstate' \in [TurnStates -> TurnState] /\ dropped' \subseteq Items
      /\ dropped \subseteq dropped'
      /\ \A k \in TurnStates :
           IF TaskOwns(task[t], k) THEN tstate[k].input \subseteq dropped'
           ELSE tstate'[k] = tstate[k]
  <2>1. CASE task[t].cleared
    <3>1. ClearPending(task[t].ts, TRUE)
      BY <2>1 DEF Stop
    <3> QED
      BY <1>2, <2>1, <3>1, ClearPendingItems DEF TaskOwns
  <2>2. CASE ~task[t].cleared
    BY <2>2, Known DEF Stop, TypeOK, TaskOwns
  <2> QED BY <2>1, <2>2
<1>4. Typed
  <2>1. Marked
    BY Known DEF Stop, Marked, TypeOK
  <2> QED
    BY <1>3, <2>1, Known DEF Stop, Typed, TypeOK
<1>5. TaskRec(m) /\ t \notin active.tasks
  BY <1>1, <1>2, Known DEF TaskRec, Listed
<1>6. Loose \subseteq Loose' /\ dropped' \subseteq Loose'
  BY <1>3 DEF Stop, Loose
<1>7. ASSUME NEW r \in Actor, NEW i
      PROVE  /\ i \in Loose \/ i \in task[t].held => Kept(i, r, m)
             /\ \A k \in TurnStates :
                  i \in tstate[k].input =>
                      /\ i \in tstate'[k].input \/ Kept(i, r, m)
                      /\ TaskOwns(task[t], k) => Kept(i, r, m)
  BY <1>2, <1>3, <1>6 DEF Kept
<1>8. /\ active' = active /\ act' = act
      /\ task[t].pc \notin {"none", "new"} /\ m.pc \notin {"none", "new"} \cup Running
  BY <1>1 DEF Stop, Ending, Running
<1> QED
  BY <1>1, <1>4, <1>5, <1>7, <1>8, TaskMoves, Known DEF ActiveOK

\* A finished task leaves the active turn, and ends it as its last; only the
\* placeholder of another start can be ended by a task that was not in it.
LEMMA OnTaskFinishedInv ==
    ASSUME TurnInv, NEW t \in Turns, OnTaskFinished(t)
    PROVE  TurnInv'
<1> DEFINE rest == active.tasks \ {t}
           clear == active.ts # NoTs /\ rest = {}
           k0 == IF clear THEN active.ts ELSE NoTs
           self == task[t].aborted \/ SelfAborts(t)
           m == [task[t] EXCEPT !.pc = "record", !.cleared = clear, !.ts = k0,
                                !.aborted = self]
<1>1. /\ active' = IF clear THEN NoTurn ELSE [active EXCEPT !.tasks = rest]
      /\ task[t].pc = "finish" /\ act' = act
  BY DEF OnTaskFinished
<1>2. task' = [task EXCEPT ![t] = m]
  BY DEF OnTaskFinished
<1>3. clear \in BOOLEAN /\ self \in BOOLEAN
  OBVIOUS
<1>4. k0 \in TurnStates \cup {NoTs}
  BY Known DEF ActiveTurn
<1>6. /\ clear => active' = NoTurn /\ k0 = active.ts /\ active.ts # NoTs
                  /\ active.tasks \subseteq {t}
      /\ ~clear => /\ active'.ts = active.ts /\ active'.tasks = active.tasks \ {t}
                   /\ k0 = NoTs
                   /\ active.ts = NoTs \/ active'.tasks # {}
  BY <1>1, Known DEF ActiveTurn
<1> HIDE DEF clear, k0, self
<1>7. /\ m \in Task /\ m.pc = "record" /\ m.held = task[t].held /\ m.ts = k0
      /\ m.cleared = clear
  BY <1>3, <1>4, Known DEF Task, Ending
<1> HIDE DEF m
<1>8. active' \in ActiveTurn
  BY <1>6, <1>1, Known DEF ActiveTurn, NoTurn
<1>9. Typed
  BY <1>8, Known DEF OnTaskFinished, Typed, TypeOK
<1>10. TaskRec(m) /\ task[t].ts = NoTs /\ task[t].held = {}
  BY <1>1, <1>4, <1>6, <1>7, Known DEF TaskRec, Ending
<1>11. ASSUME NEW r \in Actor, NEW i
       PROVE  /\ i \in Loose \/ i \in task[t].held => Kept(i, r, m)
              /\ \A k \in TurnStates : i \in tstate[k].input => i \in tstate'[k].input
  BY <1>10 DEF Kept, Loose, OnTaskFinished
<1>12. /\ active'.ts = NoTs => active'.tasks = {}
       /\ active'.tasks \subseteq active.tasks /\ t \notin active'.tasks
       /\ active.tasks \subseteq active'.tasks \cup {t}
       /\ ~(active'.ts # NoTs /\ active'.tasks = {})
  BY <1>6, Known DEF ActiveOK, NoTurn
<1>13. \A k \in TurnStates : active.ts = k \/ TaskOwns(task[t], k)
                                => active'.ts = k \/ TaskOwns(m, k)
  BY <1>6, <1>7, <1>10, Names DEF TaskOwns
<1>14. /\ task[t].pc \notin {"none", "new", "gone"}
       /\ m.pc \notin {"none", "new", "gone"} \cup Running
  BY <1>1, <1>7 DEF Running
<1> QED
  BY <1>1, <1>2, <1>7, <1>9, <1>10, <1>11, <1>12, <1>13, <1>14, TaskMoves

\* A cancelled task of the active turn takes the turn state to clear it.
LEMMA OnTaskCancelledInv ==
    ASSUME TurnInv, NEW t \in Turns, OnTaskCancelled(t)
    PROVE  TurnInv'
<1> DEFINE rest == active.tasks \ {t}
           self == task[t].aborted \/ SelfAborts(t)
           m == IF t \notin active.tasks THEN [task[t] EXCEPT !.pc = "gone"]
                ELSE [task[t] EXCEPT !.pc = "clear", !.ts = active.ts,
                                     !.cleared = (rest = {}), !.aborted = self]
<1>1. /\ active' = IF t \notin active.tasks THEN active
                   ELSE IF rest = {} THEN NoTurn ELSE [active EXCEPT !.tasks = rest]
      /\ task[t].pc = "cancel" /\ act' = act
  BY DEF OnTaskCancelled
<1>2. task' = [task EXCEPT ![t] = m]
  BY DEF OnTaskCancelled
<1>3. self \in BOOLEAN /\ (rest = {}) \in BOOLEAN
  OBVIOUS
<1>5. t \in active.tasks => active.ts # NoTs /\ active.ts \in TurnStates
  BY Known DEF ActiveOK, ActiveTurn
<1> HIDE DEF self
<1>6. /\ m \in Task /\ m.held = task[t].held
      /\ t \notin active.tasks => m.pc = "gone" /\ m.ts = task[t].ts
      /\ t \in active.tasks => /\ m.pc = "clear" /\ m.ts = active.ts
                               /\ m.cleared = (rest = {})
  <2>1. CASE t \notin active.tasks
    BY <2>1, Known DEF Task
  <2>2. CASE t \in active.tasks
    <3> DEFINE c == (rest = {})
    <3>1. c \in BOOLEAN
      BY <1>3
    <3>2. m = [task[t] EXCEPT !.pc = "clear", !.ts = active.ts, !.cleared = c,
                              !.aborted = self]
      BY <2>2
    <3> HIDE DEF c, m
    <3>3. /\ m \in Task /\ m.held = task[t].held
          /\ m.pc = "clear" /\ m.ts = active.ts /\ m.cleared = c
      BY <1>3, <1>5, <2>2, <3>1, <3>2, Known DEF Task, Ending
    <3> QED
      BY <2>2, <3>3 DEF c
  <2> QED BY <2>1, <2>2
<1> HIDE DEF m
<1>7. /\ t \notin active.tasks => active' = active
      /\ t \in active.tasks =>
           \/ active' = NoTurn /\ active.tasks \subseteq {t} /\ rest = {}
           \/ /\ active'.ts = active.ts /\ active'.tasks = active.tasks \ {t}
              /\ active'.tasks # {}
  BY <1>1, Known DEF ActiveTurn
<1>8. active' \in ActiveTurn
  BY <1>1, Known DEF ActiveTurn, NoTurn
<1>9. Typed
  BY <1>8, Known DEF OnTaskCancelled, Typed, TypeOK
<1>10. TaskRec(m) /\ task[t].ts = NoTs /\ task[t].held = {}
  BY <1>1, <1>5, <1>6, Known DEF TaskRec, Ending
<1>11. ASSUME NEW r \in Actor, NEW i
       PROVE  /\ i \in Loose \/ i \in task[t].held => Kept(i, r, m)
              /\ \A k \in TurnStates : i \in tstate[k].input => i \in tstate'[k].input
  BY <1>10 DEF Kept, Loose, OnTaskCancelled
<1>12. /\ active'.ts = NoTs => active'.tasks = {}
       /\ active'.tasks \subseteq active.tasks /\ t \notin active'.tasks
       /\ active.tasks \subseteq active'.tasks \cup {t}
       /\ active'.ts # NoTs /\ active'.tasks = {} =>
            active'.ts = active.ts /\ active.tasks = {}
  BY <1>7, Known DEF ActiveOK, NoTurn
<1>13. \A k \in TurnStates : active.ts = k \/ TaskOwns(task[t], k)
                                => active'.ts = k \/ TaskOwns(m, k)
  BY <1>6, <1>7, <1>10, Names DEF TaskOwns
<1>14. /\ task[t].pc \notin {"none", "new", "gone"}
       /\ m.pc \notin {"none", "new"} \cup Running
  BY <1>1, <1>6 DEF Running
<1> QED
  BY <1>1, <1>2, <1>6, <1>9, <1>10, <1>11, <1>12, <1>13, <1>14, TaskMoves

\* A task at its end that ends there: its turn's scheduler, at rest until now,
\* is spawned if the turn is over.
LEMMA EndMoves ==
    ASSUME TurnInv, Typed, NEW t \in Turns,
           task' = [task EXCEPT ![t].pc = "gone", ![t].ts = NoTs],
           task[t].pc \in {"record", "clear"}, active' = active,
           Reschedule(t, task[t].cleared),
           \A i \in Items : i \in Loose => i \in Loose',
           \A k \in TurnStates : \A i \in tstate[k].input :
             i \in tstate'[k].input \/ i \in Loose',
           \A k \in TurnStates : \A i \in tstate[k].input :
             k = task[t].ts => i \in Loose'
    PROVE  TurnInv'
<1> DEFINE m == [task[t] EXCEPT !.pc = "gone", !.ts = NoTs]
           r == IF task[t].cleared THEN [act[t] EXCEPT !.pc = "check"] ELSE act[t]
<1>1. t \in Actors /\ t # 0
  BY Names
<1>2. act[t] = AtRest
  BY DEF TurnInv, Structure, SchedulersOK
<1>3. act' = [act EXCEPT ![t] = r]
  BY <1>1, Known DEF Reschedule
<1>4. /\ r \in Actor /\ r.pc \in {"idle", "check"} /\ r.why = "interrupted"
      /\ r.todo = {} /\ r.victim = 0 /\ r.ts = NoTs /\ r.held = {} /\ r.turn = 0
      /\ r.pc = "idle" => r = AtRest
  <2>1. CASE task[t].cleared
    BY <1>1, <1>2, <2>1, Known DEF Actor, AtRest
  <2>2. CASE ~task[t].cleared
    <3>1. r = act[t]
      BY <2>2
    <3> HIDE DEF r
    <3>2. r \in Actor /\ r = AtRest
      BY <1>1, <1>2, <3>1, Known
    <3> QED
      BY <3>2 DEF AtRest
  <2> QED BY <2>1, <2>2
<1>5. /\ m \in Task /\ task' = [task EXCEPT ![t] = m]
      /\ m.pc = "gone" /\ m.held = task[t].held /\ m.ts = NoTs
      /\ m.aborted = task[t].aborted
  BY Known DEF Task
<1> HIDE DEF m, r
<1>6. Moves(t, r, t, m)
  BY <1>3, <1>5 DEF Moves
<1>7. t \notin active.tasks /\ task[t].held = {}
  BY Known DEF TaskRec, Listed, Running
<1>8. Doom(r) = {} /\ Doom(act[t]) = {}
  BY <1>1, <1>2, <1>4, Names DEF Doom, AtRest
<1>9. StructureMove(t, r, t, m)
  <2>1. ActorRec(r)
    BY <1>4 DEF ActorRec, Starting
  <2>2. TaskRec(m)
    BY <1>5, <1>7 DEF TaskRec
  <2>3. ActiveMove(t, m)
    BY <1>7, Known DEF ActiveMove, ActiveOK
  <2>4. StartMove(t, r, t, m)
    BY <1>4 DEF StartMove
  <2>5. AbortMove(t, r, t, m)
    BY <1>8 DEF AbortMove
  <2>6. TaskMove(t, r, t, m)
    BY <1>5, Known DEF TaskMove, Running
  <2>7. PlaceholderMove(t, r)
    BY <1>2 DEF PlaceholderMove, Starts, AtRest, Starting
  <2> QED
    BY <2>1, <2>2, <2>3, <2>4, <2>5, <2>6, <2>7 DEF StructureMove
<1>10. InputMove(t, r, t, m)
  <2>1. act[t].held = {} /\ act[t].pc = "idle"
    BY <1>2 DEF AtRest
  <2>2. \A i : i \in Loose' => Kept(i, r, m)
    BY DEF Kept
  <2> QED
    BY <1>7, <2>1, <2>2, Names DEF InputMove, ActorOwns, TaskOwns
<1> QED
  BY <1>1, <1>4, <1>5, <1>6, <1>9, <1>10, MoveInv

\* The input a turn was left with is recorded, or dropped when a hook blocks it.
LEMMA CompleteTurnInv ==
    ASSUME TurnInv, NEW t \in Turns, NEW blocked \in SUBSET Prompts,
           CompleteTurn(t, blocked)
    PROVE  TurnInv'
<1> DEFINE k0 == task[t].ts
<1>1. NewTs \in TurnState /\ NewTs.input = {}
  BY DEF NewTs, TurnState
<1>2. /\ k0 \in TurnStates \cup {NoTs}
      /\ \A k \in TurnStates : tstate[k].input \subseteq Items
  BY Known DEF Task, TurnState
<1>3. /\ tstate' \in [TurnStates -> TurnState] /\ history' \subseteq Items
      /\ dropped' \subseteq Items
      /\ history \subseteq history' /\ dropped \subseteq dropped'
      /\ \A k \in TurnStates : k = k0 => tstate[k].input \subseteq history' \cup dropped'
      /\ \A k \in TurnStates : k # k0 => tstate'[k] = tstate[k]
  <2>1. CASE k0 = NoTs
    BY <2>1, Known, Names DEF CompleteTurn, TypeOK
  <2>2. CASE k0 # NoTs
    BY <1>1, <1>2, <2>2, Known DEF CompleteTurn, TypeOK
  <2> QED BY <2>1, <2>2
<1>4. ended' \in [Turns -> SUBSET {"complete", "aborted"}]
  BY Known DEF CompleteTurn, TypeOK
<1>5. Typed
  BY <1>3, <1>4, Known DEF CompleteTurn, Typed, TypeOK
<1>6. Loose \subseteq Loose' /\ history' \cup dropped' \subseteq Loose'
  BY <1>3 DEF Loose, CompleteTurn
<1>7. /\ task' = [task EXCEPT ![t].pc = "gone", ![t].ts = NoTs]
      /\ task[t].pc \in {"record", "clear"} /\ active' = active
      /\ Reschedule(t, task[t].cleared)
  BY DEF CompleteTurn
<1> QED
  BY <1>3, <1>5, <1>6, <1>7, EndMoves

\* The input of a cancelled turn is dropped.
LEMMA CancelTurnInv ==
    ASSUME TurnInv, NEW t \in Turns, CancelTurn(t)
    PROVE  TurnInv'
<1>1. task[t].pc = "clear" /\ task[t].ts \in TurnStates
  BY Known DEF CancelTurn, Task, TaskRec
<1>2. ClearPending(task[t].ts, task[t].cleared)
  BY DEF CancelTurn
<1>3. /\ tstate' \in [TurnStates -> TurnState] /\ dropped' \subseteq Items
      /\ dropped \subseteq dropped' /\ tstate[task[t].ts].input \subseteq dropped'
      /\ \A k \in TurnStates : k # task[t].ts => tstate'[k] = tstate[k]
  BY <1>1, <1>2, ClearPendingItems
<1>4. ended' \in [Turns -> SUBSET {"complete", "aborted"}]
  BY Known DEF CancelTurn, TypeOK
<1>5. Typed
  BY <1>3, <1>4, Known DEF CancelTurn, Typed, TypeOK
<1>6. Loose \subseteq Loose' /\ dropped' \subseteq Loose'
  BY <1>3 DEF Loose, CancelTurn
<1>7. /\ task' = [task EXCEPT ![t].pc = "gone", ![t].ts = NoTs]
      /\ active' = active /\ Reschedule(t, task[t].cleared)
  BY DEF CancelTurn
<1> QED
  BY <1>1, <1>3, <1>5, <1>6, <1>7, EndMoves

-----------------------------------------------------------------------------
(* The turn state, the queues and the loop's requests.                     *)

\* Nothing moves but input, and that is kept.
LEMMA InputMoves ==
    ASSUME TurnInv, Typed, UNCHANGED <<active, task, act>>,
           \A i \in Items : i \in Loose =>
               \/ i \in Loose'
               \/ active.ts # NoTs /\ i \in tstate'[active.ts].input,
           \A k \in TurnStates : tstate[k].input \subseteq tstate'[k].input
    PROVE  TurnInv'
<1>1. \E a \in Actors : active.ts # NoTs /\ active.tasks = {} => Starts(act[a], active.ts)
  BY Names DEF TurnInv, Structure, PlaceholderOwned, Starts
<1>2. PICK a \in Actors : active.ts # NoTs /\ active.tasks = {} => Starts(act[a], active.ts)
  BY <1>1
<1>3. /\ act[a] \in Actor /\ ActorRec(act[a])
      /\ act' = [act EXCEPT ![a] = act[a]]
  BY Known
<1>4. PlaceholderMove(a, act[a])
  BY <1>2 DEF PlaceholderMove
<1>5. ASSUME NEW m \in Task, NEW i \in Items
      PROVE  i \in Loose \/ i \in act[a].held => Kept(i, act[a], m)
  BY DEF Kept
<1> QED
  BY <1>3, <1>4, <1>5, Known, ActorMoves DEF ActiveOK

\* What changing one field of the active turn's state does to the input.
LEMMA TurnStateMoves ==
    ASSUME TurnInv, active.ts # NoTs, NEW s \in TurnState,
           tstate' = [tstate EXCEPT ![active.ts] = s],
           tstate[active.ts].input \subseteq s.input
    PROVE  /\ active.ts \in TurnStates
           /\ tstate' \in [TurnStates -> TurnState] /\ tstate'[active.ts] = s
           /\ \A k \in TurnStates : tstate[k].input \subseteq tstate'[k].input
  BY Known DEF ActiveTurn

\* A steered prompt is in the active turn.
LEMMA SteerInv ==
    ASSUME TurnInv, NEW i \in Prompts, Steer(i)
    PROVE  TurnInv'
<1> DEFINE s == [tstate[active.ts] EXCEPT !.input = @ \cup {i}, !.phase = "current"]
<1>1. active.ts # NoTs /\ active.ts \in TurnStates
  BY Known DEF Steer, ActiveOK, ActiveTurn
<1>2. s \in TurnState /\ s.input = tstate[active.ts].input \cup {i}
  BY <1>1, Known, Names DEF TurnState
<1>3. tstate' = [tstate EXCEPT ![active.ts] = s]
  BY DEF Steer
<1> HIDE DEF s
<1>4. /\ tstate' \in [TurnStates -> TurnState] /\ i \in tstate'[active.ts].input
      /\ \A k \in TurnStates : tstate[k].input \subseteq tstate'[k].input
  BY <1>1, <1>2, <1>3, TurnStateMoves
<1>5. Typed
  BY <1>4, Known DEF Steer, Typed, TypeOK
<1>6. \A j \in Loose : j \in Loose' \/ j = i
  BY DEF Steer, Loose
<1> QED
  BY <1>1, <1>4, <1>5, <1>6, InputMoves DEF Steer

\* An approved item is in the active turn or queued.
LEMMA ApproveGuardianDeniedInv ==
    ASSUME TurnInv, NEW i \in Notes, ApproveGuardianDenied(i)
    PROVE  TurnInv'
<1>1. CASE active.ts # NoTs
  <2> DEFINE s == [tstate[active.ts] EXCEPT !.input = @ \cup {i}]
  <2>1. active.ts \in TurnStates
    BY <1>1, Known DEF ActiveTurn
  <2>2. s \in TurnState /\ s.input = tstate[active.ts].input \cup {i}
    BY <2>1, Known, Names DEF TurnState
  <2>3. tstate' = [tstate EXCEPT ![active.ts] = s]
    BY <1>1 DEF ApproveGuardianDenied
  <2> HIDE DEF s
  <2>4. /\ tstate' \in [TurnStates -> TurnState] /\ i \in tstate'[active.ts].input
        /\ \A k \in TurnStates : tstate[k].input \subseteq tstate'[k].input
    BY <1>1, <2>2, <2>3, TurnStateMoves
  <2>5. Typed
    BY <1>1, <2>4, Known DEF ApproveGuardianDenied, Typed, TypeOK
  <2>6. \A j \in Loose : j \in Loose' \/ j = i
    BY <1>1 DEF ApproveGuardianDenied, Loose
  <2> QED
    BY <1>1, <2>4, <2>5, <2>6, InputMoves DEF ApproveGuardianDenied
<1>2. CASE active.ts = NoTs
  <2>1. Typed
    BY <1>2, Known, Names DEF ApproveGuardianDenied, Typed, TypeOK
  <2>2. \A j \in Loose : j \in Loose'
    BY <1>2 DEF ApproveGuardianDenied, Loose
  <2> QED
    BY <1>2, <2>1, <2>2, InputMoves DEF ApproveGuardianDenied
<1> QED BY <1>1, <1>2

\* An answered approval leaves the turn's other state alone.
LEMMA NotifyApprovalInv ==
    ASSUME TurnInv, NEW t \in Turns, NotifyApproval(t)
    PROVE  TurnInv'
<1> DEFINE s == [tstate[active.ts] EXCEPT !.waits = @ \ {t}]
<1>1. active.ts # NoTs /\ active.ts \in TurnStates
  BY Known DEF NotifyApproval, ActiveTurn
<1>2. s \in TurnState /\ s.input = tstate[active.ts].input
  BY <1>1, Known DEF TurnState
<1>3. tstate' = [tstate EXCEPT ![active.ts] = s]
  BY DEF NotifyApproval
<1> HIDE DEF s
<1>4. /\ tstate' \in [TurnStates -> TurnState]
      /\ \A k \in TurnStates : tstate[k].input \subseteq tstate'[k].input
  BY <1>1, <1>2, <1>3, TurnStateMoves
<1>5. Typed
  BY <1>4, Known DEF NotifyApproval, Typed, TypeOK
<1>6. Loose' = Loose
  BY DEF NotifyApproval, Loose
<1> QED
  BY <1>4, <1>5, <1>6, InputMoves DEF NotifyApproval

\* So does a change of the mailbox phase.
LEMMA SetMailPhaseInv ==
    ASSUME TurnInv, NEW t \in Turns, NEW p \in {"current", "next"}, SetMailPhase(t, p)
    PROVE  TurnInv'
<1> DEFINE s == [tstate[active.ts] EXCEPT !.phase = p]
<1>1. active.ts # NoTs /\ active.ts \in TurnStates
  BY Known DEF SetMailPhase, ActiveOK, ActiveTurn
<1>2. s \in TurnState /\ s.input = tstate[active.ts].input
  BY <1>1, Known DEF TurnState
<1>3. tstate' = [tstate EXCEPT ![active.ts] = s]
  BY DEF SetMailPhase
<1> HIDE DEF s
<1>4. /\ tstate' \in [TurnStates -> TurnState]
      /\ \A k \in TurnStates : tstate[k].input \subseteq tstate'[k].input
  BY <1>1, <1>2, <1>3, TurnStateMoves
<1>5. Typed
  BY <1>4, Known DEF SetMailPhase, Typed, TypeOK
<1>6. Loose' = Loose
  BY DEF SetMailPhase, Loose
<1> QED
  BY <1>4, <1>5, <1>6, InputMoves DEF SetMailPhase

-----------------------------------------------------------------------------
(* Aborting a turn and starting one: the actor moves.                      *)

\* An actor that does something is not the scheduler of a turn whose task is
\* still there.
LEMMA Awake ==
    ASSUME TurnInv, NEW a \in Actors, act[a].pc # "idle"
    PROVE  a \in Turns => task[a].pc = "gone"
  BY DEF TurnInv, Structure, SchedulersOK, AtRest

\* The fields of an actor at rest.
LEMMA AtRestRec ==
    /\ AtRest \in Actor /\ AtRest.pc = "idle" /\ AtRest.why = "interrupted"
    /\ AtRest.turn = 0 /\ AtRest.todo = {} /\ AtRest.victim = 0
    /\ AtRest.ts = NoTs /\ AtRest.held = {}
  BY TurnAssumption DEF AtRest, Actor

\* An actor that is through holds nothing.
LEMMA ThroughRec ==
    ASSUME NEW a \in Actors, NEW r, r = Through(a)
    PROVE  /\ r \in Actor /\ ActorRec(r) /\ Doom(r) = {}
           /\ r.pc \in {"idle", "exited"} /\ r.turn = 0 /\ r.ts = NoTs /\ r.held = {}
<1>1. CASE a = Loop /\ act[a].why = "shutdown"
  <2>1. r = [AtRest EXCEPT !.pc = "exited"]
    BY <1>1 DEF Through
  <2> QED
    BY <2>1, Names, TurnAssumption DEF AtRest, Actor, ActorRec, Doom, Starting
<1>2. CASE ~(a = Loop /\ act[a].why = "shutdown")
  <2>1. r = AtRest
    BY <1>2 DEF Through, AtRest
  <2> QED
    BY <2>1, Names, TurnAssumption DEF AtRest, Actor, ActorRec, Doom, Starting
<1> QED BY <1>1, <1>2

\* After an abort an actor starts its turn or looks for pending work, and has
\* no task to abort.
LEMMA AfterAbortRec ==
    ASSUME TurnInv, NEW a \in Actors, NEW r, r = AfterAbort(a),
           act[a].pc \in {"takeall", "abort"}, act[a].todo = {}
    PROVE  /\ r \in Actor /\ ActorRec(r) /\ Doom(r) = {} /\ Doom(act[a]) = {}
           /\ r.pc \in {"take", "check"} /\ r.turn = act[a].turn
           /\ r.ts = NoTs /\ r.held = {} /\ act[a].held = {}
<1>1. act[a] \in Actor /\ ActorRec(act[a])
  BY Known
<1>2. act[a].victim = 0 /\ act[a].held = {}
  BY <1>1 DEF ActorRec
<1> DEFINE e == IF act[a].why = "replaced" THEN "take" ELSE "check"
<1>3. e \in {"take", "check"} /\ (e = "take" => act[a].why = "replaced")
  OBVIOUS
<1>4. r = [act[a] EXCEPT !.pc = e, !.ts = NoTs]
  BY DEF AfterAbort
<1> HIDE DEF e
<1>5. /\ r \in Actor /\ r.pc = e /\ r.turn = act[a].turn /\ r.ts = NoTs
      /\ r.held = {} /\ r.todo = {} /\ r.victim = 0 /\ r.why = act[a].why
  BY <1>1, <1>2, <1>3, <1>4 DEF Actor, Starting
<1>6. ActorRec(r)
  BY <1>1, <1>3, <1>5 DEF ActorRec, Starting
<1> QED
  BY <1>2, <1>3, <1>5, <1>6, Names DEF Doom

\* The loop leaves its rest to do something without a turn of its own.
LEMMA LoopMoves ==
    ASSUME TurnInv, Typed, act[Loop].pc = "idle", NEW r \in Actor,
           act' = [act EXCEPT ![Loop] = r], UNCHANGED <<active, task>>,
           r.pc \in {"idle", "takeall", "check"},
           r.why \in {"interrupted", "shutdown"}, r.pc = "idle" => r = AtRest,
           r.turn = 0, r.todo = {}, r.victim = 0, r.ts = NoTs, r.held = {},
           Loose \subseteq Loose', tstate' = tstate
    PROVE  TurnInv'
<1>1. act[Loop] = AtRest
  BY Names, Known DEF ActorRec
<1>2. ActorRec(r)
  BY DEF ActorRec, Starting
<1>3. Doom(r) = {} /\ Doom(act[Loop]) = {}
  BY <1>1, Names DEF Doom, AtRest
<1>4. PlaceholderMove(Loop, r)
  BY <1>1 DEF PlaceholderMove, Starts, AtRest, Starting
<1>5. ASSUME NEW m \in Task, NEW i \in Items
      PROVE  i \in Loose \/ i \in act[Loop].held => Kept(i, r, m)
  BY <1>1 DEF Kept, AtRest
<1>6. \A k : ~ActorOwns(act[Loop], k)
  BY <1>1 DEF AtRest, ActorOwns
<1> QED
  BY <1>2, <1>3, <1>4, <1>5, <1>6, Names, Known, ActorMoves DEF ActiveOK

\* An interrupt and a shutdown take nothing yet.
LEMMA InterruptInv ==
    ASSUME TurnInv, Interrupt \/ Shutdown
    PROVE  TurnInv'
<1> DEFINE r == IF Interrupt THEN [AtRest EXCEPT !.pc = "takeall"]
                ELSE [AtRest EXCEPT !.pc = "takeall", !.why = "shutdown"]
<1>1. act' = [act EXCEPT ![Loop] = r]
  BY DEF Interrupt, Shutdown
<1>2. /\ r \in Actor /\ r.pc = "takeall" /\ r.why \in {"interrupted", "shutdown"}
      /\ r.turn = 0 /\ r.todo = {} /\ r.victim = 0 /\ r.ts = NoTs /\ r.held = {}
  <2>1. CASE Interrupt
    BY <2>1, TurnAssumption DEF AtRest, Actor
  <2>2. CASE ~Interrupt
    <3>1. r = [AtRest EXCEPT !.pc = "takeall", !.why = "shutdown"]
      BY <2>2
    <3> HIDE DEF r
    <3> QED
      BY <3>1, AtRestRec DEF Actor
  <2> QED BY <2>1, <2>2
<1> HIDE DEF r
<1>3. Typed
  BY Known DEF Interrupt, Shutdown, Typed, TypeOK
<1>4. /\ Loose' = Loose /\ act[Loop].pc = "idle"
      /\ UNCHANGED <<active, task, tstate>>
  BY DEF Interrupt, Shutdown, Loose
<1> QED
  BY <1>1, <1>2, <1>3, <1>4, LoopMoves

\* Mail is in the mailbox.
LEMMA InterAgentCommunicationInv ==
    ASSUME TurnInv, NEW i \in Mails, InterAgentCommunication(i)
    PROVE  TurnInv'
<1> DEFINE e == IF i \in Triggers THEN "check" ELSE "idle"
           r == [AtRest EXCEPT !.pc = e]
<1>1. act[Loop] = AtRest /\ act[Loop].pc = "idle"
  BY Names, Known DEF ActorRec, InterAgentCommunication
<1>2. e \in {"check", "idle"}
  OBVIOUS
<1>3. act' = [act EXCEPT ![Loop] = r]
  BY <1>1 DEF InterAgentCommunication
<1> HIDE DEF e
<1>4. /\ r \in Actor /\ r.pc = e /\ r.why = "interrupted"
      /\ r.turn = 0 /\ r.todo = {} /\ r.victim = 0 /\ r.ts = NoTs /\ r.held = {}
      /\ r.pc = "idle" => r = AtRest
  BY <1>2, TurnAssumption DEF AtRest, Actor
<1> HIDE DEF r
<1>5. Typed
  BY Known DEF InterAgentCommunication, Typed, TypeOK
<1>6. /\ Loose \subseteq Loose' /\ UNCHANGED <<active, task, tstate>>
  BY DEF InterAgentCommunication, Loose
<1> QED
  BY <1>1, <1>2, <1>3, <1>4, <1>5, <1>6, LoopMoves

\* The active turn goes to the abort, tasks and turn state.
LEMMA TakeActiveTurnInv ==
    ASSUME TurnInv, NEW a \in Actors, TakeActiveTurn(a)
    PROVE  TurnInv'
<1>1. /\ act[a] \in Actor /\ ActorRec(act[a]) /\ act[a].pc = "takeall"
      /\ act[a].held = {} /\ act[a].todo = {} /\ act[a].victim = 0 /\ act[a].ts = NoTs
  BY Known DEF TakeActiveTurn, ActorRec
<1>2. /\ active' = NoTurn /\ task' = task /\ tstate' = tstate /\ Loose' = Loose
      /\ active'.ts = NoTs /\ active'.tasks = {} /\ active' \in ActiveTurn
  BY DEF TakeActiveTurn, NoTurn, Loose, ActiveTurn
<1>3. Typed
  BY <1>2, Known DEF TakeActiveTurn, Typed, TypeOK
<1>4. Doom(act[a]) = {} /\ (a \in Turns => task[a].pc = "gone")
  BY <1>1, Awake, Names DEF Doom
<1>5. CASE active.ts = NoTs
  <2> DEFINE r == AfterAbort(a)
  <2>1. act' = [act EXCEPT ![a] = r] /\ active.tasks = {}
    BY <1>5, Known DEF TakeActiveTurn, ActiveOK
  <2>2. /\ r \in Actor /\ ActorRec(r) /\ Doom(r) = {} /\ r.pc \in {"take", "check"}
        /\ r.turn = act[a].turn /\ r.ts = NoTs /\ r.held = {}
    BY <1>1, AfterAbortRec
  <2> HIDE DEF r
  <2>3. PlaceholderMove(a, r)
    BY <1>2 DEF PlaceholderMove
  <2>4. ASSUME NEW m \in Task, NEW i \in Items
        PROVE  i \in Loose \/ i \in act[a].held => Kept(i, r, m)
    BY <1>1, <1>2 DEF Kept
  <2>5. \A k \in TurnStates : active.ts # k /\ ~ActorOwns(act[a], k)
    BY <1>1, <1>5, Names DEF ActorOwns
  <2>6. \A m \in Task :
          /\ \A i \in Items : i \in Loose \/ i \in act[a].held => Kept(i, r, m)
          /\ \A k \in TurnStates : \A i \in tstate[k].input :
               i \in tstate'[k].input \/ Kept(i, r, m)
          /\ \A k \in TurnStates : \A i \in tstate[k].input :
               active.ts = k \/ ActorOwns(act[a], k) =>
                   active'.ts = k \/ ActorOwns(r, k) \/ Kept(i, r, m)
    BY <1>2, <2>4, <2>5
  <2>7. \A u \in Turns :
          u \in Doom(r) <=> \/ u \in Doom(act[a])
                            \/ u \in active.tasks /\ u \notin active'.tasks
    BY <1>4, <2>1, <2>2
  <2>8. /\ active'.tasks \subseteq active.tasks /\ r.turn \in {0, act[a].turn}
        /\ a \in Turns => r = act[a] \/ task[a].pc = "gone"
    BY <1>2, <1>4, <2>2
  <2> QED
    BY <1>2, <1>3, <2>1, <2>2, <2>3, <2>6, <2>7, <2>8, ActorMoves
<1>6. CASE active.ts # NoTs
  <2> DEFINE r == [act[a] EXCEPT !.pc = "abort", !.todo = active.tasks, !.ts = active.ts]
  <2>1. act' = [act EXCEPT ![a] = r]
    BY <1>6 DEF TakeActiveTurn
  <2>2. active.tasks \subseteq Turns /\ active.ts \in TurnStates
    BY <1>6, Known DEF ActiveTurn
  <2>3. /\ r \in Actor /\ r.pc = "abort" /\ r.todo = active.tasks /\ r.ts = active.ts
        /\ r.turn = act[a].turn /\ r.why = act[a].why /\ r.held = {} /\ r.victim = 0
    BY <1>1, <2>2 DEF Actor
  <2> HIDE DEF r
  <2>4. ActorRec(r)
    BY <1>1, <1>6, <2>3 DEF ActorRec, Starting
  <2>5. Doom(r) = active.tasks
    BY <2>2, <2>3, Names DEF Doom
  <2>6. PlaceholderMove(a, r)
    BY <1>2 DEF PlaceholderMove
  <2>7. ASSUME NEW m \in Task, NEW i \in Items
        PROVE  i \in Loose \/ i \in act[a].held => Kept(i, r, m)
    BY <1>1, <1>2 DEF Kept
  <2> QED
    BY <1>1, <1>2, <1>3, <1>4, <2>1, <2>3, <2>4, <2>5, <2>6, <2>7, Names, ActorMoves
    DEF ActorOwns
<1> QED BY <1>5, <1>6

\* So it does when the guardian aborts a turn that is still active.
LEMMA AbortTurnIfActiveInv ==
    ASSUME TurnInv, NEW t \in Turns, AbortTurnIfActive(t)
    PROVE  TurnInv'
<1> DEFINE r == [AtRest EXCEPT !.pc = "abort", !.todo = active.tasks, !.ts = active.ts]
<1>1. act[Guard] = AtRest /\ active.ts # NoTs
  BY Names, Known DEF AbortTurnIfActive, ActorRec, ActiveOK
<1>2. /\ active' = NoTurn /\ task' = task /\ tstate' = tstate /\ Loose' = Loose
      /\ active'.ts = NoTs /\ active'.tasks = {} /\ active' \in ActiveTurn
      /\ act' = [act EXCEPT ![Guard] = r]
  BY DEF AbortTurnIfActive, NoTurn, Loose, ActiveTurn
<1>3. Typed
  BY <1>2, Known DEF AbortTurnIfActive, Typed, TypeOK
<1>4. active.tasks \subseteq Turns /\ active.ts \in TurnStates
  BY <1>1, Known DEF ActiveTurn
<1>5. /\ r \in Actor /\ r.pc = "abort" /\ r.todo = active.tasks /\ r.ts = active.ts
      /\ r.turn = 0 /\ r.why = "interrupted" /\ r.held = {} /\ r.victim = 0
  BY <1>4, AtRestRec DEF Actor
<1> HIDE DEF r
<1>6. ActorRec(r)
  BY <1>1, <1>5 DEF ActorRec, Starting
<1>7. Doom(r) = active.tasks /\ Doom(act[Guard]) = {}
  BY <1>1, <1>4, <1>5, Names DEF Doom, AtRest
<1>8. PlaceholderMove(Guard, r)
  BY <1>2 DEF PlaceholderMove
<1>9. act[Guard].held = {} /\ act[Guard].ts = NoTs
  BY <1>1 DEF AtRest
<1>10. ASSUME NEW m \in Task, NEW i \in Items
       PROVE  i \in Loose \/ i \in act[Guard].held => Kept(i, r, m)
  BY <1>2, <1>9 DEF Kept
<1>11. \A k \in TurnStates : /\ ~ActorOwns(act[Guard], k)
                             /\ active.ts = k => ActorOwns(r, k)
  BY <1>5, <1>9, Names DEF ActorOwns
<1>12. r.turn \in {0, act[Guard].turn} /\ Guard \notin Turns /\ Guard \in Actors
  BY <1>5, Names
<1> QED
  BY <1>2, <1>3, <1>5, <1>6, <1>7, <1>8, <1>10, <1>11, <1>12, Names, ActorMoves

\* The input of the turn an abort took is dropped when its tasks are aborted.
LEMMA ClearAbortedInv ==
    ASSUME TurnInv, NEW a \in Actors, ClearAborted(a)
    PROVE  TurnInv'
<1> DEFINE r == AfterAbort(a)
           k0 == act[a].ts
<1>1. act[a].pc = "abort" /\ act[a].todo = {} /\ k0 \in TurnStates
  BY Known DEF ClearAborted, ActorRec, Actor
<1>2. /\ r \in Actor /\ ActorRec(r) /\ Doom(r) = {} /\ Doom(act[a]) = {}
      /\ r.pc \in {"take", "check"} /\ r.turn = act[a].turn
      /\ r.ts = NoTs /\ r.held = {} /\ act[a].held = {}
  BY <1>1, AfterAbortRec
<1>3. act' = [act EXCEPT ![a] = r] /\ UNCHANGED <<active, task>>
  BY DEF ClearAborted
<1>4. ClearPending(k0, TRUE)
  BY DEF ClearAborted
<1> HIDE DEF r
<1>5. /\ tstate' \in [TurnStates -> TurnState] /\ dropped' \subseteq Items
      /\ dropped \subseteq dropped' /\ tstate[k0].input \subseteq dropped'
      /\ \A k \in TurnStates : k # k0 => tstate'[k] = tstate[k]
  BY <1>1, <1>4, ClearPendingItems
<1>6. Typed
  BY <1>5, Known DEF ClearAborted, Typed, TypeOK
<1>7. Loose \subseteq Loose' /\ dropped' \subseteq Loose'
  BY <1>5 DEF Loose, ClearAborted
<1>8. PlaceholderMove(a, r)
  BY <1>1, <1>3 DEF PlaceholderMove, Starts, Starting
<1>9. ASSUME NEW m \in Task, NEW i
      PROVE  /\ i \in Loose \/ i \in act[a].held => Kept(i, r, m)
             /\ i \in tstate[k0].input => Kept(i, r, m)
  BY <1>2, <1>5, <1>7 DEF Kept
<1>10. a \in Turns => task[a].pc = "gone"
  BY <1>1, Awake
<1> QED
  BY <1>2, <1>3, <1>5, <1>6, <1>8, <1>9, <1>10, Known, ActorMoves
  DEF ActiveOK, ActorOwns

\* An actor with no task and no turn state moves on, and the session with its
\* active turn stays as it is.
LEMMA PlainMoves ==
    ASSUME TurnInv, Typed, NEW a \in Actors, NEW r \in Actor,
           act[a].pc \in {"check", "place"},
           act' = [act EXCEPT ![a] = r], UNCHANGED <<active, task, tstate>>,
           Loose' = Loose, ActorRec(r), Doom(r) = {}, r.turn \in {0, act[a].turn}
    PROVE  TurnInv'
<1>1. /\ act[a].held = {} /\ act[a].ts = NoTs /\ act[a].todo = {}
      /\ act[a].victim = 0
  BY Known DEF ActorRec
<1>2. Doom(act[a]) = {} /\ (a \in Turns => task[a].pc = "gone")
  BY <1>1, Awake, Names DEF Doom
<1>3. PlaceholderMove(a, r)
  BY DEF PlaceholderMove, Starts, Starting
<1>4. ASSUME NEW m \in Task, NEW i
      PROVE  i \in Loose \/ i \in act[a].held => Kept(i, r, m)
  BY <1>1 DEF Kept
<1>5. active.ts = NoTs => active.tasks = {}
  BY Known DEF ActiveOK
<1>6. active' = active /\ task' = task /\ tstate' = tstate
  OBVIOUS
<1> QED
  BY <1>1, <1>2, <1>3, <1>4, <1>5, <1>6, Names, ActorMoves DEF ActorOwns

\* A look for pending work.
LEMMA CheckPendingWorkInv ==
    ASSUME TurnInv, NEW a \in Actors, CheckPendingWork(a)
    PROVE  TurnInv'
<1>1. /\ act[a] \in Actor /\ ActorRec(act[a]) /\ act[a].pc = "check"
      /\ act[a].todo = {} /\ act[a].victim = 0
  BY Known DEF CheckPendingWork, ActorRec
<1>2. Typed
  BY Known DEF CheckPendingWork, Typed, TypeOK
<1>3. UNCHANGED <<active, task, tstate>> /\ Loose' = Loose
  BY DEF CheckPendingWork, Loose
<1>4. CASE idle # {} \/ mail \cap Triggers # {}
  <2> DEFINE r == [act[a] EXCEPT !.pc = "place"]
  <2>1. act' = [act EXCEPT ![a] = r]
    BY <1>4 DEF CheckPendingWork
  <2>2. /\ r \in Actor /\ r.pc = "place" /\ r.turn = act[a].turn /\ r.todo = {}
        /\ r.victim = 0 /\ r.ts = act[a].ts /\ r.held = act[a].held
        /\ r.why = act[a].why
    BY <1>1 DEF Actor
  <2> HIDE DEF r
  <2>3. ActorRec(r)
    BY <1>1, <2>2 DEF ActorRec, Starting
  <2>4. Doom(r) = {}
    BY <2>2, Names DEF Doom
  <2> QED
    BY <1>1, <1>2, <1>3, <2>1, <2>2, <2>3, <2>4, PlainMoves
<1>5. CASE ~(idle # {} \/ mail \cap Triggers # {})
  <2> DEFINE r == Through(a)
  <2>1. act' = [act EXCEPT ![a] = r]
    BY <1>5 DEF CheckPendingWork
  <2>2. r \in Actor /\ ActorRec(r) /\ Doom(r) = {} /\ r.turn = 0
    BY ThroughRec
  <2> HIDE DEF r
  <2> QED
    BY <1>1, <1>2, <1>3, <2>1, <2>2, PlainMoves
<1> QED BY <1>4, <1>5

\* A start that finds the session busy gives up.
LEMMA LeaveTurnInv ==
    ASSUME TurnInv, NEW a \in Actors, LeaveTurn(a)
    PROVE  TurnInv'
<1> DEFINE r == Through(a)
<1>1. r \in Actor /\ ActorRec(r) /\ Doom(r) = {} /\ r.turn = 0
  BY ThroughRec
<1>2. Typed
  BY Known DEF LeaveTurn, Typed, TypeOK
<1>3. /\ UNCHANGED <<active, task, tstate>> /\ Loose' = Loose
      /\ act' = [act EXCEPT ![a] = r] /\ act[a].pc = "place"
  BY DEF LeaveTurn, Loose
<1> HIDE DEF r
<1> QED
  BY <1>1, <1>2, <1>3, PlainMoves

\* start_task takes the queued and the pending input into its hands ...
LEMMA TakePendingInv ==
    ASSUME TurnInv, NEW a \in Actors, TakePending(a)
    PROVE  TurnInv'
<1> DEFINE h == idle \cup PendingInput
           r == [act[a] EXCEPT !.pc = "attach", !.held = h]
<1>1. h \subseteq Items
  BY Known, Pending DEF TypeOK
<1>2. /\ act[a] \in Actor /\ ActorRec(act[a]) /\ act[a].pc = "take"
      /\ act[a].todo = {} /\ act[a].victim = 0 /\ act[a].held = {} /\ act[a].ts = NoTs
  BY Known DEF TakePending, ActorRec
<1>3. /\ act' = [act EXCEPT ![a] = r] /\ active' = active /\ task' = task
      /\ TakePendingInput /\ idle' = {}
  BY DEF TakePending
<1>4. \A i : i \in h <=> i \in idle \/ i \in PendingInput
  OBVIOUS
<1> HIDE DEF h
<1>5. /\ r \in Actor /\ r.pc = "attach" /\ r.held = h /\ r.turn = act[a].turn
      /\ r.todo = {} /\ r.victim = 0 /\ r.ts = NoTs /\ r.why = act[a].why
  BY <1>1, <1>2 DEF Actor, Starting
<1> HIDE DEF r
<1>6. ActorRec(r)
  BY <1>2, <1>5 DEF ActorRec, Starting
<1>7. Doom(r) = {} /\ Doom(act[a]) = {} /\ (a \in Turns => task[a].pc = "gone")
  BY <1>2, <1>5, Awake, Names DEF Doom
<1>8. PlaceholderMove(a, r)
  BY <1>3, <1>5 DEF PlaceholderMove, Starts, Starting
<1>9. Typed
  BY <1>3, Known, Pending DEF TakePending, Typed, TypeOK
<1>10. ASSUME NEW m \in Task, NEW i
       PROVE  /\ i \in Loose \/ i \in act[a].held => Kept(i, r, m)
              /\ \A k \in TurnStates :
                   i \in tstate[k].input => i \in tstate'[k].input \/ Kept(i, r, m)
  <2>1. i \in idle \/ i \in PendingInput => Kept(i, r, m)
    BY <1>4, <1>5 DEF Kept
  <2>2. i \in Loose => i \in Loose' \/ i \in idle \/ i \in PendingInput
    BY <1>3, Pending DEF TakePending, Loose
  <2> QED
    BY <1>2, <1>3, <2>1, <2>2, Pending DEF Kept
<1>11. active.ts = NoTs => active.tasks = {}
  BY Known DEF ActiveOK
<1> QED
  BY <1>2, <1>3, <1>5, <1>6, <1>7, <1>8, <1>9, <1>10, <1>11, Names, ActorMoves
  DEF ActorOwns

\* ... attaches to the active turn, or makes one ...
LEMMA AttachTurnInv ==
    ASSUME TurnInv, NEW a \in Actors, AttachTurn(a)
    PROVE  TurnInv'
<1> DEFINE r == [act[a] EXCEPT !.pc = "push", !.ts = active'.ts]
<1>1. /\ act[a] \in Actor /\ ActorRec(act[a]) /\ act[a].pc = "attach"
      /\ act[a].todo = {} /\ act[a].victim = 0 /\ act[a].ts = NoTs /\ act[a].turn # 0
  BY Known DEF AttachTurn, ActorRec, Starting
<1>2. <<act[a].turn, 2>> \in TurnStates
  BY <1>1, TurnAssumption DEF Actor, TurnStates, Turns
<1>3. /\ active' \in ActiveTurn /\ active'.ts \in TurnStates
      /\ active'.tasks = active.tasks
      /\ active.ts # NoTs => active'.ts = active.ts
      /\ active.ts = NoTs => active'.ts[1] = act[a].turn
  <2>1. CASE active.ts = NoTs
    <3>1. active' = [ts |-> <<act[a].turn, 2>>, tasks |-> {}]
      BY <2>1 DEF AttachTurn
    <3>2. active.tasks = {}
      BY <2>1, Known DEF ActiveOK
    <3> HIDE DEF r
    <3> QED
      BY <1>2, <2>1, <3>1, <3>2 DEF ActiveTurn
  <2>2. CASE active.ts # NoTs
    BY <2>2, Known DEF AttachTurn, ActiveTurn
  <2> QED BY <2>1, <2>2
<1>4. /\ act' = [act EXCEPT ![a] = r] /\ task' = task /\ tstate' = tstate /\ Loose' = Loose
  BY DEF AttachTurn, Loose
<1>5. /\ r \in Actor /\ r.pc = "push" /\ r.held = act[a].held /\ r.turn = act[a].turn
      /\ r.todo = {} /\ r.victim = 0 /\ r.ts = active'.ts /\ r.why = act[a].why
  BY <1>1, <1>3 DEF Actor, Starting
<1> HIDE DEF r
<1>6. ActorRec(r)
  BY <1>1, <1>3, <1>5, Names DEF ActorRec, Starting
<1>7. Doom(r) = {} /\ Doom(act[a]) = {} /\ (a \in Turns => task[a].pc = "gone")
  BY <1>1, <1>5, Awake, Names DEF Doom
<1>8. PlaceholderMove(a, r)
  BY <1>3, <1>5 DEF PlaceholderMove, Starts, Starting
<1>9. Typed
  BY <1>3, Known DEF AttachTurn, Typed, TypeOK
<1>10. ASSUME NEW m \in Task, NEW i
       PROVE  i \in Loose \/ i \in act[a].held => Kept(i, r, m)
  BY <1>4, <1>5 DEF Kept
<1>11. /\ \A k : ~ActorOwns(act[a], k)
       /\ \A k \in TurnStates : active.ts = k => active'.ts = k
       /\ r.turn \in {0, act[a].turn} /\ active'.ts # NoTs
  BY <1>1, <1>3, <1>5, Names DEF ActorOwns
<1> QED
  BY <1>3, <1>4, <1>5, <1>6, <1>7, <1>8, <1>9, <1>10, <1>11, Names, ActorMoves

\* ... and pushes the input to the turn state it got; if that is not the active
\* turn's any more, the input has gone astray.
LEMMA PushInputInv ==
    ASSUME TurnInv, NEW a \in Actors, PushInput(a)
    PROVE  TurnInv'
<1> DEFINE k0 == act[a].ts
           s == [tstate[k0] EXCEPT !.input = @ \cup act[a].held]
           r == [act[a] EXCEPT !.pc = "spawn", !.ts = NoTs, !.held = {}]
<1>1. /\ act[a] \in Actor /\ ActorRec(act[a]) /\ act[a].pc = "push"
      /\ act[a].todo = {} /\ act[a].victim = 0 /\ k0 \in TurnStates
      /\ act[a].held \subseteq Items
  BY Known DEF PushInput, ActorRec, Actor
<1>2. /\ act' = [act EXCEPT ![a] = r] /\ task' = task /\ active' = active
      /\ Loose' = Loose /\ tstate' = [tstate EXCEPT ![k0] = s]
  BY DEF PushInput, Loose
<1>3. s \in TurnState /\ s.input = tstate[k0].input \cup act[a].held
  BY <1>1, Known DEF TurnState
<1>4. /\ r \in Actor /\ r.pc = "spawn" /\ r.held = {} /\ r.turn = act[a].turn
      /\ r.todo = {} /\ r.victim = 0 /\ r.ts = NoTs /\ r.why = act[a].why
  BY <1>1 DEF Actor, Starting
<1> HIDE DEF r, s, k0
<1>5. /\ tstate' \in [TurnStates -> TurnState]
      /\ act[a].held \subseteq tstate'[k0].input
      /\ \A k \in TurnStates : tstate[k].input \subseteq tstate'[k].input
  BY <1>1, <1>2, <1>3, Known
<1>6. ActorRec(r)
  BY <1>1, <1>4 DEF ActorRec, Starting
<1>7. Doom(r) = {} /\ Doom(act[a]) = {} /\ (a \in Turns => task[a].pc = "gone")
  BY <1>1, <1>4, Awake, Names DEF Doom
<1>8. PlaceholderMove(a, r)
  BY <1>2, <1>4 DEF PlaceholderMove, Starts, Starting
<1>9. Typed
  <2>1. Marked
    BY <1>1, Known DEF PushInput, Marked, TypeOK
  <2> QED
    BY <1>5, <2>1, Known DEF PushInput, Typed, TypeOK
<1>10. active.ts # k0 => act[a].held \subseteq stray'
  BY DEF PushInput, k0
<1>11. ASSUME NEW m \in Task, NEW i
       PROVE  i \in Loose \/ i \in act[a].held => Kept(i, r, m)
  BY <1>1, <1>2, <1>5, <1>10, Names DEF Kept
<1>12. active.ts = NoTs => active.tasks = {}
  BY Known DEF ActiveOK
<1> QED
  BY <1>1, <1>2, <1>4, <1>5, <1>6, <1>7, <1>8, <1>9, <1>11, <1>12, Names, ActorMoves
  DEF ActorOwns

-----------------------------------------------------------------------------
(* Aborting a turn and starting one: an actor and a task move.             *)

\* The second lock: the new task is listed, whoever's the turn is.
LEMMA SpawnTaskInv ==
    ASSUME TurnInv, NEW a \in Actors, SpawnTask(a)
    PROVE  TurnInv'
<1> DEFINE t == act[a].turn
           m == [task[t] EXCEPT !.pc = "begin"]
           r == Through(a)
<1>1. /\ act[a] \in Actor /\ ActorRec(act[a]) /\ act[a].pc = "spawn"
      /\ act[a].todo = {} /\ act[a].victim = 0 /\ act[a].ts = NoTs
      /\ act[a].held = {} /\ act[a].turn # 0
  BY Known DEF SpawnTask, ActorRec, Starting
<1>2. t \in Turns /\ <<t, 3>> \in TurnStates
  BY <1>1, TurnAssumption DEF Actor, Turns, TurnStates
<1>3. task[t].pc = "new" /\ task[t] \in Task /\ TaskRec(task[t])
  BY <1>1, <1>2, Known DEF TurnInv, Structure, StartsOK
<1>4. /\ active' = [ts |-> IF active.ts = NoTs THEN <<t, 3>> ELSE active.ts,
                    tasks |-> active.tasks \cup {t}]
      /\ task' = [task EXCEPT ![t] = m] /\ act' = [act EXCEPT ![a] = r]
      /\ tstate' = tstate /\ Loose' = Loose
  BY DEF SpawnTask, Loose
<1>5. /\ active' \in ActiveTurn /\ active'.ts # NoTs
      /\ active'.tasks = active.tasks \cup {t}
      /\ active.ts # NoTs => active'.ts = active.ts
  <2>1. active'.tasks = active.tasks \cup {t} /\ active.tasks \subseteq Turns
    BY <1>4, Known DEF ActiveTurn
  <2>2. CASE active.ts = NoTs
    BY <1>2, <1>4, <2>1, <2>2, Names DEF ActiveTurn
  <2>3. CASE active.ts # NoTs
    BY <1>2, <1>4, <2>1, <2>3, Known DEF ActiveTurn
  <2> QED BY <2>2, <2>3
<1>6. /\ m \in Task /\ m.pc = "begin" /\ m.held = task[t].held /\ m.ts = task[t].ts
      /\ m.aborted = task[t].aborted /\ m.cleared = task[t].cleared
  BY <1>3 DEF Task, Running
<1>7. /\ r \in Actor /\ ActorRec(r) /\ Doom(r) = {} /\ r.turn = 0
      /\ r.pc \in {"idle", "exited"} /\ r.ts = NoTs /\ r.held = {}
  BY ThroughRec
<1> HIDE DEF t, m, r
<1>8. Doom(act[a]) = {} /\ (a \in Turns => task[a].pc = "gone")
  BY <1>1, Awake, Names DEF Doom
<1>9. TaskRec(m) /\ Listed(m) /\ m.ts = NoTs
  BY <1>3, <1>6 DEF TaskRec, Listed, Running, Ending
<1>10. Typed
  BY <1>5, Known DEF SpawnTask, Typed, TypeOK
<1>11. Moves(a, r, t, m)
  BY <1>4 DEF Moves
<1>12. StructureMove(a, r, t, m)
  <2>1. ActiveMove(t, m)
    BY <1>3, <1>5, <1>9 DEF ActiveMove
  <2>2. StartMove(a, r, t, m)
    BY <1>7 DEF StartMove, t
  <2>3. AbortMove(a, r, t, m)
    BY <1>5, <1>7, <1>8 DEF AbortMove
  <2>4. TaskMove(a, r, t, m)
    <3>1. a \in Turns => task'[a] = task[a]
      BY <1>3, <1>4, <1>8, Known
    <3> QED
      BY <1>3, <1>5, <1>6, <1>8, <3>1 DEF TaskMove
  <2>5. PlaceholderMove(a, r)
    BY <1>5 DEF PlaceholderMove
  <2> QED
    BY <1>7, <1>9, <2>1, <2>2, <2>3, <2>4, <2>5 DEF StructureMove
<1>13. InputMove(a, r, t, m)
  <2>1. task[t].ts = NoTs /\ act[a].pc = "spawn"
    BY <1>1, <1>6, <1>9
  <2> QED
    BY <1>1, <1>4, <1>5, <1>6, <2>1, Names DEF InputMove, Kept, ActorOwns, TaskOwns
<1> QED
  BY <1>2, <1>6, <1>7, <1>10, <1>11, <1>12, <1>13, MoveInv

\* The task NewTask leaves for turn t.
Made(t, kind, items) == [task[t] EXCEPT !.pc = "new", !.kind = kind, !.held = items]

\* A new sub_id has a task that was nowhere.
LEMMA NewTaskRec ==
    ASSUME TurnInv, NEW t \in NewTurn, NEW kind \in {"regular", "shell", "review"},
           NEW items \in SUBSET Items, NEW m, m = Made(t, kind, items)
    PROVE  /\ t \in Turns /\ t # 0 /\ m \in Task /\ TaskRec(m) /\ m.pc = "new"
           /\ m.held = items /\ m.ts = NoTs /\ ~m.aborted
           /\ task[t].pc = "none" /\ task[t].held = {} /\ task[t].ts = NoTs
           /\ t \notin active.tasks
<1>1. t \in Turns /\ task[t].pc = "none" /\ task[t] \in Task /\ TaskRec(task[t])
  BY Known DEF NewTurn
<1>2. /\ m \in Task /\ m.pc = "new" /\ m.held = items /\ m.ts = task[t].ts
      /\ m.aborted = task[t].aborted /\ m.cleared = task[t].cleared
  BY <1>1 DEF Task, Made
<1>3. task[t].ts = NoTs /\ ~task[t].aborted /\ task[t].held = {} /\ ~task[t].cleared
  BY <1>1 DEF TaskRec, Ending
<1>4. TaskRec(m)
  BY <1>2, <1>3 DEF TaskRec
<1>5. t \notin active.tasks
  BY <1>1, Known DEF Listed, Running
<1> QED
  BY <1>1, <1>2, <1>3, <1>4, <1>5, Names

\* An idle session gets a placeholder, which its start owns.
LEMMA PlaceTurnInv ==
    ASSUME TurnInv, NEW a \in Actors, PlaceTurn(a)
    PROVE  TurnInv'
<1>1. PICK t \in NewTurn :
        /\ active' = [ts |-> <<t, 1>>, tasks |-> {}]
        /\ NewTask(t, "regular", {})
        /\ act' = [act EXCEPT ![a].pc = "take", ![a].turn = t]
  BY DEF PlaceTurn
<1> DEFINE m == Made(t, "regular", {})
           r == [act[a] EXCEPT !.pc = "take", !.turn = t]
<1>2. /\ t \in Turns /\ t # 0 /\ m \in Task /\ TaskRec(m) /\ m.pc = "new"
      /\ m.held = {} /\ m.ts = NoTs /\ ~m.aborted
      /\ task[t].pc = "none" /\ task[t].held = {} /\ task[t].ts = NoTs
      /\ t \notin active.tasks
  <2>1. {} \in SUBSET Items /\ "regular" \in {"regular", "shell", "review"}
    OBVIOUS
  <2> QED
    BY <2>1, NewTaskRec
<1>3. /\ act[a] \in Actor /\ ActorRec(act[a]) /\ act[a].pc = "place"
      /\ act[a].todo = {} /\ act[a].victim = 0 /\ act[a].ts = NoTs
      /\ act[a].held = {} /\ active.ts = NoTs /\ active.tasks = {}
  BY Known DEF PlaceTurn, ActorRec, ActiveOK
<1>4. /\ task' = [task EXCEPT ![t] = m] /\ act' = [act EXCEPT ![a] = r]
      /\ tstate' = tstate /\ Loose' = Loose
  <2>1. task' = [task EXCEPT ![t] = m]
    BY <1>1 DEF NewTask, Made
  <2>2. act' = [act EXCEPT ![a] = r]
    BY <1>1
  <2>3. tstate' = tstate /\ Loose' = Loose
    BY DEF PlaceTurn, Loose
  <2> HIDE DEF m, r
  <2> QED
    BY <2>1, <2>2, <2>3
<1>5. /\ r \in Actor /\ r.pc = "take" /\ r.turn = t /\ r.todo = {} /\ r.victim = 0
      /\ r.ts = NoTs /\ r.held = {} /\ r.why = act[a].why
  BY <1>2, <1>3, Names DEF Actor, Starting
<1> HIDE DEF m, r
<1>6. /\ active' \in ActiveTurn /\ active'.ts \in TurnStates /\ active'.tasks = {}
      /\ active'.ts[1] = t
  BY <1>1, <1>2 DEF ActiveTurn, TurnStates
<1>7. ActorRec(r) /\ Doom(r) = {} /\ Doom(act[a]) = {}
  BY <1>2, <1>3, <1>5, Names DEF ActorRec, Doom
<1>8. a \in Turns => task'[a].pc = "gone"
  BY <1>2, <1>3, <1>4, Awake, Known
<1>9. Typed
  BY <1>6, Known DEF PlaceTurn, Typed, TypeOK
<1>10. Moves(a, r, t, m)
  BY <1>4 DEF Moves
<1>11. StructureMove(a, r, t, m)
  <2>1. ActiveMove(t, m)
    BY <1>6 DEF ActiveMove
  <2>2. StartMove(a, r, t, m)
    BY <1>2, <1>5 DEF StartMove
  <2>3. AbortMove(a, r, t, m)
    BY <1>3, <1>7 DEF AbortMove
  <2>4. TaskMove(a, r, t, m)
    BY <1>2, <1>8 DEF TaskMove, Running
  <2>5. PlaceholderMove(a, r)
    BY <1>5, <1>6 DEF PlaceholderMove, Starts, Starting
  <2> QED
    BY <1>2, <1>7, <2>1, <2>2, <2>3, <2>4, <2>5 DEF StructureMove
<1>12. InputMove(a, r, t, m)
  BY <1>2, <1>3, <1>4, Names DEF InputMove, Kept, ActorOwns, TaskOwns
<1> QED
  BY <1>2, <1>5, <1>9, <1>10, <1>11, <1>12, MoveInv

\* A request that starts a turn has its input in the hands of the new task.
LEMMA SpawnOpInv ==
    ASSUME TurnInv, NEW i, NEW kind \in {"regular", "shell", "review"},
           NEW items \in SUBSET Items, SpawnOp(i, kind, items),
           i \in Items => i \in items
    PROVE  TurnInv'
<1>1. PICK t \in NewTurn :
        /\ NewTask(t, kind, items)
        /\ act' = [act EXCEPT ![Loop] = [AtRest EXCEPT !.pc = "takeall",
                                           !.why = "replaced", !.turn = t]]
  BY DEF SpawnOp
<1> DEFINE m == Made(t, kind, items)
           r == [AtRest EXCEPT !.pc = "takeall", !.why = "replaced", !.turn = t]
<1>2. /\ t \in Turns /\ t # 0 /\ m \in Task /\ TaskRec(m) /\ m.pc = "new"
      /\ m.held = items /\ m.ts = NoTs /\ ~m.aborted
      /\ task[t].pc = "none" /\ task[t].held = {} /\ task[t].ts = NoTs
      /\ t \notin active.tasks
  BY NewTaskRec
<1>3. act[Loop] = AtRest /\ Loop \in Actors
  BY Known, Names DEF SpawnOp, ActorRec
<1>4. /\ task' = [task EXCEPT ![t] = m] /\ act' = [act EXCEPT ![Loop] = r]
      /\ tstate' = tstate /\ active' = active
      /\ \A j \in Loose : j \in Loose' \/ j = i
  BY <1>1 DEF SpawnOp, NewTask, Made, Loose
<1>5. /\ r \in Actor /\ r.pc = "takeall" /\ r.turn = t /\ r.todo = {} /\ r.victim = 0
      /\ r.ts = NoTs /\ r.held = {} /\ r.why = "replaced"
  BY <1>2, AtRestRec, Names DEF Actor
<1> HIDE DEF m, r
<1>6. ActorRec(r) /\ Doom(r) = {} /\ Doom(act[Loop]) = {}
  BY <1>2, <1>3, <1>5, AtRestRec, Names DEF ActorRec, Doom
<1>7. Typed
  BY Known DEF SpawnOp, Typed, TypeOK
<1>8. Moves(Loop, r, t, m)
  BY <1>4 DEF Moves
<1>9. StructureMove(Loop, r, t, m)
  <2>1. ActiveMove(t, m)
    BY <1>2, <1>4, Known DEF ActiveMove, ActiveOK
  <2>2. StartMove(Loop, r, t, m)
    BY <1>2, <1>5 DEF StartMove
  <2>3. AbortMove(Loop, r, t, m)
    BY <1>4, <1>6 DEF AbortMove
  <2>4. TaskMove(Loop, r, t, m)
    BY <1>2, Names DEF TaskMove, Running
  <2>5. PlaceholderMove(Loop, r)
    BY <1>3, <1>4, AtRestRec DEF PlaceholderMove, Starts, Starting
  <2> QED
    BY <1>2, <1>6, <2>1, <2>2, <2>3, <2>4, <2>5 DEF StructureMove
<1>10. InputMove(Loop, r, t, m)
  BY <1>2, <1>3, <1>4, AtRestRec, Names DEF InputMove, Kept, ActorOwns, TaskOwns
<1> QED
  BY <1>2, <1>3, <1>5, <1>7, <1>8, <1>9, <1>10, MoveInv

\* A task is cancelled; it stays in the hands of its abort.
LEMMA CancelTaskInv ==
    ASSUME TurnInv, NEW a \in Actors, CancelTask(a)
    PROVE  TurnInv'
<1>1. PICK t \in act[a].todo :
        /\ task' = [task EXCEPT ![t].cancelled = TRUE]
        /\ act' = [act EXCEPT ![a].pc = "grace", ![a].victim = t, ![a].todo = @ \ {t}]
  BY DEF CancelTask
<1> DEFINE m == [task[t] EXCEPT !.cancelled = TRUE]
           r == [act[a] EXCEPT !.pc = "grace", !.victim = t, !.todo = @ \ {t}]
<1>2. /\ act[a] \in Actor /\ ActorRec(act[a]) /\ act[a].pc = "abort"
      /\ act[a].victim = 0 /\ act[a].ts # NoTs /\ act[a].held = {}
      /\ act[a].todo \subseteq Turns
  BY Known DEF CancelTask, ActorRec, Actor
<1>3. t \in Turns /\ t # 0 /\ t \in Doom(act[a])
  BY <1>2, Names DEF Doom
<1>4. t \notin active.tasks /\ task[t].pc \notin {"none", "new"}
  BY <1>3 DEF TurnInv, Structure, AbortsOK
<1>5. /\ m \in Task /\ m.pc = task[t].pc /\ m.held = task[t].held /\ m.ts = task[t].ts
      /\ m.aborted = task[t].aborted /\ m.cleared = task[t].cleared
      /\ TaskRec(task[t])
  BY <1>3, Known DEF Task
<1>6. /\ task' = [task EXCEPT ![t] = m] /\ act' = [act EXCEPT ![a] = r]
      /\ tstate' = tstate /\ active' = active /\ Loose' = Loose
  BY <1>1 DEF CancelTask, Loose
<1>7. /\ r \in Actor /\ r.pc = "grace" /\ r.turn = act[a].turn
      /\ r.todo = act[a].todo \ {t} /\ r.victim = t
      /\ r.ts = act[a].ts /\ r.held = {} /\ r.why = act[a].why
  BY <1>2, <1>3, Names DEF Actor
<1> HIDE DEF m, r
<1>8. ActorRec(r) /\ TaskRec(m)
  BY <1>2, <1>3, <1>5, <1>7 DEF ActorRec, TaskRec, Starting
<1>9. Doom(r) = Doom(act[a])
  BY <1>1, <1>2, <1>3, <1>7, Names DEF Doom
<1>10. Typed
  BY Known DEF CancelTask, Typed, TypeOK
<1>11. Moves(a, r, t, m)
  BY <1>6 DEF Moves
<1>12. a \in Turns => task'[a].pc = "gone"
  BY <1>2, <1>3, <1>5, <1>6, Awake, Known
<1>13. act[a].turn # 0 => task[act[a].turn].pc = "new"
  BY DEF TurnInv, Structure, StartsOK
<1>14. StructureMove(a, r, t, m)
  <2>1. ActiveMove(t, m)
    BY <1>4, <1>6, Known DEF ActiveMove, ActiveOK
  <2>2. StartMove(a, r, t, m)
    BY <1>4, <1>7, <1>13 DEF StartMove
  <2>3. AbortMove(a, r, t, m)
    BY <1>6, <1>9 DEF AbortMove
  <2>4. TaskMove(a, r, t, m)
    BY <1>5, <1>12 DEF TaskMove
  <2>5. PlaceholderMove(a, r)
    BY <1>2, <1>6 DEF PlaceholderMove, Starts, Starting
  <2> QED
    BY <1>8, <2>1, <2>2, <2>3, <2>4, <2>5 DEF StructureMove
<1>15. InputMove(a, r, t, m)
  BY <1>2, <1>5, <1>6, <1>7, Names DEF InputMove, Kept, ActorOwns, TaskOwns
<1> QED
  BY <1>3, <1>5, <1>7, <1>10, <1>11, <1>14, <1>15, MoveInv

\* An aborted task is gone with what it held, or stays at its end with its turn
\* state.
LEMMA AbortTaskInv ==
    ASSUME TurnInv, NEW a \in Actors, AbortTask(a)
    PROVE  TurnInv'
<1> DEFINE t == act[a].victim
           m == IF task[t].pc \in Running
                THEN [task[t] EXCEPT !.pc = "gone", !.held = {}, !.ts = NoTs]
                ELSE [task[t] EXCEPT !.aborted = TRUE]
           r == [act[a] EXCEPT !.pc = "abort", !.victim = 0]
<1>1. /\ act[a] \in Actor /\ ActorRec(act[a]) /\ act[a].pc = "grace"
      /\ act[a].victim # 0 /\ act[a].ts # NoTs /\ act[a].held = {}
      /\ act[a].todo \subseteq Turns
  BY Known DEF AbortTask, ActorRec, Actor
<1>2. t \in Turns
  BY <1>1, TurnAssumption DEF Actor, Turns
<1>3. t \in Doom(act[a])
  BY <1>2 DEF Doom
<1>4. /\ t \notin active.tasks /\ task[t].pc \notin {"none", "new"}
      /\ task[t] \in Task /\ TaskRec(task[t])
  BY <1>2, <1>3, Known DEF TurnInv, Structure, AbortsOK
<1>5. /\ task' = [task EXCEPT ![t] = m] /\ act' = [act EXCEPT ![a] = r]
      /\ tstate' = tstate /\ active' = active
      /\ ended' = [ended EXCEPT ![t] = @ \cup {"aborted"}]
      /\ dropped' = IF task[t].pc \in Running THEN dropped \cup task[t].held ELSE dropped
  BY DEF AbortTask, StopTask
<1>6. /\ r \in Actor /\ r.pc = "abort" /\ r.turn = act[a].turn
      /\ r.todo = act[a].todo /\ r.victim = 0
      /\ r.ts = act[a].ts /\ r.held = {} /\ r.why = act[a].why
  BY <1>1, Names DEF Actor
<1>7. /\ m \in Task /\ m.pc \notin Running \cup {"none", "new"}
      /\ m.pc # "gone" => task[t].pc # "gone"
      /\ task[t].held \subseteq Items
      /\ task[t].pc \in Running => /\ m.pc = "gone" /\ m.held = {} /\ m.ts = NoTs
                                   /\ task[t].ts = NoTs
      /\ task[t].pc \notin Running => /\ m.pc = task[t].pc /\ m.held = task[t].held
                                      /\ m.ts = task[t].ts
                                      /\ m.cleared = task[t].cleared
                                      /\ m.pc \in Ending \cup {"gone"}
  <2>1. CASE task[t].pc \in Running
    <3>1. m = [task[t] EXCEPT !.pc = "gone", !.held = {}, !.ts = NoTs]
      BY <2>1
    <3> HIDE DEF m, t
    <3> QED
      BY <1>4, <2>1, <3>1 DEF Task, TaskRec, Running
  <2>2. CASE task[t].pc \notin Running
    <3>1. m = [task[t] EXCEPT !.aborted = TRUE]
      BY <2>2
    <3> HIDE DEF m, t
    <3> QED
      BY <1>4, <2>2, <3>1 DEF Task, TaskRec, Running
  <2> QED BY <2>1, <2>2
<1> HIDE DEF m, r, t
<1>8. ActorRec(r) /\ TaskRec(m)
  BY <1>1, <1>4, <1>6, <1>7 DEF ActorRec, TaskRec, Starting
<1>9. \A u \in Turns : u \in Doom(act[a]) <=> u \in Doom(r) \/ u = t
  BY <1>1, <1>2, <1>6, Names DEF Doom, t
<1>10. Typed
  <2>1. dropped' \subseteq Items
    BY <1>5, <1>7, Known DEF TypeOK
  <2>2. ended' \in [Turns -> SUBSET {"complete", "aborted"}]
    BY <1>5, Known DEF TypeOK
  <2> QED
    BY <2>1, <2>2, Known DEF AbortTask, Typed, TypeOK
<1>11. Moves(a, r, t, m)
  BY <1>5 DEF Moves
<1>12. a \in Turns => task'[a].pc = "gone"
  BY <1>1, <1>2, <1>5, <1>7, Awake, Known DEF Running
<1>13. act[a].turn # 0 => task[act[a].turn].pc = "new"
  BY DEF TurnInv, Structure, StartsOK
<1>14. StructureMove(a, r, t, m)
  <2>1. ActiveMove(t, m)
    BY <1>4, <1>5, Known DEF ActiveMove, ActiveOK
  <2>2. StartMove(a, r, t, m)
    BY <1>4, <1>6, <1>13 DEF StartMove
  <2>3. AbortMove(a, r, t, m)
    BY <1>5, <1>7, <1>9 DEF AbortMove, Doom
  <2>4. TaskMove(a, r, t, m)
    BY <1>7, <1>12 DEF TaskMove
  <2>5. PlaceholderMove(a, r)
    BY <1>1, <1>5 DEF PlaceholderMove, Starts, Starting
  <2> QED
    BY <1>8, <2>1, <2>2, <2>3, <2>4, <2>5 DEF StructureMove
<1>15. InputMove(a, r, t, m)
  <2>1. \A i \in Loose : i \in Loose'
    BY <1>5 DEF Loose, AbortTask
  <2>2. \A i \in task[t].held : i \in Loose' \/ i \in m.held
    BY <1>5, <1>7 DEF Loose
  <2>3. \A k \in TurnStates : TaskOwns(task[t], k) => TaskOwns(m, k)
    BY <1>7, Names DEF TaskOwns
  <2> QED
    BY <1>1, <1>5, <1>6, <2>1, <2>2, <2>3 DEF InputMove, Kept, ActorOwns
<1> QED
  BY <1>2, <1>6, <1>7, <1>10, <1>11, <1>14, <1>15, MoveInv

-----------------------------------------------------------------------------
(* The invariant and its consequences.                                     *)

\* An idle session with every request still to come satisfies the invariant.
LEMMA InitInv == Init => TurnInv
<1> SUFFICES ASSUME Init PROVE TurnInv
  OBVIOUS
<1> DEFINE m0 == [pc |-> "none", kind |-> "regular", held |-> {}, cancelled |-> FALSE,
                  aborted |-> FALSE, ts |-> NoTs, cleared |-> FALSE]
<1>1. /\ \A a \in Actors : act[a] = AtRest
      /\ \A t \in Turns : task[t] = m0
      /\ active = NoTurn /\ active.ts = NoTs /\ active.tasks = {}
      /\ fresh = Requests
  BY DEF Init, NoTurn
<1>2. m0 \in Task /\ TaskRec(m0) /\ m0.pc = "none"
  BY DEF Task, TaskRec
<1>3. NewTs \in TurnState /\ NoTurn \in ActiveTurn
  BY DEF NewTs, TurnState, NoTurn, ActiveTurn
<1>4. TypeOK
  <2>1. task \in [Turns -> Task] /\ act \in [Actors -> Actor]
    BY <1>2, AtRestRec DEF Init
  <2>2. tstate \in [TurnStates -> TurnState] /\ active \in ActiveTurn
    BY <1>3 DEF Init
  <2>3. ended \in [Turns -> SUBSET {"complete", "aborted"}] /\ aborts \in 0..MaxAborts
    BY TurnAssumption DEF Init
  <2> QED
    BY <2>1, <2>2, <2>3 DEF Init, TypeOK
<1> HIDE DEF m0
<1>5. ActorRec(AtRest) /\ Doom(AtRest) = {}
  BY AtRestRec, Names DEF ActorRec, Doom, Starting
<1>6. /\ ActiveOK /\ StartsOK /\ AbortsOK /\ SchedulersOK
  BY <1>1, <1>2, <1>5, AtRestRec, Names
  DEF ActiveOK, StartsOK, AbortsOK, SchedulersOK
<1>7. RunningInterruptible /\ PlaceholderOwned
  BY <1>1, <1>2 DEF RunningInterruptible, PlaceholderOwned, Running
<1>8. Structure
  BY <1>1, <1>2, <1>4, <1>5, <1>6, <1>7 DEF Structure
<1>9. InputSafe
  BY <1>1, SomewhereIs, Names DEF Loose, InputSafe
<1> QED
  BY <1>8, <1>9 DEF TurnInv

\* Every step keeps the invariant.
LEMMA NextInv == TurnInv /\ [Next]_vars => TurnInv'
<1> SUFFICES ASSUME TurnInv, [Next]_vars PROVE TurnInv'
  OBVIOUS
<1>1. CASE Submission
  <2>1. ASSUME NEW i \in Prompts, UserTurn(i) PROVE TurnInv'
    <3>1. SpawnOp(i, "regular", {i}) /\ {i} \in SUBSET Items
      BY <2>1, Names DEF UserTurn
    <3> QED BY <3>1, SpawnOpInv
  <2>2. ASSUME NEW i \in Others, OtherTask(i) PROVE TurnInv'
    <3>1. i \notin Items /\ {} \in SUBSET Items
      BY Names
    <3>2. SpawnOp(i, "shell", {}) \/ SpawnOp(i, "review", {})
      BY <2>2 DEF OtherTask
    <3>3. CASE SpawnOp(i, "shell", {})
      BY <3>1, <3>3, SpawnOpInv
    <3>4. CASE SpawnOp(i, "review", {})
      BY <3>1, <3>4, SpawnOpInv
    <3> QED BY <3>2, <3>3, <3>4
  <2> QED
    BY <1>1, <2>1, <2>2, SteerInv, InterAgentCommunicationInv,
       ApproveGuardianDeniedInv, NotifyApprovalInv DEF Submission
<1>2. CASE Aborting
  BY <1>2, InterruptInv, AbortTurnIfActiveInv, CancelTreeInv DEF Aborting
<1>3. ASSUME NEW a \in Actors, ActorStep(a) PROVE TurnInv'
  BY <1>3, TakeActiveTurnInv, CancelTaskInv, AbortTaskInv, ClearAbortedInv,
     CheckPendingWorkInv, PlaceTurnInv, LeaveTurnInv, TakePendingInv, AttachTurnInv,
     PushInputInv, SpawnTaskInv DEF ActorStep
<1>4. ASSUME NEW t \in Turns, TaskStep(t) \/ SamplingOver(t) PROVE TurnInv'
  BY <1>4, BeginRunInv, RecordPendingInv, ApprovalOverInv, OnTaskFinishedInv,
     BlockPendingInv, CompleteTurnInv, OnTaskCancelledInv, CancelTurnInv, StopInv, DrainPendingInv,
     ExitRunInv DEF TaskStep, SamplingOver
<1>5. ASSUME NEW t \in Busy,
             RequestApproval(t) \/ \E p \in {"current", "next"} : SetMailPhase(t, p)
      PROVE  TurnInv'
  <2>1. t \in Turns
    BY TurnAssumption DEF Turns
  <2> QED
    BY <1>5, <2>1, RequestApprovalInv, SetMailPhaseInv
<1>6. CASE UNCHANGED vars
  <2>1. /\ active' = active /\ tstate' = tstate /\ idle' = idle /\ mail' = mail
        /\ task' = task /\ act' = act /\ ended' = ended /\ fresh' = fresh
        /\ history' = history /\ dropped' = dropped /\ aborts' = aborts
        /\ stray' = stray /\ cut' = cut
    BY <1>6 DEF vars
  <2>2. Structure'
    BY <2>1 DEF TurnInv, Structure, TypeOK, ActorRec, TaskRec, ActiveOK, Listed,
       StartsOK, AbortsOK, Doom, SchedulersOK, RunningInterruptible, PlaceholderOwned
  <2>3. Somewhere' = Somewhere
    BY <2>1 DEF Somewhere, Owned
  <2>4. InputSafe => InputSafe'
    BY <2>1, <2>3 DEF InputSafe
  <2> QED
    BY <2>2, <2>4 DEF TurnInv
<1> QED
  BY <1>1, <1>2, <1>3, <1>4, <1>5, <1>6 DEF Next

\* The inductive invariant, for every number of turns and any sets of requests.
THEOREM TurnInvariant == Spec => []TurnInv
<1>1. Init => TurnInv
  BY InitInv
<1>2. TurnInv /\ [Next]_vars => TurnInv'
  BY NextInv
<1> QED
  BY <1>1, <1>2, PTL DEF Spec

\* The types hold, and a task the active turn lists has not ended: it will
\* remove itself, or an abort takes it.
THEOREM TurnsActiveOK == Spec => []ActiveTurnOK
<1>1. TurnInv => ActiveTurnOK
  BY DEF TurnInv, Structure, ActiveOK, Listed, ActiveTurnOK
<1> QED
  BY <1>1, TurnInvariant, PTL

\* A running task is in the active turn or in the hands of an abort.
THEOREM TurnsInterruptible == Spec => []RunningInterruptible
<1>1. TurnInv => RunningInterruptible
  BY DEF TurnInv, Structure
<1> QED
  BY <1>1, TurnInvariant, PTL

\* An active turn without a task belongs to the start that made it, which is
\* under way.
THEOREM TurnsPlaceholder == Spec => []PlaceholderOwned
<1>1. TurnInv => PlaceholderOwned
  BY DEF TurnInv, Structure
<1> QED
  BY <1>1, TurnInvariant, PTL

\* Accepted input is recorded, thrown away by somebody, or where somebody will
\* do one of the two, but for what a start pushed to a turn taken from it.
THEOREM TurnsInput == Spec => []InputAccounted
<1>1. TurnInv => InputAccounted
  BY DEF TurnInv, InputSafe, InputAccounted
<1> QED
  BY <1>1, TurnInvariant, PTL

-----------------------------------------------------------------------------
(* Input is delivered at most once.                                        *)

\* What is in each place, before and after a step.
LEMMA Contents ==
    /\ Content(<<"fresh", 0>>) = fresh /\ Content(<<"idle", 0>>) = idle
    /\ Content(<<"mail", 0>>) = mail /\ Content(<<"history", 0>>) = history
    /\ Content(<<"dropped", 0>>) = dropped
    /\ \A a \in Actors : Content(<<"actor", a>>) = act[a].held
    /\ \A t \in Turns : Content(<<"task", t>>) = task[t].held
    /\ \A k \in TurnStates : Content(<<"turn", k>>) = tstate[k].input
    /\ Content(<<"fresh", 0>>)' = fresh' /\ Content(<<"idle", 0>>)' = idle'
    /\ Content(<<"mail", 0>>)' = mail' /\ Content(<<"history", 0>>)' = history'
    /\ Content(<<"dropped", 0>>)' = dropped'
    /\ \A a \in Actors : Content(<<"actor", a>>)' = act'[a].held
    /\ \A t \in Turns : Content(<<"task", t>>)' = task'[t].held
    /\ \A k \in TurnStates : Content(<<"turn", k>>)' = tstate'[k].input
  BY DEF Content

\* The places, kind by kind.
LEMMA PlacesAre ==
    /\ <<"fresh", 0>> \in Places /\ <<"idle", 0>> \in Places /\ <<"mail", 0>> \in Places
    /\ <<"history", 0>> \in Places /\ <<"dropped", 0>> \in Places
    /\ \A a \in Actors : <<"actor", a>> \in Places
    /\ \A t \in Turns : <<"task", t>> \in Places
    /\ \A k \in TurnStates : <<"turn", k>> \in Places
    /\ \A p \in Places :
         \/ p \in {<<"fresh", 0>>, <<"idle", 0>>, <<"mail", 0>>, <<"history", 0>>,
                   <<"dropped", 0>>}
         \/ \E a \in Actors : p = <<"actor", a>>
         \/ \E t \in Turns : p = <<"task", t>>
         \/ \E k \in TurnStates : p = <<"turn", k>>
  BY DEF Places

\* The items S go to one place, and each of them leaves the place it was in.
LEMMA OnceMoves ==
    ASSUME InputOnce, NEW S, NEW q \in Places,
           \A p \in Places : \A i \in Items :
             i \in Content(p)' => i \in Content(p) \/ (p = q /\ i \in S),
           \A i \in Items : i \in S =>
             \E p \in Places : i \in Content(p) /\ (p = q \/ i \notin Content(p)')
    PROVE  InputOnce'
<1> SUFFICES ASSUME NEW i \in Items, NEW p \in Places, NEW r \in Places,
                    i \in Content(p)', i \in Content(r)'
             PROVE  p = r
  BY DEF InputOnce, Items, Places, Actors, Turns, TurnStates
<1>1. \A u, v \in Places : i \in Content(u) /\ i \in Content(v) => u = v
  BY DEF InputOnce
<1>2. CASE i \notin S
  BY <1>1, <1>2
<1>3. CASE i \in S
  <2>1. PICK u \in Places : i \in Content(u) /\ (u = q \/ i \notin Content(u)')
    BY <1>3
  <2>2. \A v \in Places : i \in Content(v)' => v = q
    BY <1>1, <2>1
  <2> QED
    BY <2>2
<1> QED BY <1>2, <1>3

\* The same, with the places written out.
OnceMove(S, q) ==
    /\ \A i \in Items :
         /\ i \in fresh' => i \in fresh
         /\ i \in idle' => i \in idle \/ (q = <<"idle", 0>> /\ i \in S)
         /\ i \in mail' => i \in mail \/ (q = <<"mail", 0>> /\ i \in S)
         /\ i \in history' => i \in history \/ (q = <<"history", 0>> /\ i \in S)
         /\ i \in dropped' => i \in dropped \/ (q = <<"dropped", 0>> /\ i \in S)
    /\ \A i \in Items : \A a \in Actors :
         i \in act'[a].held => i \in act[a].held \/ (q = <<"actor", a>> /\ i \in S)
    /\ \A i \in Items : \A t \in Turns :
         i \in task'[t].held => i \in task[t].held \/ (q = <<"task", t>> /\ i \in S)
    /\ \A i \in Items : \A k \in TurnStates :
         i \in tstate'[k].input =>
             i \in tstate[k].input \/ (q = <<"turn", k>> /\ i \in S)
    /\ \A i \in Items : i \in S =>
         \E p \in Places : i \in Content(p) /\ (p = q \/ i \notin Content(p)')

\* A move of that kind leaves every item in one place at most.
LEMMA OnceBy ==
    ASSUME InputOnce, NEW S, NEW q \in Places, OnceMove(S, q)
    PROVE  InputOnce'
<1>1. ASSUME NEW p \in Places, NEW i \in Items, i \in Content(p)'
      PROVE  i \in Content(p) \/ (p = q /\ i \in S)
  <2>1. CASE p \in {<<"fresh", 0>>, <<"idle", 0>>, <<"mail", 0>>, <<"history", 0>>,
                    <<"dropped", 0>>}
    BY <1>1, <2>1, Contents DEF OnceMove
  <2>2. ASSUME NEW a \in Actors, p = <<"actor", a>>
        PROVE  i \in Content(p) \/ (p = q /\ i \in S)
    BY <1>1, <2>2, Contents DEF OnceMove
  <2>3. ASSUME NEW t \in Turns, p = <<"task", t>>
        PROVE  i \in Content(p) \/ (p = q /\ i \in S)
    BY <1>1, <2>3, Contents DEF OnceMove
  <2>4. ASSUME NEW k \in TurnStates, p = <<"turn", k>>
        PROVE  i \in Content(p) \/ (p = q /\ i \in S)
    BY <1>1, <2>4, Contents DEF OnceMove
  <2> QED
    BY <2>1, <2>2, <2>3, <2>4, PlacesAre
<1> QED
  BY <1>1, OnceMoves DEF OnceMove

\* Nothing arrives anywhere.
LEMMA OnceStays ==
    ASSUME InputOnce,
           fresh' \subseteq fresh, idle' \subseteq idle, mail' \subseteq mail,
           history' \subseteq history, dropped' \subseteq dropped,
           \A a \in Actors : act'[a].held \subseteq act[a].held,
           \A t \in Turns : task'[t].held \subseteq task[t].held,
           \A k \in TurnStates : tstate'[k].input \subseteq tstate[k].input
    PROVE  InputOnce'
<1>1. OnceMove({}, <<"fresh", 0>>)
  BY DEF OnceMove
<1> QED
  BY <1>1, OnceBy, PlacesAre

\* An interrupt and a shutdown move no input.
LEMMA InterruptOnce ==
    ASSUME TurnInv, InputOnce, Interrupt \/ Shutdown
    PROVE  InputOnce'
<1>1. \A b \in Actors : act'[b].held \subseteq act[b].held
  <2>1. \A b \in Actors : b # Loop => act'[b] = act[b]
    BY Known DEF Interrupt, Shutdown
  <2>2. act'[Loop].held = {}
    <3>1. CASE Interrupt
      BY <3>1, Known, Names, AtRestRec DEF Interrupt, Actor
    <3>2. CASE Shutdown
      <4> DEFINE r == [AtRest EXCEPT !.pc = "takeall", !.why = "shutdown"]
      <4>1. act' = [act EXCEPT ![Loop] = r]
        BY <3>2 DEF Shutdown
      <4>2. r.held = {}
        BY AtRestRec DEF Actor
      <4> HIDE DEF r
      <4> QED
        BY <4>1, <4>2, Known, Names
    <3> QED BY <3>1, <3>2
  <2> QED
    BY <2>1, <2>2
<1>2. \A u \in Turns : task'[u].held \subseteq task[u].held
  BY Known DEF Interrupt, Shutdown
<1>3. \A k \in TurnStates : tstate'[k].input \subseteq tstate[k].input
  BY Known DEF Interrupt, Shutdown
<1> QED
  BY <1>1, <1>2, <1>3, OnceStays DEF Interrupt, Shutdown


\* Nor does an answered approval,
LEMMA NotifyApprovalOnce ==
    ASSUME TurnInv, InputOnce, NEW t \in Turns, NotifyApproval(t)
    PROVE  InputOnce'
<1>1. \A b \in Actors : act'[b].held \subseteq act[b].held
  BY Known DEF NotifyApproval
<1>2. \A u \in Turns : task'[u].held \subseteq task[u].held
  BY Known DEF NotifyApproval
<1>3. \A k \in TurnStates : tstate'[k].input \subseteq tstate[k].input
  BY Known DEF NotifyApproval
<1> QED
  BY <1>1, <1>2, <1>3, OnceStays DEF NotifyApproval


\* a change of the mailbox phase,
LEMMA SetMailPhaseOnce ==
    ASSUME TurnInv, InputOnce, NEW t \in Turns, NEW p \in {"current", "next"}, SetMailPhase(t, p)
    PROVE  InputOnce'
<1>1. \A b \in Actors : act'[b].held \subseteq act[b].held
  BY Known DEF SetMailPhase
<1>2. \A u \in Turns : task'[u].held \subseteq task[u].held
  BY Known DEF SetMailPhase
<1>3. \A k \in TurnStates : tstate'[k].input \subseteq tstate[k].input
  BY Known DEF SetMailPhase
<1> QED
  BY <1>1, <1>2, <1>3, OnceStays DEF SetMailPhase


\* an abort that takes the active turn,
LEMMA TakeActiveTurnOnce ==
    ASSUME TurnInv, InputOnce, NEW a \in Actors, TakeActiveTurn(a)
    PROVE  InputOnce'
<1>1. \A b \in Actors : act'[b].held \subseteq act[b].held
  <2>1. \A b \in Actors : b # a => act'[b] = act[b]
    BY Known DEF TakeActiveTurn
  <2>2. act'[a].held = act[a].held
    BY Known DEF TakeActiveTurn, AfterAbort, Actor
  <2> QED
    BY <2>1, <2>2
<1>2. \A u \in Turns : task'[u].held \subseteq task[u].held
  BY Known DEF TakeActiveTurn
<1>3. \A k \in TurnStates : tstate'[k].input \subseteq tstate[k].input
  BY Known DEF TakeActiveTurn
<1> QED
  BY <1>1, <1>2, <1>3, OnceStays DEF TakeActiveTurn


\* the guardian's abort,
LEMMA AbortTurnIfActiveOnce ==
    ASSUME TurnInv, InputOnce, NEW t \in Turns, AbortTurnIfActive(t)
    PROVE  InputOnce'
<1>1. \A b \in Actors : act'[b].held \subseteq act[b].held
  <2>1. \A b \in Actors : b # Guard => act'[b] = act[b]
    BY Known DEF AbortTurnIfActive
  <2>2. act'[Guard].held = {}
    BY Known, Names, AtRestRec DEF AbortTurnIfActive, Actor
  <2> QED
    BY <2>1, <2>2
<1>2. \A u \in Turns : task'[u].held \subseteq task[u].held
  BY Known DEF AbortTurnIfActive
<1>3. \A k \in TurnStates : tstate'[k].input \subseteq tstate[k].input
  BY Known DEF AbortTurnIfActive
<1> QED
  BY <1>1, <1>2, <1>3, OnceStays DEF AbortTurnIfActive


\* a cancellation,
LEMMA CancelTaskOnce ==
    ASSUME TurnInv, InputOnce, NEW a \in Actors, CancelTask(a)
    PROVE  InputOnce'
<1>1. \A b \in Actors : act'[b].held \subseteq act[b].held
  BY Known DEF CancelTask
<1>2. \A u \in Turns : task'[u].held \subseteq task[u].held
  BY Known DEF CancelTask
<1>3. \A k \in TurnStates : tstate'[k].input \subseteq tstate[k].input
  BY Known DEF CancelTask
<1> QED
  BY <1>1, <1>2, <1>3, OnceStays DEF CancelTask


\* a look for pending work,
LEMMA CheckPendingWorkOnce ==
    ASSUME TurnInv, InputOnce, NEW a \in Actors, CheckPendingWork(a)
    PROVE  InputOnce'
<1>1. \A b \in Actors : act'[b].held \subseteq act[b].held
  <2> DEFINE r == Through(a)
  <2>1. r.held = {}
    BY ThroughRec
  <2>2. act' = [act EXCEPT ![a] = IF idle # {} \/ mail \cap Triggers # {}
                                  THEN [@ EXCEPT !.pc = "place"] ELSE r]
    BY DEF CheckPendingWork
  <2> HIDE DEF r
  <2>3. act'[a].held \subseteq act[a].held
    BY <2>1, <2>2, Known DEF Actor
  <2> QED
    BY <2>2, <2>3, Known
<1>2. \A u \in Turns : task'[u].held \subseteq task[u].held
  BY Known DEF CheckPendingWork
<1>3. \A k \in TurnStates : tstate'[k].input \subseteq tstate[k].input
  BY Known DEF CheckPendingWork
<1> QED
  BY <1>1, <1>2, <1>3, OnceStays DEF CheckPendingWork


\* a start that gives up,
LEMMA LeaveTurnOnce ==
    ASSUME TurnInv, InputOnce, NEW a \in Actors, LeaveTurn(a)
    PROVE  InputOnce'
<1>1. \A b \in Actors : act'[b].held \subseteq act[b].held
  <2> DEFINE r == Through(a)
  <2>1. r.held = {}
    BY ThroughRec
  <2>2. act' = [act EXCEPT ![a] = r]
    BY DEF LeaveTurn
  <2> HIDE DEF r
  <2> QED
    BY <2>1, <2>2, Known
<1>2. \A u \in Turns : task'[u].held \subseteq task[u].held
  BY Known DEF LeaveTurn
<1>3. \A k \in TurnStates : tstate'[k].input \subseteq tstate[k].input
  BY Known DEF LeaveTurn
<1> QED
  BY <1>1, <1>2, <1>3, OnceStays DEF LeaveTurn


\* a placeholder,
LEMMA PlaceTurnOnce ==
    ASSUME TurnInv, InputOnce, NEW a \in Actors, PlaceTurn(a)
    PROVE  InputOnce'
<1>1. \A b \in Actors : act'[b].held \subseteq act[b].held
  BY Known DEF PlaceTurn
<1>2. \A u \in Turns : task'[u].held \subseteq task[u].held
  BY Known DEF PlaceTurn, NewTask, NewTurn
<1>3. \A k \in TurnStates : tstate'[k].input \subseteq tstate[k].input
  BY Known DEF PlaceTurn
<1> QED
  BY <1>1, <1>2, <1>3, OnceStays DEF PlaceTurn


\* the first lock of start_task,
LEMMA AttachTurnOnce ==
    ASSUME TurnInv, InputOnce, NEW a \in Actors, AttachTurn(a)
    PROVE  InputOnce'
<1>1. \A b \in Actors : act'[b].held \subseteq act[b].held
  BY Known DEF AttachTurn
<1>2. \A u \in Turns : task'[u].held \subseteq task[u].held
  BY Known DEF AttachTurn
<1>3. \A k \in TurnStates : tstate'[k].input \subseteq tstate[k].input
  BY Known DEF AttachTurn
<1> QED
  BY <1>1, <1>2, <1>3, OnceStays DEF AttachTurn


\* and the second.
LEMMA SpawnTaskOnce ==
    ASSUME TurnInv, InputOnce, NEW a \in Actors, SpawnTask(a)
    PROVE  InputOnce'
<1>1. \A b \in Actors : act'[b].held \subseteq act[b].held
  <2> DEFINE r == Through(a)
  <2>1. r.held = {}
    BY ThroughRec
  <2>2. act' = [act EXCEPT ![a] = r]
    BY DEF SpawnTask
  <2> HIDE DEF r
  <2> QED
    BY <2>1, <2>2, Known
<1>2. \A u \in Turns : task'[u].held \subseteq task[u].held
  BY Known DEF SpawnTask
<1>3. \A k \in TurnStates : tstate'[k].input \subseteq tstate[k].input
  BY Known DEF SpawnTask
<1> QED
  BY <1>1, <1>2, <1>3, OnceStays DEF SpawnTask


\* A task that asks for approval,
LEMMA RequestApprovalOnce ==
    ASSUME TurnInv, InputOnce, NEW t \in Turns, RequestApproval(t)
    PROVE  InputOnce'
<1>1. \A b \in Actors : act'[b].held \subseteq act[b].held
  BY Known DEF RequestApproval
<1>2. \A u \in Turns : task'[u].held \subseteq task[u].held
  BY Known DEF RequestApproval
<1>3. \A k \in TurnStates : tstate'[k].input \subseteq tstate[k].input
  BY Known DEF RequestApproval
<1> QED
  BY <1>1, <1>2, <1>3, OnceStays DEF RequestApproval


\* goes on,
LEMMA ApprovalOverOnce ==
    ASSUME TurnInv, InputOnce, NEW t \in Turns, ApprovalOver(t)
    PROVE  InputOnce'
<1>1. \A b \in Actors : act'[b].held \subseteq act[b].held
  BY Known DEF ApprovalOver
<1>2. \A u \in Turns : task'[u].held \subseteq task[u].held
  BY Known DEF ApprovalOver
<1>3. \A k \in TurnStates : tstate'[k].input \subseteq tstate[k].input
  BY Known DEF ApprovalOver
<1> QED
  BY <1>1, <1>2, <1>3, OnceStays DEF ApprovalOver


\* is cancelled with its tree,
LEMMA CancelTreeOnce ==
    ASSUME TurnInv, InputOnce, NEW t \in Turns, CancelTree(t)
    PROVE  InputOnce'
<1>1. \A b \in Actors : act'[b].held \subseteq act[b].held
  BY Known DEF CancelTree
<1>2. \A u \in Turns : task'[u].held \subseteq task[u].held
  BY Known DEF CancelTree
<1>3. \A k \in TurnStates : tstate'[k].input \subseteq tstate[k].input
  BY Known DEF CancelTree
<1> QED
  BY <1>1, <1>2, <1>3, OnceStays DEF CancelTree


\* leaves its turn finished,
LEMMA OnTaskFinishedOnce ==
    ASSUME TurnInv, InputOnce, NEW t \in Turns, OnTaskFinished(t)
    PROVE  InputOnce'
<1>1. \A b \in Actors : act'[b].held \subseteq act[b].held
  BY Known DEF OnTaskFinished
<1>2. \A u \in Turns : task'[u].held \subseteq task[u].held
  <2> DEFINE c == active.ts # NoTs /\ active.tasks \ {t} = {}
             k0 == IF c THEN active.ts ELSE NoTs
             x == task[t].aborted \/ SelfAborts(t)
             m == [task[t] EXCEPT !.pc = "record", !.cleared = c, !.ts = k0,
                                  !.aborted = x]
  <2>1. task' = [task EXCEPT ![t] = m]
    BY DEF OnTaskFinished
  <2> HIDE DEF c, k0, x
  <2>2. m.held = task[t].held
    BY Known DEF Task
  <2> HIDE DEF m
  <2> QED
    BY <2>1, <2>2, Known
<1>3. \A k \in TurnStates : tstate'[k].input \subseteq tstate[k].input
  BY Known DEF OnTaskFinished
<1> QED
  BY <1>1, <1>2, <1>3, OnceStays DEF OnTaskFinished


\* or cancelled, moves no input.
LEMMA OnTaskCancelledOnce ==
    ASSUME TurnInv, InputOnce, NEW t \in Turns, OnTaskCancelled(t)
    PROVE  InputOnce'
<1>1. \A b \in Actors : act'[b].held \subseteq act[b].held
  BY Known DEF OnTaskCancelled
<1>2. \A u \in Turns : task'[u].held \subseteq task[u].held
  <2>1. CASE t \notin active.tasks
    <3>1. task' = [task EXCEPT ![t].pc = "gone"]
      BY <2>1 DEF OnTaskCancelled
    <3> QED
      BY <3>1, Known
  <2>2. CASE t \in active.tasks
    <3> DEFINE c == (active.tasks \ {t} = {})
               x == task[t].aborted \/ SelfAborts(t)
               m == [task[t] EXCEPT !.pc = "clear", !.ts = active.ts, !.cleared = c,
                                    !.aborted = x]
    <3>1. task' = [task EXCEPT ![t] = m]
      BY <2>2 DEF OnTaskCancelled
    <3> HIDE DEF c, x
    <3>2. m.held = task[t].held
      BY Known DEF Task
    <3> HIDE DEF m
    <3> QED
      BY <3>1, <3>2, Known
  <2> QED BY <2>1, <2>2
<1>3. \A k \in TurnStates : tstate'[k].input \subseteq tstate[k].input
  BY Known DEF OnTaskCancelled
<1> QED
  BY <1>1, <1>2, <1>3, OnceStays DEF OnTaskCancelled


\* A request's item leaves fresh for the one place q.
LEMMA FreshOnce ==
    ASSUME TurnInv, InputOnce, NEW j, j \in fresh, fresh' = fresh \ {j}, NEW q \in Places,
           \A i \in Items :
             /\ i \in idle' => i \in idle \/ (q = <<"idle", 0>> /\ i = j)
             /\ i \in mail' => i \in mail \/ (q = <<"mail", 0>> /\ i = j),
           history' = history, dropped' = dropped,
           \A a \in Actors : act'[a].held \subseteq act[a].held,
           \A i \in Items : \A t \in Turns :
             i \in task'[t].held => i \in task[t].held \/ (q = <<"task", t>> /\ i = j),
           \A i \in Items : \A k \in TurnStates :
             i \in tstate'[k].input =>
                 i \in tstate[k].input \/ (q = <<"turn", k>> /\ i = j)
    PROVE  InputOnce'
<1>1. \A i \in Items : i \in {j} =>
        \E p \in Places : i \in Content(p) /\ (p = q \/ i \notin Content(p)')
  BY Contents, PlacesAre
<1>2. OnceMove({j}, q)
  BY <1>1 DEF OnceMove
<1> QED
  BY <1>2, OnceBy

\* A steered prompt is only in the active turn,
LEMMA SteerOnce ==
    ASSUME TurnInv, InputOnce, NEW i \in Prompts, Steer(i)
    PROVE  InputOnce'
<1>1. active.ts \in TurnStates
  BY Known DEF Steer, ActiveOK, ActiveTurn
<1> DEFINE q == <<"turn", active.ts>>
<1>2. q \in Places
  BY <1>1, PlacesAre
<1>3. \A j \in Items : \A k \in TurnStates :
        j \in tstate'[k].input => j \in tstate[k].input \/ (k = active.ts /\ j = i)
  BY <1>1, Known DEF Steer, TurnState
<1>4. /\ i \in fresh /\ fresh' = fresh \ {i} /\ idle' = idle /\ mail' = mail
      /\ history' = history /\ dropped' = dropped /\ act' = act /\ task' = task
  BY DEF Steer
<1> QED
  BY <1>2, <1>3, <1>4, FreshOnce

\* the item of a request that starts a turn only with the new task,
LEMMA SpawnOpOnce ==
    ASSUME TurnInv, InputOnce, NEW i, NEW kind \in {"regular", "shell", "review"},
           NEW items \in SUBSET Items, SpawnOp(i, kind, items), items \subseteq {i}
    PROVE  InputOnce'
<1>1. PICK t \in NewTurn :
        /\ NewTask(t, kind, items)
        /\ act' = [act EXCEPT ![Loop] = [AtRest EXCEPT !.pc = "takeall",
                                           !.why = "replaced", !.turn = t]]
  BY DEF SpawnOp
<1> DEFINE q == <<"task", t>>
           m == Made(t, kind, items)
           r == [AtRest EXCEPT !.pc = "takeall", !.why = "replaced", !.turn = t]
<1>2. t \in Turns /\ m.held = items
  BY NewTaskRec
<1>3. task' = [task EXCEPT ![t] = m] /\ act' = [act EXCEPT ![Loop] = r]
  BY <1>1 DEF NewTask, Made
<1>4. r.held = {}
  BY AtRestRec DEF Actor
<1> HIDE DEF m, r
<1>5. \A a \in Actors : act'[a].held \subseteq act[a].held
  BY <1>3, <1>4, Known
<1>6. \A j \in Items : \A u \in Turns :
        j \in task'[u].held => j \in task[u].held \/ (u = t /\ j = i)
  BY <1>2, <1>3, Known
<1>7. /\ i \in fresh /\ fresh' = fresh \ {i} /\ idle' = idle /\ mail' = mail
      /\ history' = history /\ dropped' = dropped /\ tstate' = tstate
  BY DEF SpawnOp
<1>8. q \in Places
  BY <1>2, PlacesAre
<1> QED
  BY <1>5, <1>6, <1>7, <1>8, FreshOnce

\* mail only in the mailbox,
LEMMA InterAgentCommunicationOnce ==
    ASSUME TurnInv, InputOnce, NEW i \in Mails, InterAgentCommunication(i)
    PROVE  InputOnce'
<1>1. \A a \in Actors : act'[a].held \subseteq act[a].held
  BY Known DEF InterAgentCommunication
<1>2. /\ i \in fresh /\ fresh' = fresh \ {i} /\ idle' = idle /\ mail' = mail \cup {i}
      /\ history' = history /\ dropped' = dropped /\ tstate' = tstate /\ task' = task
  BY DEF InterAgentCommunication
<1>3. <<"mail", 0>> \in Places
  BY PlacesAre
<1> QED
  BY <1>1, <1>2, <1>3, FreshOnce

\* and an approved item in the active turn or queued.
LEMMA ApproveGuardianDeniedOnce ==
    ASSUME TurnInv, InputOnce, NEW i \in Notes, ApproveGuardianDenied(i)
    PROVE  InputOnce'
<1>1. /\ i \in fresh /\ fresh' = fresh \ {i} /\ mail' = mail
      /\ history' = history /\ dropped' = dropped /\ act' = act /\ task' = task
  BY DEF ApproveGuardianDenied
<1>2. CASE active.ts # NoTs
  <2>1. active.ts \in TurnStates
    BY <1>2, Known DEF ActiveTurn
  <2> DEFINE q == <<"turn", active.ts>>
  <2>2. q \in Places
    BY <2>1, PlacesAre
  <2>3. \A j \in Items : \A k \in TurnStates :
          j \in tstate'[k].input => j \in tstate[k].input \/ (k = active.ts /\ j = i)
    BY <1>2, <2>1, Known DEF ApproveGuardianDenied, TurnState
  <2>4. idle' = idle
    BY <1>2 DEF ApproveGuardianDenied
  <2> QED
    BY <1>1, <2>2, <2>3, <2>4, FreshOnce
<1>3. CASE active.ts = NoTs
  <2>1. idle' = idle \cup {i} /\ tstate' = tstate /\ <<"idle", 0>> \in Places
    BY <1>3, PlacesAre DEF ApproveGuardianDenied
  <2> QED
    BY <1>1, <2>1, FreshOnce
<1> QED BY <1>2, <1>3

\* The pending input was in the active turn or the mailbox, and is not there
\* any more when it was taken.
LEMMA PendingLeaves ==
    ASSUME TurnInv, TakePendingInput
    PROVE  /\ \A i \in PendingInput :
                \E p \in Places : /\ i \in Content(p) /\ i \notin Content(p)'
           /\ mail' \subseteq mail
           /\ \A k \in TurnStates : tstate'[k].input \subseteq tstate[k].input
<1>1. CASE active.ts = NoTs
  <2>1. mail' = {} /\ tstate' = tstate /\ PendingInput = mail
    BY <1>1 DEF TakePendingInput, PendingInput, TurnInput, AcceptsMail
  <2> QED
    BY <2>1, Contents, PlacesAre
<1>2. CASE active.ts # NoTs
  <2>1. active.ts \in TurnStates
    BY <1>2, Known DEF ActiveTurn
  <2>2. /\ tstate'[active.ts].input = {}
        /\ \A k \in TurnStates : k # active.ts => tstate'[k] = tstate[k]
    BY <1>2, <2>1, Known DEF TakePendingInput, TurnState
  <2>3. mail' \subseteq mail
    BY DEF TakePendingInput
  <2>4. \A i \in PendingInput :
          i \in tstate[active.ts].input \/ (i \in mail /\ i \notin mail')
    BY <1>2 DEF TakePendingInput, PendingInput, TurnInput, AcceptsMail
  <2> QED
    BY <2>1, <2>2, <2>3, <2>4, Contents, PlacesAre
<1> QED BY <1>1, <1>2

\* What start_task takes is only in its hands.
LEMMA TakePendingOnce ==
    ASSUME TurnInv, InputOnce, NEW a \in Actors, TakePending(a)
    PROVE  InputOnce'
<1> DEFINE S == idle \cup PendingInput
           q == <<"actor", a>>
           r == [act[a] EXCEPT !.pc = "attach", !.held = S]
<1>1. /\ act' = [act EXCEPT ![a] = r] /\ idle' = {} /\ TakePendingInput
      /\ fresh' = fresh /\ history' = history /\ dropped' = dropped /\ task' = task
  BY DEF TakePending
<1>2. \A i : i \in S <=> i \in idle \/ i \in PendingInput
  OBVIOUS
<1> HIDE DEF S
<1>3. r.held = S
  BY Known DEF Actor
<1> HIDE DEF r
<1>4. \A i \in Items : \A b \in Actors :
        i \in act'[b].held => i \in act[b].held \/ (b = a /\ i \in S)
  BY <1>1, <1>3, Known
<1>5. \A i \in Items : i \in S =>
        \E p \in Places : i \in Content(p) /\ (p = q \/ i \notin Content(p)')
  BY <1>1, <1>2, PendingLeaves, Contents, PlacesAre
<1>6. q \in Places
  BY PlacesAre
<1>7. OnceMove(S, q)
  BY <1>1, <1>4, <1>5, PendingLeaves DEF OnceMove
<1> QED
  BY <1>6, <1>7, OnceBy

\* What it pushes is only in the turn state it attached to.
LEMMA PushInputOnce ==
    ASSUME TurnInv, InputOnce, NEW a \in Actors, PushInput(a)
    PROVE  InputOnce'
<1> DEFINE q == <<"turn", act[a].ts>>
<1>1. act[a].ts \in TurnStates
  BY Known DEF PushInput, ActorRec, Actor
<1>2. \A i \in Items : \A k \in TurnStates :
        i \in tstate'[k].input =>
            i \in tstate[k].input \/ (k = act[a].ts /\ i \in act[a].held)
  BY <1>1, Known DEF PushInput, TurnState
<1>3. /\ act'[a].held = {}
      /\ \A b \in Actors : b # a => act'[b] = act[b]
  BY Known DEF PushInput, Actor
<1>4. /\ fresh' = fresh /\ idle' = idle /\ mail' = mail /\ history' = history
      /\ dropped' = dropped /\ task' = task
  BY DEF PushInput
<1>5. \A i \in Items : i \in act[a].held =>
        \E p \in Places : i \in Content(p) /\ (p = q \/ i \notin Content(p)')
  BY <1>3, Contents, PlacesAre
<1>6. q \in Places
  BY <1>1, PlacesAre
<1>7. \A b \in Actors : act'[b].held \subseteq act[b].held
  BY <1>3
<1>8. OnceMove(act[a].held, q)
  BY <1>2, <1>4, <1>5, <1>7 DEF OnceMove
<1> QED
  BY <1>6, <1>8, OnceBy

\* What a task drains is only in its hands.
LEMMA DrainPendingOnce ==
    ASSUME TurnInv, InputOnce, NEW t \in Turns, DrainPending(t)
    PROVE  InputOnce'
<1> DEFINE S == PendingInput
           q == <<"task", t>>
           m == [task[t] EXCEPT !.pc = "drained", !.held = S]
<1>1. /\ task' = [task EXCEPT ![t] = m] /\ TakePendingInput /\ idle' = idle
      /\ fresh' = fresh /\ history' = history /\ dropped' = dropped /\ act' = act
  BY DEF DrainPending
<1>2. \A i \in Items : i \in S =>
        \E p \in Places : i \in Content(p) /\ (p = q \/ i \notin Content(p)')
  BY <1>1, PendingLeaves
<1> HIDE DEF S
<1>3. m.held = S
  BY Known DEF Task
<1> HIDE DEF m
<1>4. \A i \in Items : \A u \in Turns :
        i \in task'[u].held => i \in task[u].held \/ (u = t /\ i \in S)
  BY <1>1, <1>3, Known
<1>5. q \in Places
  BY PlacesAre
<1>6. OnceMove(S, q)
  BY <1>1, <1>2, <1>4, PendingLeaves DEF OnceMove
<1> QED
  BY <1>5, <1>6, OnceBy

\* What a task held goes to one place, the history or what was dropped.
LEMMA HeldOnce ==
    ASSUME TurnInv, InputOnce, NEW t \in Turns,
           NEW q \in {<<"history", 0>>, <<"dropped", 0>>},
           task'[t].held = {}, \A u \in Turns : u # t => task'[u] = task[u],
           fresh' = fresh, idle' = idle, mail' = mail, tstate' = tstate,
           \A a \in Actors : act'[a].held = act[a].held,
           history' = IF q = <<"history", 0>> THEN history \cup task[t].held ELSE history,
           dropped' = IF q = <<"dropped", 0>> THEN dropped \cup task[t].held ELSE dropped
    PROVE  InputOnce'
<1>1. \A i \in Items : i \in task[t].held =>
        \E p \in Places : i \in Content(p) /\ (p = q \/ i \notin Content(p)')
  BY Contents, PlacesAre
<1>2. q \in Places
  BY PlacesAre
<1>3. \A u \in Turns : task'[u].held \subseteq task[u].held
  OBVIOUS
<1>4. OnceMove(task[t].held, q)
  BY <1>1, <1>3 DEF OnceMove
<1> QED
  BY <1>2, <1>4, OnceBy

\* The prompt and the drained input go to the history; a prompt that is not
\* recorded, or of a task cancelled before it began, is dropped.
LEMMA RunOnce ==
    ASSUME TurnInv, InputOnce, NEW t \in Turns,
           BeginRun(t) \/ RecordPending(t) \/ ExitRun(t)
    PROVE  InputOnce'
<1>1. /\ task'[t].held = {} /\ \A u \in Turns : u # t => task'[u] = task[u]
      /\ fresh' = fresh /\ idle' = idle /\ mail' = mail /\ tstate' = tstate
      /\ act' = act
  BY Known DEF BeginRun, RecordPending, ExitRun, Task
<1>2. \/ history' = history \cup task[t].held /\ dropped' = dropped
      \/ dropped' = dropped \cup task[t].held /\ history' = history
  BY DEF BeginRun, RecordPending, ExitRun
<1>3. <<"history", 0>> # <<"dropped", 0>>
  OBVIOUS
<1>4. CASE history' = history \cup task[t].held /\ dropped' = dropped
  BY <1>1, <1>3, <1>4, HeldOnce
<1>5. CASE dropped' = dropped \cup task[t].held /\ history' = history
  BY <1>1, <1>3, <1>5, HeldOnce
<1> QED BY <1>2, <1>4, <1>5

\* What was in place p0 is recorded (H), dropped (D) and put back in turn state
\* k1 (R), each item in one of the three ways.
OnceSplit(p0, H, D, R, k1) ==
    /\ H \subseteq Content(p0) /\ D \subseteq Content(p0) /\ R \subseteq Content(p0)
    /\ H \cap D = {} /\ H \cap R = {} /\ D \cap R = {}
    /\ \A p \in Places : p = p0 => Content(p)' = {}
    /\ fresh' \subseteq fresh /\ idle' \subseteq idle /\ mail' \subseteq mail
    /\ history' \subseteq history \cup H /\ dropped' \subseteq dropped \cup D
    /\ \A a \in Actors : act'[a].held \subseteq act[a].held
    /\ \A t \in Turns : task'[t].held \subseteq task[t].held
    /\ \A k \in TurnStates : \A i \in tstate'[k].input :
         i \in tstate[k].input \/ (k = k1 /\ i \in R)

\* Such a step leaves every item in one place at most.
LEMMA SplitOnce ==
    ASSUME InputOnce, NEW p0 \in Places, NEW H, NEW D, NEW R, NEW k1,
           OnceSplit(p0, H, D, R, k1)
    PROVE  InputOnce'
<1> SUFFICES ASSUME NEW i \in Items, NEW p \in Places, NEW r \in Places,
                    i \in Content(p)', i \in Content(r)'
             PROVE  p = r
  BY DEF InputOnce, Items, Places, Actors, Turns, TurnStates
<1> DEFINE Goes(v) == \/ v = <<"history", 0>> /\ i \in H
                      \/ v = <<"dropped", 0>> /\ i \in D
                      \/ v = <<"turn", k1>> /\ i \in R
<1>1. \A u, v \in Places : i \in Content(u) /\ i \in Content(v) => u = v
  BY DEF InputOnce
<1>2. ASSUME NEW v \in Places, i \in Content(v)'
      PROVE  i \in Content(v) \/ Goes(v)
  <2>1. CASE v \in {<<"fresh", 0>>, <<"idle", 0>>, <<"mail", 0>>, <<"history", 0>>,
                    <<"dropped", 0>>}
    BY <1>2, <2>1, Contents DEF OnceSplit
  <2>2. ASSUME NEW a \in Actors, v = <<"actor", a>>
        PROVE  i \in Content(v)
    BY <1>2, <2>2, Contents DEF OnceSplit
  <2>3. ASSUME NEW t \in Turns, v = <<"task", t>>
        PROVE  i \in Content(v)
    BY <1>2, <2>3, Contents DEF OnceSplit
  <2>4. ASSUME NEW k \in TurnStates, v = <<"turn", k>>
        PROVE  i \in Content(v) \/ Goes(v)
    BY <1>2, <2>4, Contents DEF OnceSplit
  <2> QED
    BY <2>1, <2>2, <2>3, <2>4, PlacesAre
<1>3. ASSUME Goes(p), Goes(r) PROVE p = r
  BY <1>3 DEF OnceSplit
<1>4. Goes(p) \/ Goes(r) => i \in Content(p0)
  BY DEF OnceSplit
<1> HIDE DEF Goes
<1>5. p # p0 /\ r # p0
  BY DEF OnceSplit
<1>6. CASE i \in Content(p0)
  <2>1. i \notin Content(p) /\ i \notin Content(r)
    BY <1>1, <1>5, <1>6
  <2>2. Goes(p) /\ Goes(r)
    BY <1>2, <2>1
  <2> QED
    BY <1>3, <2>2
<1>7. CASE i \notin Content(p0)
  BY <1>1, <1>2, <1>4, <1>7
<1> QED BY <1>6, <1>7

\* A blocked prompt is dropped, what came before it recorded and the rest put
\* back or dropped.
LEMMA BlockPendingOnce ==
    ASSUME TurnInv, InputOnce, NEW t \in Turns, NEW i0 \in Prompts,
           NEW before \in SUBSET Items, BlockPending(t, i0, before)
    PROVE  InputOnce'
<1> DEFINE rest == task[t].held \ (before \cup {i0})
           p0 == <<"task", t>>
           R == IF active.ts = NoTs THEN {} ELSE rest
           D == {i0} \cup (IF active.ts = NoTs THEN rest ELSE {})
<1>1. /\ task'[t].held = {} /\ \A u \in Turns : u # t => task'[u] = task[u]
      /\ fresh' = fresh /\ idle' = idle /\ mail' = mail /\ act' = act
      /\ before \subseteq task[t].held /\ i0 \in task[t].held /\ i0 \notin before
  BY Known DEF BlockPending, Task
<1>2. /\ history' = history \cup before /\ dropped' \subseteq dropped \cup D
  BY DEF BlockPending
<1>3. p0 \in Places /\ Content(p0) = task[t].held /\ Content(p0)' = {}
  BY <1>1, Contents, PlacesAre
<1>4. /\ D \subseteq task[t].held /\ R \subseteq task[t].held
      /\ before \cap D = {} /\ before \cap R = {} /\ D \cap R = {}
  BY <1>1
<1>5. \A k \in TurnStates : \A i \in tstate'[k].input :
        i \in tstate[k].input \/ (k = active.ts /\ i \in R)
  <2>1. CASE active.ts = NoTs
    BY <2>1 DEF BlockPending
  <2>2. CASE active.ts # NoTs
    <3>1. /\ active.ts \in TurnStates /\ R = rest
          /\ tstate' = [tstate EXCEPT ![active.ts].input = @ \cup rest]
      BY <2>2, Known DEF BlockPending, ActiveTurn
    <3> HIDE DEF rest, R
    <3> QED
      BY <3>1, Known DEF TurnState
  <2> QED BY <2>1, <2>2
<1>6. \A u \in Turns : task'[u].held \subseteq task[u].held
  BY <1>1
<1>7. /\ before \subseteq Content(p0) /\ D \subseteq Content(p0)
      /\ R \subseteq Content(p0)
      /\ fresh' \subseteq fresh /\ idle' \subseteq idle /\ mail' \subseteq mail
      /\ history' \subseteq history \cup before
      /\ \A a \in Actors : act'[a].held \subseteq act[a].held
  BY <1>1, <1>2, <1>3, <1>4
<1> HIDE DEF rest, R, D
<1>8. OnceSplit(p0, before, D, R, active.ts)
  BY <1>2, <1>3, <1>4, <1>5, <1>6, <1>7 DEF OnceSplit
<1> QED
  BY <1>3, <1>8, SplitOnce

\* What an aborted task held is dropped, if it was still running.
LEMMA AbortTaskOnce ==
    ASSUME TurnInv, InputOnce, NEW a \in Actors, AbortTask(a)
    PROVE  InputOnce'
<1> DEFINE t == act[a].victim
<1>1. t \in Turns
  BY Known, TurnAssumption DEF AbortTask, ActorRec, Actor, Turns
<1>2. \A b \in Actors : act'[b].held = act[b].held
  BY Known DEF AbortTask, Actor
<1>3. /\ fresh' = fresh /\ idle' = idle /\ mail' = mail /\ tstate' = tstate
      /\ history' = history
  BY DEF AbortTask
<1>4. CASE task[t].pc \in Running
  <2>1. StopTask(t)
    BY <1>4 DEF AbortTask
  <2> HIDE DEF t
  <2>2. task'[t].held = {} /\ \A u \in Turns : u # t => task'[u] = task[u]
    BY <1>1, <2>1, Known DEF StopTask, Task
  <2>3. dropped' = dropped \cup task[t].held
    BY <2>1 DEF StopTask
  <2>4. <<"history", 0>> # <<"dropped", 0>>
    OBVIOUS
  <2> QED
    BY <1>1, <1>2, <1>3, <2>2, <2>3, <2>4, HeldOnce
<1>5. CASE task[t].pc \notin Running
  <2>1. task' = [task EXCEPT ![t].aborted = TRUE] /\ dropped' = dropped
    BY <1>5 DEF AbortTask
  <2> HIDE DEF t
  <2>2. \A u \in Turns : task'[u].held = task[u].held
    BY <1>1, <2>1, Known DEF Task
  <2> QED
    BY <1>2, <1>3, <2>1, <2>2, OnceStays
<1> QED BY <1>4, <1>5

\* The input of a turn state that is emptied goes to one place, the history or
\* what was dropped.
LEMMA EmptiedOnce ==
    ASSUME TurnInv, InputOnce, NEW k0 \in TurnStates,
           NEW q \in {<<"history", 0>>, <<"dropped", 0>>},
           tstate'[k0].input = {}, \A k \in TurnStates : k # k0 => tstate'[k] = tstate[k],
           fresh' = fresh, idle' = idle, mail' = mail,
           \A a \in Actors : act'[a].held \subseteq act[a].held,
           \A t \in Turns : task'[t].held \subseteq task[t].held,
           history' = IF q = <<"history", 0>> THEN history \cup tstate[k0].input ELSE history,
           dropped' = IF q = <<"dropped", 0>> THEN dropped \cup tstate[k0].input ELSE dropped
    PROVE  InputOnce'
<1>1. \A i \in Items : i \in tstate[k0].input =>
        \E p \in Places : i \in Content(p) /\ (p = q \/ i \notin Content(p)')
  <2>1. <<"turn", k0>> \in Places
    BY PlacesAre
  <2>2. /\ Content(<<"turn", k0>>) = tstate[k0].input
        /\ Content(<<"turn", k0>>)' = tstate'[k0].input
    BY Contents
  <2>3. \A i \in tstate[k0].input :
          i \in Content(<<"turn", k0>>) /\ i \notin Content(<<"turn", k0>>)'
    BY <2>2
  <2> QED
    BY <2>1, <2>3
<1>2. q \in Places
  BY PlacesAre
<1>3. \A k \in TurnStates : tstate'[k].input \subseteq tstate[k].input
  OBVIOUS
<1>4. OnceMove(tstate[k0].input, q)
  BY <1>1, <1>3 DEF OnceMove
<1> QED
  BY <1>2, <1>4, OnceBy

\* clear_pending empties the turn state.
LEMMA ClearPendingEmpties ==
    ASSUME TurnInv, NEW k0 \in TurnStates, NEW over, ClearPending(k0, over)
    PROVE  /\ tstate'[k0].input = {} /\ dropped' = dropped \cup tstate[k0].input
           /\ \A k \in TurnStates : k # k0 => tstate'[k] = tstate[k]
<1> DEFINE s == IF over THEN NewTs ELSE [tstate[k0] EXCEPT !.input = {}, !.waits = {}]
<1>1. s.input = {}
  <2>1. CASE over
    BY <2>1 DEF NewTs
  <2>2. CASE ~over
    BY <2>2, Known DEF TurnState
  <2> QED BY <2>1, <2>2
<1>2. tstate' = [tstate EXCEPT ![k0] = s] /\ dropped' = dropped \cup tstate[k0].input
  BY DEF ClearPending
<1> HIDE DEF s
<1> QED
  BY <1>1, <1>2, Known

\* An aborted turn's input is dropped,
LEMMA ClearAbortedOnce ==
    ASSUME TurnInv, InputOnce, NEW a \in Actors, ClearAborted(a)
    PROVE  InputOnce'
<1> DEFINE r == AfterAbort(a)
<1>1. act[a].ts \in TurnStates /\ act[a].pc = "abort" /\ act[a].todo = {}
  BY Known DEF ClearAborted, ActorRec, Actor
<1>2. r.held = {}
  BY <1>1, AfterAbortRec
<1>3. ClearPending(act[a].ts, TRUE)
  BY DEF ClearAborted
<1>4. /\ act' = [act EXCEPT ![a] = r] /\ fresh' = fresh /\ idle' = idle /\ mail' = mail
      /\ task' = task /\ history' = history
  BY DEF ClearAborted
<1> HIDE DEF r
<1>5. \A b \in Actors : act'[b].held \subseteq act[b].held
  BY <1>2, <1>4, Known
<1>6. <<"history", 0>> # <<"dropped", 0>>
  OBVIOUS
<1>7. /\ tstate'[act[a].ts].input = {} /\ dropped' = dropped \cup tstate[act[a].ts].input
      /\ \A k \in TurnStates : k # act[a].ts => tstate'[k] = tstate[k]
  BY <1>1, <1>3, ClearPendingEmpties
<1> QED
  BY <1>1, <1>4, <1>5, <1>6, <1>7, EmptiedOnce

\* with the turn of a task that stops at its end,
LEMMA StopOnce ==
    ASSUME TurnInv, InputOnce, NEW t \in Turns, Stop(t)
    PROVE  InputOnce'
<1>1. /\ fresh' = fresh /\ idle' = idle /\ mail' = mail /\ history' = history
      /\ act' = act
  BY DEF Stop
<1>2. \A u \in Turns : task'[u].held \subseteq task[u].held
  BY Known DEF Stop
<1>3. CASE task[t].cleared
  <2>1. task[t].ts \in TurnStates /\ ClearPending(task[t].ts, TRUE)
    BY <1>3, Known DEF Stop, TaskRec, Task, Ending
  <2>2. /\ tstate'[task[t].ts].input = {} /\ dropped' = dropped \cup tstate[task[t].ts].input
        /\ \A k \in TurnStates : k # task[t].ts => tstate'[k] = tstate[k]
    BY <2>1, ClearPendingEmpties
  <2>3. <<"history", 0>> # <<"dropped", 0>>
    OBVIOUS
  <2> QED
    BY <1>1, <1>2, <2>1, <2>2, <2>3, EmptiedOnce
<1>4. CASE ~task[t].cleared
  <2>1. tstate' = tstate /\ dropped' = dropped
    BY <1>4 DEF Stop
  <2> QED
    BY <1>1, <1>2, <2>1, OnceStays
<1> QED BY <1>3, <1>4

\* as is a cancelled turn's,
LEMMA CancelTurnOnce ==
    ASSUME TurnInv, InputOnce, NEW t \in Turns, CancelTurn(t)
    PROVE  InputOnce'
<1>1. task[t].ts \in TurnStates /\ ClearPending(task[t].ts, task[t].cleared)
  BY Known DEF CancelTurn, TaskRec, Task
<1>2. /\ tstate'[task[t].ts].input = {} /\ dropped' = dropped \cup tstate[task[t].ts].input
      /\ \A k \in TurnStates : k # task[t].ts => tstate'[k] = tstate[k]
  BY <1>1, ClearPendingEmpties
<1>3. /\ fresh' = fresh /\ idle' = idle /\ mail' = mail /\ history' = history
  BY DEF CancelTurn
<1>4. \A b \in Actors : act'[b].held \subseteq act[b].held
  BY Known DEF CancelTurn, Reschedule
<1>5. \A u \in Turns : task'[u].held \subseteq task[u].held
  BY Known DEF CancelTurn
<1>6. <<"history", 0>> # <<"dropped", 0>>
  OBVIOUS
<1> QED
  BY <1>1, <1>2, <1>3, <1>4, <1>5, <1>6, EmptiedOnce

\* and what is left in a finished turn is recorded but for what a hook blocks.
LEMMA CompleteTurnOnce ==
    ASSUME TurnInv, InputOnce, NEW t \in Turns, NEW blocked \in SUBSET Prompts,
           CompleteTurn(t, blocked)
    PROVE  InputOnce'
<1>1. /\ fresh' = fresh /\ idle' = idle /\ mail' = mail
  BY DEF CompleteTurn
<1>2. \A b \in Actors : act'[b].held \subseteq act[b].held
  BY Known DEF CompleteTurn, Reschedule
<1>3. \A u \in Turns : task'[u].held \subseteq task[u].held
  BY Known DEF CompleteTurn
<1>4. CASE task[t].ts = NoTs
  <2>1. tstate' = tstate /\ history' = history /\ dropped' = dropped
    BY <1>4 DEF CompleteTurn
  <2> QED
    BY <1>1, <1>2, <1>3, <2>1, OnceStays
<1>5. CASE task[t].ts # NoTs
  <2>1. PICK k0 \in TurnStates : k0 = task[t].ts
    BY <1>5, Known DEF Task
  <2> DEFINE p0 == <<"turn", k0>>
             H == tstate[k0].input \ blocked
  <2>2. /\ tstate'[k0].input = {} /\ blocked \subseteq tstate[k0].input
        /\ history' = history \cup H /\ dropped' = dropped \cup blocked
        /\ \A k \in TurnStates : k # k0 => tstate'[k] = tstate[k]
    BY <1>5, <2>1, Known DEF CompleteTurn, NewTs
  <2>3. p0 \in Places /\ Content(p0) = tstate[k0].input /\ Content(p0)' = {}
    BY <2>2, Contents, PlacesAre
  <2> DEFINE R == {}
  <2>4. /\ H \subseteq Content(p0) /\ blocked \subseteq Content(p0)
        /\ R \subseteq Content(p0)
        /\ H \cap blocked = {} /\ H \cap R = {} /\ blocked \cap R = {}
        /\ fresh' \subseteq fresh /\ idle' \subseteq idle /\ mail' \subseteq mail
        /\ history' \subseteq history \cup H /\ dropped' \subseteq dropped \cup blocked
    BY <1>1, <2>2, <2>3
  <2>5. \A k \in TurnStates : \A i \in tstate'[k].input :
          i \in tstate[k].input \/ (k = k0 /\ i \in R)
    BY <2>2
  <2> HIDE DEF R, H
  <2>6. OnceSplit(p0, H, blocked, R, k0)
    BY <1>2, <1>3, <2>3, <2>4, <2>5 DEF OnceSplit
  <2> QED
    BY <2>3, <2>6, SplitOnce
<1> QED BY <1>4, <1>5

\* Every step keeps each item in one place at most.
LEMMA NextOnce == TurnInv /\ InputOnce /\ [Next]_vars => InputOnce'
<1> SUFFICES ASSUME TurnInv, InputOnce, [Next]_vars PROVE InputOnce'
  OBVIOUS
<1>1. CASE Submission
  <2>1. ASSUME NEW i \in Prompts, UserTurn(i) PROVE InputOnce'
    <3>1. SpawnOp(i, "regular", {i}) /\ {i} \in SUBSET Items /\ {i} \subseteq {i}
      BY <2>1, Names DEF UserTurn
    <3> QED BY <3>1, SpawnOpOnce
  <2>2. ASSUME NEW i \in Others, OtherTask(i) PROVE InputOnce'
    <3>1. {} \in SUBSET Items /\ {} \subseteq {i}
      OBVIOUS
    <3>2. SpawnOp(i, "shell", {}) \/ SpawnOp(i, "review", {})
      BY <2>2 DEF OtherTask
    <3>3. CASE SpawnOp(i, "shell", {})
      BY <3>1, <3>3, SpawnOpOnce
    <3>4. CASE SpawnOp(i, "review", {})
      BY <3>1, <3>4, SpawnOpOnce
    <3> QED BY <3>2, <3>3, <3>4
  <2> QED
    BY <1>1, <2>1, <2>2, SteerOnce, InterAgentCommunicationOnce,
       ApproveGuardianDeniedOnce, NotifyApprovalOnce DEF Submission
<1>2. CASE Aborting
  BY <1>2, InterruptOnce, AbortTurnIfActiveOnce, CancelTreeOnce DEF Aborting
<1>3. ASSUME NEW a \in Actors, ActorStep(a) PROVE InputOnce'
  BY <1>3, TakeActiveTurnOnce, CancelTaskOnce, AbortTaskOnce, ClearAbortedOnce,
     CheckPendingWorkOnce, PlaceTurnOnce, LeaveTurnOnce, TakePendingOnce, AttachTurnOnce,
     PushInputOnce, SpawnTaskOnce DEF ActorStep
<1>4. ASSUME NEW t \in Turns, TaskStep(t) \/ SamplingOver(t) PROVE InputOnce'
  BY <1>4, RunOnce, BlockPendingOnce, ApprovalOverOnce, OnTaskFinishedOnce, CompleteTurnOnce,
     OnTaskCancelledOnce, CancelTurnOnce, StopOnce, DrainPendingOnce
  DEF TaskStep, SamplingOver
<1>5. ASSUME NEW t \in Busy,
             RequestApproval(t) \/ \E p \in {"current", "next"} : SetMailPhase(t, p)
      PROVE  InputOnce'
  <2>1. t \in Turns
    BY TurnAssumption DEF Turns
  <2> QED
    BY <1>5, <2>1, RequestApprovalOnce, SetMailPhaseOnce
<1>6. CASE UNCHANGED vars
  <2>1. /\ tstate' = tstate /\ idle' = idle /\ mail' = mail /\ task' = task /\ act' = act
        /\ fresh' = fresh /\ history' = history /\ dropped' = dropped
    BY <1>6 DEF vars
  <2> QED
    BY <2>1, OnceStays
<1> QED
  BY <1>1, <1>2, <1>3, <1>4, <1>5, <1>6 DEF Next

\* No item is in two places: input taken from a queue, a mailbox or a turn state
\* is recorded or dropped at most once, however starts and aborts overlap.
THEOREM TurnsInputOnce == Spec => []InputOnce
<1>1. Init => InputOnce
  <2> SUFFICES ASSUME Init PROVE InputOnce
    OBVIOUS
  <2>1. /\ idle = {} /\ mail = {} /\ history = {} /\ dropped = {}
        /\ \A a \in Actors : act[a].held = {}
        /\ \A t \in Turns : task[t].held = {}
        /\ \A k \in TurnStates : tstate[k].input = {}
    BY AtRestRec DEF Init, NewTs
  <2>2. ASSUME NEW p \in Places, NEW i, i \in Content(p) PROVE p = <<"fresh", 0>>
    BY <2>1, <2>2, Contents, PlacesAre
  <2> QED
    BY <2>2 DEF InputOnce
<1>2. TurnInv /\ InputOnce /\ [Next]_vars => InputOnce'
  BY NextOnce
<1> QED
  BY <1>1, <1>2, TurnInvariant, PTL DEF Spec
=============================================================================
