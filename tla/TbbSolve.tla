------------------------------ MODULE TbbSolve ------------------------------
(***************************************************************************)
(* DynProgSolver::solve() of the build with TBB.  A schedule task descends *)
(* from its vertex: it leaves behind a continuation task that will do the  *)
(* introduce, forget or join step, spawns a schedule task for the second   *)
(* child and goes on as the schedule task of the first.  The continuation  *)
(* runs when its reference count says that the children are done.          *)
(*                                                                         *)
(* Workers interleave between any two actions.  From the TBB library the   *)
(* model takes: a spawned task may be run by any idle worker at once; the  *)
(* worker that completes a task decrements the reference count of the      *)
(* task's parent and runs the parent itself unless the count was above 1   *)
(* (the release build does not check for an underflow); a task is freed    *)
(* when it has run.                                                        *)
(***************************************************************************)
EXTENDS TdTree, Integers, FiniteSets

CONSTANT Worker

VARIABLES
  kids,      (* the tree decomposition                                      *)
  spawned,   (* vertices with a schedule task nobody has taken yet          *)
  pc, at,    (* what each worker is doing, and for which vertex             *)
  cont,      (* what has become of the continuation task of each vertex     *)
  ref,       (* ref_count of the continuation task of each vertex           *)
  live,      (* {t : _tables[t] != NULL}                                    *)
  table,     (* what _tables[t] accounts for, kept once it is deleted       *)
  alphas,    (* {t : _alphas[t] != NULL}                                    *)
  returned,  (* spawn_root_and_wait() may return                            *)
  answer,    (* what _solution accounts for                                 *)
  crashed    (* a null pointer or a freed task was used                     *)

data == <<live, table, alphas>>
main == <<kids, answer>>
vars == <<kids, spawned, pc, at, cont, ref, live, table, alphas, returned, answer, crashed>>

Labels == {"idle", "sched", "spawn", "setref", "init", "apply", "cleanup", "complete"}

(* pre_solve(), allocate_root() and spawn_root_and_wait().                 *)
Init ==
  /\ kids \in Shapes
  /\ spawned = {Root}
  /\ pc = [t \in Worker |-> "idle"]
  /\ at = [t \in Worker |-> Root]
  /\ cont = [v \in Node |-> "none"]
  /\ ref = [v \in Node |-> 0]
  /\ live = Node
  /\ table = [v \in Node |-> {}]
  /\ alphas = {}
  /\ returned = FALSE
  /\ answer = {}
  /\ crashed = FALSE

Goto(t, label) == pc' = [pc EXCEPT ![t] = label]
Move(t, v, label) == Goto(t, label) /\ at' = [at EXCEPT ![t] = v]
Crash(t) ==
  /\ crashed' = TRUE
  /\ Goto(t, "idle")
  /\ UNCHANGED <<main, data, spawned, at, cont, ref, returned>>

-----------------------------------------------------------------------------
(* DynProgScheduleTask::execute()                                          *)

Take(t) ==
  /\ pc[t] = "idle"
  /\ \E v \in spawned : Move(t, v, "sched") /\ spawned' = spawned \ {v}
  /\ UNCHANGED <<main, data, cont, ref, returned, crashed>>

SchedLeaf(t) ==
  /\ pc[t] = "sched" /\ kids[at[t]] = <<>>
  /\ Goto(t, "init")
  /\ UNCHANGED <<main, data, spawned, at, cont, ref, returned, crashed>>

(* allocate_continuation(): the new task starts with a count of 0.         *)
AllocateContinuation(t) ==
  /\ pc[t] = "sched" /\ kids[at[t]] # <<>>
  /\ cont' = [cont EXCEPT ![at[t]] = "waiting"]
  /\ Goto(t, IF Len(kids[at[t]]) = 2 THEN "spawn" ELSE "setref")
  /\ UNCHANGED <<main, data, spawned, at, ref, returned, crashed>>

SpawnSecond(t) ==
  /\ pc[t] = "spawn"
  /\ spawned' = spawned \cup {kids[at[t]][2]}
  /\ Goto(t, "setref")
  /\ UNCHANGED <<main, data, at, cont, ref, returned, crashed>>

(* Mutants of SetRefCount: a count of one; a count that includes the       *)
(* waiting task itself, as spawn_and_wait_for_all() would need.            *)
SetRefCountOne(t) ==
  /\ pc[t] = "setref"
  /\ ref' = [ref EXCEPT ![at[t]] = 1]
  /\ Move(t, kids[at[t]][1], "sched")
  /\ UNCHANGED <<main, data, spawned, cont, returned, crashed>>

(* c.set_ref_count(seen); recycle_as_child_of(c); vertex = first_child.    *)
SetRefCount(t) ==
  /\ pc[t] = "setref"
  /\ IF cont[at[t]] = "freed"
     THEN Crash(t)
     ELSE /\ ref' = [ref EXCEPT ![at[t]] = Len(kids[at[t]])]
          /\ Move(t, kids[at[t]][1], "sched")
          /\ UNCHANGED <<main, data, spawned, cont, returned, crashed>>

-----------------------------------------------------------------------------
(* do_leaf() and the do_X() of DynProgContinuationTask::execute()          *)

Entries(c) == IF c \in live THEN table[c] ELSE {}

(* apply.init(): alpha(v) is made from the (first) child's.                *)
InitStep(t) ==
  LET v == at[t] IN
  /\ pc[t] = "init"
  /\ IF kids[v] # <<>> /\ kids[v][1] \notin alphas
     THEN Crash(t)
     ELSE /\ alphas' = alphas \cup {v}
          /\ Goto(t, "apply")
          /\ UNCHANGED <<main, live, table, spawned, at, cont, ref, returned, crashed>>

(* Mutants of ApplyStep: only the first child's entries are used; the      *)
(* entries are counted for the vertex after v.                             *)
ApplyStepFirstOnly(t) ==
  LET v == at[t]
      C == IF kids[v] = <<>> THEN {} ELSE {kids[v][1]}
  IN
  /\ pc[t] = "apply"
  /\ table' = [table EXCEPT ![v] = {v} \cup UNION {Entries(c) : c \in C}]
  /\ Goto(t, "cleanup")
  /\ UNCHANGED <<main, live, alphas, spawned, at, cont, ref, returned, crashed>>

(* apply(): the entries of v are made from the entries of its children.    *)
ApplyStep(t) ==
  LET v == at[t]
      C == KidSet(kids, v)
  IN
  /\ pc[t] = "apply"
  /\ table' = [table EXCEPT ![v] = IF \E c \in C : Entries(c) = {} THEN {}
                                   ELSE {v} \cup UNION {Entries(c) : c \in C}]
  /\ Goto(t, "cleanup")
  /\ UNCHANGED <<main, live, alphas, spawned, at, cont, ref, returned, crashed>>

(* Mutant of CleanupStep: only the first child is cleaned up.              *)
CleanupStepFirstOnly(t) ==
  LET C == IF kids[at[t]] = <<>> THEN {} ELSE {kids[at[t]][1]} IN
  /\ pc[t] = "cleanup"
  /\ live' = live \ C
  /\ alphas' = alphas \ C
  /\ Goto(t, "complete")
  /\ UNCHANGED <<main, table, spawned, at, cont, ref, returned, crashed>>

(* cleanup() of the children                                               *)
CleanupStep(t) ==
  LET C == KidSet(kids, at[t]) IN
  /\ pc[t] = "cleanup"
  /\ live' = live \ C
  /\ alphas' = alphas \ C
  /\ Goto(t, "complete")
  /\ UNCHANGED <<main, table, spawned, at, cont, ref, returned, crashed>>

-----------------------------------------------------------------------------
(* The scheduler, when execute() has returned NULL                         *)

Parent(v) == CHOOSE p \in Node : v \in KidSet(kids, p)

FreeIfContinuation(v) ==
  cont' = [cont EXCEPT ![v] = IF kids[v] = <<>> THEN @ ELSE "freed"]

CompleteRoot(t) ==
  /\ pc[t] = "complete" /\ at[t] = Root
  /\ returned' = TRUE
  /\ FreeIfContinuation(Root)
  /\ Goto(t, "idle")
  /\ UNCHANGED <<main, data, spawned, at, ref, crashed>>

Complete(t) ==
  LET v == at[t]
      p == Parent(v)
  IN
  /\ pc[t] = "complete" /\ v # Root
  /\ IF cont[p] = "freed"
     THEN Crash(t)
     ELSE /\ ref' = [ref EXCEPT ![p] = @ - 1]
          /\ FreeIfContinuation(v)
          /\ IF ref[p] > 1
             THEN Goto(t, "idle") /\ UNCHANGED at
             ELSE Move(t, p, "init")
          /\ UNCHANGED <<main, data, spawned, returned, crashed>>

Step(t) ==
  \/ Take(t) \/ SchedLeaf(t) \/ AllocateContinuation(t) \/ SpawnSecond(t)
  \/ SetRefCount(t) \/ InitStep(t) \/ ApplyStep(t) \/ CleanupStep(t)
  \/ CompleteRoot(t) \/ Complete(t)

(* Mutant of DoRoot: the root's table is not deleted.                      *)
DoRootKeepsTable ==
  /\ returned /\ Root \in live
  /\ answer' = table[Root]
  /\ alphas' = alphas \ {Root}
  /\ UNCHANGED <<kids, spawned, pc, at, cont, ref, live, table, returned, crashed>>

(* do_root(), by the thread that waited for the root task                  *)
DoRoot ==
  /\ returned /\ Root \in live
  /\ answer' = table[Root]
  /\ live' = live \ {Root}
  /\ alphas' = alphas \ {Root}
  /\ UNCHANGED <<kids, spawned, pc, at, cont, ref, table, returned, crashed>>

Solved == returned /\ Root \notin live

Halted == (Solved \/ crashed) /\ UNCHANGED vars

Next == (~crashed /\ ((\E t \in Worker : Step(t)) \/ DoRoot)) \/ Halted

(***************************************************************************)
(* solve() calls spawn() before set_ref_count().  Patient behaviours are   *)
(* those in which no task is completed between the two calls its parent's  *)
(* worker makes: with one worker all are; with more, it is an assumption.  *)
(***************************************************************************)
Overtakes(t) ==
  /\ pc[t] = "complete" /\ at[t] # Root
  /\ \E u \in Worker : pc[u] = "setref" /\ at[u] = Parent(at[t])

PatientStep(t) == Step(t) /\ ~Overtakes(t)

-----------------------------------------------------------------------------

Working(t, v) == at[t] = v /\ pc[t] \in {"init", "apply", "cleanup"}

(***************************************************************************)
(* A continuation runs after the children it continues: when the step of a *)
(* node begins, the assignment and the complete table of each child are    *)
(* there, and no worker is still filling them.                             *)
(***************************************************************************)
ChildrenReady ==
  \A t \in Worker : pc[t] \in {"init", "apply"} =>
    \A c \in KidSet(kids, at[t]) :
      /\ c \in alphas /\ c \in live /\ c \in table[c]
      /\ \A u \in Worker : ~Working(u, c)

(* What has become of the table of a node, see DynProg.                    *)
PhaseOf(v) == CASE v \notin live -> "gone"
                [] \E t \in Worker : Working(t, v) -> "busy"
                [] v \in live /\ v \in table[v] /\ ~\E t \in Worker : Working(t, v) -> "ready"
                [] OTHER -> "todo"
=============================================================================
