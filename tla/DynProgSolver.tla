--------------------------- MODULE DynProgSolver ----------------------------
(***************************************************************************)
(* DynProgSolver::solve() in its two builds, over the tables and answers   *)
(* of one SequoiaSolver: HAVE_TBB decides between the tasks of TbbSolve    *)
(* and the stack walk of SeqSolve, and nothing else of the solver knows    *)
(* which one runs.                                                         *)
(***************************************************************************)
EXTENDS SeqSolve, Integers

CONSTANT Worker

ASSUME WorkerAssumption == Worker # {}

VARIABLES
  tbb,                                            (* HAVE_TBB               *)
  spawned, pc, at, cont, ref, returned, crashed   (* the task scheduler     *)

walkVars == <<stack, visited, cur>>
taskVars == <<spawned, pc, at, cont, ref, returned, crashed>>
solverVars == <<tbb, kids, live, table, alphas, answer, walkVars, taskVars>>

Tasks == INSTANCE TbbSolve

SolverInit == tbb \in BOOLEAN /\ Init /\ Tasks!Init

WalkStep ==
  /\ ~tbb
  /\ Expand \/ Pop \/ WorkOn \/ DoRoot
  /\ UNCHANGED <<tbb, taskVars>>

TaskStep(t) == tbb /\ Tasks!PatientStep(t) /\ UNCHANGED <<tbb, walkVars>>
TaskRoot == tbb /\ Tasks!DoRoot /\ UNCHANGED <<tbb, walkVars>>

Returned == IF tbb THEN Tasks!Solved ELSE Solved

SolverNext ==
  WalkStep \/ (\E t \in Worker : TaskStep(t)) \/ TaskRoot \/ (Returned /\ UNCHANGED solverVars)

(* The loop is run by one thread and never blocks; every worker goes on    *)
(* with its task and takes one when it is idle.                            *)
SolverSpec == SolverInit /\ [][SolverNext]_solverVars /\ WF_solverVars(WalkStep)
                /\ WF_solverVars(TaskRoot) /\ \A t \in Worker : WF_solverVars(TaskStep(t))

(* The tasks in any order, also one that is completed between its spawn()  *)
(* and set_ref_count().                                                    *)
AnyOrderNext ==
  \/ WalkStep
  \/ tbb /\ Tasks!Next /\ UNCHANGED <<tbb, walkVars>>
  \/ Returned /\ UNCHANGED solverVars

AnyOrderSpec == SolverInit /\ [][AnyOrderNext]_solverVars

(***************************************************************************)
(* When nothing goes wrong in the gap between spawn() and set_ref_count(): *)
(* without TBB, with one worker, and else when no child happens to be      *)
(* completed in it.  The last is an assumption that the code does not      *)
(* justify.                                                                *)
(***************************************************************************)
NoneOvertakes == \A t \in Worker : Tasks!Overtakes(t) => pc'[t] = pc[t]

Unhurried == ~tbb \/ (\A t, u \in Worker : t = u) \/ [][NoneOvertakes]_solverVars

-----------------------------------------------------------------------------
(***************************************************************************)
(* Whatever do_X() reads of its children is there and complete when it     *)
(* starts, and nobody is still filling it.                                 *)
(***************************************************************************)
ChildrenComplete == IF tbb THEN Tasks!ChildrenReady ELSE ChildrenReady

(* When solve() returns, the solution accounts for every node, and every   *)
(* table and assignment has been freed.                                    *)
NodesAccounted == Returned => answer = Node /\ live = {} /\ alphas = {}

(* Every run of solve() ends.                                              *)
SolveReturns == <>Returned

(* Both builds implement the abstract bottom-up schedule.                  *)
Phase == [v \in Node |-> IF tbb THEN Tasks!PhaseOf(v) ELSE PhaseOf(v)]
Cover == [v \in Node |-> IF tbb /\ \E t \in Worker : Tasks!Working(t, v) THEN {} ELSE table[v]]

SolverSchedule == INSTANCE DynProg WITH phase <- Phase, cover <- Cover

FollowsSchedule == SolverSchedule!Spec
=============================================================================
