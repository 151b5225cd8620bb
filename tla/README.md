# A verification project for sequoia-core

sequoia-core evaluates formulas of monadic second-order logic (MSO) on graphs
of bounded tree width. It takes a graph, a formula and an evaluation (what is
to be computed: whether there is a solution, how many, the smallest, ...). It
obtains a tree decomposition of the graph, makes it *nice* (every node is a
leaf, introduces a vertex, forgets a vertex, or joins two children with the
same bag), and runs a dynamic program over it, from the leaves to the root. The
tables of the program map assignments of the free set variables to *model
checking games*, and games to values.

This directory models that program in TLA+: the modules follow the code in
`src/src/`, TLC checks them on small instances, and TLAPS proves the most
important of their properties for all instances. Paths below are relative to
`src/src/` unless they start with `src/`.

## 1. Inventory

### Components

| Component | Source | State | Operations |
|---|---|---|---|
| Driver | `dyn_prog_solver.{h,cpp}` | graph, decomposition; a stack and visited bits, or TBB tasks with reference counts | `setup_graph`, `pre_solve`, `solve`, `work_on`, the tasks' `execute` |
| Solver | `sequoia_solver.{h,cpp}` | one table and one assignment (`alpha`) per node, the solution | `do_leaf`, `do_introduce`, `do_forget`, `do_join`, `do_root`, `cleanup` |
| Decompositions | `structures/treedecomposition.cpp`, `mindegree_heuristic.h`, `structures/treedecomposition_check.h` | tree, bags; buckets by degree | `compute`, `make_nice`, `valid`, `is_nice` |
| Incidence graph | `incidence_graph.cpp` | vertices and edges of the input as vertices | `create_incidence_graph`, `create_adjacency_graph` |
| Tables | `sequoia_table.{h,cpp}` | assignment → (game → value), changed by compare-and-swap | `update_value` |
| Flyweights | `flyweight.h` | a pool of shared objects with counters, under a lock | construct, copy, destroy a handle |
| Caches | `cache.h`, `list.h`, `cache_*.{h,cpp}` | hash map and a doubly linked list by age; limits; global, keyed by addresses | `lookup`, `store`, `maybe_purge`, `resize` |
| Hash tables | `unordered_defs.h`, `src/contrib/sparsehash-2.0.3` | buckets, marks of erased elements, thresholds | insert, find, erase, change of size, loops |
| Games | `game*.{h,hpp,cpp}`, `logic/moves.h`, `logic/assignment.h`, `apply_*.hpp` | game trees over moves and terminal moves | `introduce`, `forget`, `join`, `convert`, minimization |
| Evaluations | `evaluation.h`, `sequoia_eval*.h` | the values of a table | `elem`, `mult`, `add` |
| Scanner, parser | `ms2scanner.cpp`, `ms2grammar.cpp`, `ms2grammar.ypp` | buffers, the stacks of the automaton; tables of names, open parentheses, counters | `yylex`, `yyparse`, actions of the grammar, `parse_string`, `parse_file` |
| Conversion | `parseformula.cpp`, `parse_formula_structure.h` | syntax trees | `flatten`, `only_atomar_negations`, `convert` |
| Life cycle and facade | `sequoia_solver.cpp`, `sequoia_facade.cpp`, `sequoia.h` | the graph and solver of a user and what has been loaded into it | load, add to the graph, `solve`, results |
| Progress | `sequoia_solver.{h,cpp}`, `PeriodicJob` | a thread that prints | start, stop |
| The rest | graphs and their files, vocabulary, pools, logging, options, the rest of `src/contrib`, `src/tools`, `src/test` | | input, output, allocation |

### How they interact

`parse_string()` and `parse_file()` read an input with a scanner, stacks and
tables that are global and stay for the next input, and convert the last function
to a formula. The facade hands
graph, formula and evaluation to the solver. `setup_graph()` replaces the graph
by its incidence graph when the formula quantifies over edges; a decomposition
that was loaded is extended by the vertices of the edges. `pre_solve()` calls
the heuristic when none was loaded, then `make_nice()`, then the checks.
`solve()` walks the decomposition, with a stack or with TBB tasks, and calls
`do_X()` of the solver at every node. These call the games (through the
caches, which share results by pointer) for every entry of a child's table and
the evaluation for its value, and put the result into the table with
`update_value()`. With TBB they do so from several threads at once; all
threads share the flyweight pools that hold moves, alphas and games.
`do_root()` converts the games that are left and adds up the values of those
that are won. When the graph was an incidence graph the solution is translated
back.

### What is hard here

- **Concurrency.** TBB tasks with reference counts; a lock-free update of a
  table; counters of shared objects, decremented under a lock and incremented
  without it; a thread for progress.
- **Order.** A table may be read only when it is complete and not yet freed, and
  is freed by the parent. Repairs of `make_nice()` call for further repairs.
  Scopes of names open and close around errors; a word may lie across two pieces
  of a file; actions find their arguments by their place on a stack.
- **Sharing.** Caches are global and keyed by addresses, which are used again
  by later solvers; a result is right only if the key holds everything it depends
  on. Hash tables put off their cleaning up to the next insertion.
- **Boundaries.** Limits of caches, `unsigned long` values, empty bags, graphs
  without vertices, decompositions given by the user and possibly wrong.
- **Meaning.** A game that is cut short (determined, minimized, merged) has to
  decide exactly as the formula does.

The correctness of each component, in one line:

- Driver and solver: every node is worked on once, after its children, whatever
  the schedule; every table and assignment is freed once; the answer accounts
  for every node; the walk ends.
- Decompositions: what reaches the solver is a nice tree decomposition of the
  graph, no wider than the one it was made from, or the program throws.
- Tables: no value that was added is lost; each object has one owner.
- Flyweights: no handle without its object, no object without a handle, equal
  objects stored once.
- Caches: the list is one ring that agrees with the map; at most the limit; a
  hit returns what was stored last, and the oldest entry is the one to go; a hit
  was computed for what is at the addresses of its key *now*.
- Hash tables: a map, whatever was inserted and erased; every search ends; a
  loop that erases misses nothing.
- Games: the solutions found at the root are exactly those of the formula.
- Evaluations: a value is the one of the set of solutions it stands for.
- Front end: the parser gets the words of its own text; an action takes off the
  stack what it was written for; a name refers to the declaration it is in the
  scope of; the tree is what was written, and what is converted means it.

`PROJECT.json` lists every component with what is modelled of it, every
hazard at its line with the properties that would show it going wrong, and for
every definition of a module the lines that it models.

## 2. Modules

### Schedule of the dynamic program

- `TdTree` – the shape of the decomposition: ordered children, at most two.
  `MCDynProgSolver` enumerates all such trees of `N` nodes.
- `DynProg` – **the abstract schedule**: a node may `Start` when its children
  are ready, and `Finish` by taking over their tables; then the `Answer` is
  read off the root. It says nothing of stacks, tasks or threads.
- `SeqSolve` – `DynProgSolver::solve()` without TBB: `Expand` pushes the
  children of a node visited for the first time, `Pop` takes a node off the
  stack, `WorkOn` is `do_X()` with the calls of `cleanup()`, `DoRoot` ends. What
  a table *accounts for* stands for its content: the nodes whose work went
  into it.
- `TbbSolve` – the same with TBB. A step of a worker is one call of
  `DynProgScheduleTask::execute()` that other threads can see
  (`allocate_continuation`, `spawn`, `set_ref_count`, `recycle_as_child_of`,
  return), a continuation's `execute()`, or the decrement of a parent's count.
  `PatientStep` is a step under the added assumption that no
  child is *completed* between `spawn()` and `set_ref_count()`; it is an
  assumption about the machine, not something the code ensures (see
  section 5).
- `DynProgSolver` – both builds of `solve()` over the same tables, one of which
  runs (`tbb`): `AnyOrderSpec`, in which the tasks take any steps, as in the
  code, and `SolverSpec`, in which they take patient ones and the scheduler is
  fair. `NoneOvertakes` says of a step that no child is completed in that gap;
  `Unhurried` are the behaviours without TBB, those with one worker, and those
  whose steps are all like that. `FollowsSchedule` is the refinement of `DynProg`.

### Decompositions

- `TreeDecomp` – tree decompositions, nice ones and width, as the literature
  defines them. Nothing in it is taken from the checks of the code: they are
  compared with it.
- `MinDegree` – `compute()`: vertices in buckets by degree, `Take` a vertex of
  the lowest bucket, update the buckets of the neighbours over out- and
  in-edges (`UpdateOut`, `UpdateIn`), `Clear` it, add an `AddEdge` for each
  pair of its neighbours, and in the end `AddNode` below the latest bag that
  fits. Which vertex of a bucket comes first and the order of the edges are
  left open.
- `MakeNice` – `make_nice()`: every call of `fix_single_vertex()` makes its
  repairs for leaf, degree, joins and introduce/forget paths (`FixLeaf`,
  `FixBinary`, `FixJoins`, `FixIntroduceForget`) before it goes on (`Advance`).
- `TdCheck` – the checks, test by test in the order of the code, with the
  limit above which a decomposition is not checked (5000 nodes in the code).
- `IncidenceGraph` – from a graph to its incidence graph and back, and the bag
  a loaded decomposition gets for an edge.
- `PreSolve` – composes the four: set up the graph (`KeepGraph`,
  `MakeIncidence`, `ExtendLoaded`, or `NoHost` when the assertion of the code
  ends the program), generate, make nice, check. The result is used or thrown.
  The facade goes on from there: `AddVertex`, `AddArc`, and `SolveAgain`, which
  takes a copy of the graph to the *same* solver, with the decomposition the last
  `make_nice()` left.

### Shared data

- `TableUpdate` – `update_value()` of the table and of the map of an
  assignment, a step for each access that another thread can see: find,
  insert, read the old value, compare-and-swap, delete the duplicate.
- `Flyweight` – handles of objects with nested handles. Threads take turns at
  the lock; the increment of a copy needs none. Deleting an object destroys the
  handles in it, one after the other, each like any other.
- `Lru` – **the abstract cache**: a list of entries by age and a limit.
  `LruCache` – the ring of `list.h` with its pointers and the hash map of
  `cache.h`, one step for each operation, and one for each entry purged.
- `GameCaches` – what the introduce, forget and join caches add to it: keys made
  of the address of a formula and of flyweights (`ApplyKey`, `JoinKey`, the latter
  with its two games sorted by address), the cut-off by the height of the formula
  (`CutOff`), and the memory these addresses are in: `ParseFormula` by any number
  of solvers, `DestroySolver`, `Intern` and `Release` of flyweights. A value is what
  was computed: for which problem and objects.
- `KeyedMap` – **the abstract map**: a function from keys to values.
  `SparseHash` – the table of sparsehash behind the sets and maps of the program:
  quadratic probing (`Probe`, `FindPosition`), marks in place of erased elements
  (`Marked`), growing and the shrinking that waits for the next insertion
  (`WithRoom`, `MaybeShrunk`), copies, and loops (`Begin`, `Advance`,
  `EraseVisited`).

### Games

- `Formula` – syntax of formulas and `Holds`, their meaning on a graph. It is the
  reference.
- `Moves` – set and point moves with their bit vectors: `introduce`, `forget`
  and the renaming of the bits behind a terminal that came or went.
- `Game` – games as records: the leaf game of a formula, introduce, forget,
  join, conversion and minimization, with the order of early returns of
  the code (which subgame decides, which is dropped, which are merged).
- `GameTables` – the dynamic program over a decomposition, with assignments and
  values: `DoLeaf`, `DoIntroduce`, `DoForget`, `DoJoin`, `DoRoot`; `AbortJoin` is
  the failed assertion of the join cache. A behaviour builds one nice
  decomposition of the graph, bottom up. What is played is a parameter
  (`PlayLeaf`, `PlayIntroduce`, ...): the solver asks a game for its outcome and
  uses it as a key.
- `GameSolve` – composes `GameTables` with `Game`, whose operators are the
  parameters in its configurations, and compares the result with `Formula`.
- `Evaluations` – the values: `elem`, `mult` and `add` of every evaluation on
  tables in which games stand for sets of completions.

### Front end

- `Tokens` – the words of each token, in place of the tables that flex
  compressed, and the longest one at the front of a text.
- `Scanner` – `yylex()`: a string or a file read in pieces into a buffer
  (`BufSize`, `ReadSize`), the longest word from where the last one ended, and
  the end of the input or of the buffer in the middle of a word.
- `ParseTrees` – the syntax trees that the grammar builds.
- `GrammarTables` – the tables of the LALR(1) automaton, as compiled, and what they
  make of a state and a token (`Decide`, `Goto`). `Edges` are the states that may
  follow each other on the stack, and `TablesFit` says that the tables fit
  together: every shift and goto follows an edge, and along the edges behind a
  state that reduces stand the symbols of the rule. It is about constants, so TLC
  decides it.
- `Reader` – `yyparse()` over them: shift and reduce, the stacks and their growth
  (`YYINITDEPTH`, `YYMAXDEPTH`), errors, and the actions that build trees. The
  parser's value is a union; the stack of the model remembers which symbol a
  value was made for, so that an action reading another member is seen. Before
  the parenthesis that they stand in front of is built into the tree,
  quantifiers of vertices are taken out that nothing has referred to by name
  (`usedVariables`, `IsIrrelevant`, `Relevant`).
- `ParserScopes` – the actions of the grammar that keep names: the level of
  parentheses, the tables of names of each level and of all levels, the ids, the
  free variables of a function, the quantifiers read before a parenthesis, calls
  of functions, and an `Error` at any point.
- `Normalize` – `flatten()`, `only_atomar_negations()` and `convert()` on the
  syntax trees.
- `FrontEnd` – composes them as `parse_string()` and `parse_file()` do, input
  after input. A behaviour follows the names or the trees: in the texts of the
  trees a name never stands for two variables in scope at once, and the inputs of
  the names are any sequence of actions, also of those no text of the trees has.
  `Cleaned` is what a formula is expected to come to: what was written, without
  the quantifiers of vertices whose name occurs neither below them nor further to
  the front of the function. How trees are written, which gives TLC its texts,
  is in `MCFrontEnd`.

`DynProgSolverProofs`, `FlyweightProofs`, `GameCachesProofs`, `PreSolveProofs`,
`TableProofs`, `SparseHashProofs`, `FrontEndProofs` and
`GameTablesProofs` extend their modules with theorems. Those about `SeqSolve`,
`TbbSolve` and `DynProg` are in `DynProgSolverProofs`, those about the ring of
`LruCache` in `GameCachesProofs`, those about `Moves` in `GameTablesProofs`,
those about `ParserScopes`, `Reader`, `Scanner` and `Tokens` in `FrontEndProofs`,
those about `TableUpdate` and `Evaluations` in `TableProofs`,
those about `MakeNice`, `MinDegree`, `TdCheck` and `IncidenceGraph` in
`PreSolveProofs`. `MC*` modules give the constants their values for TLC.

## 3. What the runs check

Numbers of distinct states are those TLC reports. A run takes from seconds to two
minutes with two workers.

| Run | Module, instance | States | Properties |
|---|---|---|---|
| `dyn_prog_solver` | `MCDynProgSolver`, all ordered binary trees of 6 nodes, both builds, 2 workers | 41017 | `ChildrenComplete`, `NodesAccounted`, `SolveReturns`, `FollowsSchedule` |
| `tbb_early_join` | `MCDynProgSolver` with `AnyOrderSpec`, all trees of 3 nodes, 2 workers | – | `ChildrenComplete` **violated** |
| `flyweight` | `Flyweight`, 2 threads, 3 objects, 3 handles, 1 label | 35359 | `NoDangling`, `CountsHandles`, `DeepCanonical`, `NoLeak` |
| `game_caches` | `MCGameCaches`, 2 addresses of formulas, 2 of flyweights, 3 problems, 2 objects, limits 0 to 2 | 279426 | `RingOK`, `ImplementsLru`, `HitsAreFresh` |
| `sparse_hash` | `MCSparseHash`, 4 keys, 2 values, 4 to 32 buckets | 18446 | `SearchesEnd`, `ElementsFound`, `LoopVisitsAll`, `ImplementsMap` |
| `table_update` | `TableUpdate`, 3 calls, 2 assignments, 2 games | 12744 | `NothingLost`, `GamesOwned`, `MapsOwned` |
| `pre_solve` | `MCPreSolve`, graphs and decompositions as below | about 302000 | `BucketsExact`, `KeepsValid`, `WidthKept`, `NiceBehind`, `GivenDecides`, `SolutionComesBack`, `PreSolveEnds` |
| `game_solve` | `MCGameSolve`, 3 vertices, bags of up to 3 | 80124 | `AlphaIsTheBag`, `ValuesMatchAssignment`, `EntriesDisjoint`, `NothingDropped`, `SolutionExact` |
| `game_introduce_cache` | `MCGameSolve`, one formula, bags of up to 2 | – | `ValuesMatchAssignment` **violated** |
| `game_join_assertion` | `MCGameSolve`, one formula, bags of up to 2 | – | `JoinsTheSameFormula` **violated** |
| `evaluations` | `Evaluations`, 3 vertices, bags of up to 2, 2-bit numbers | 239132 | `CountsSolutions`, `ExtremalSizes`, `ComposedIsSolution` |
| `front_end` | `MCFrontEnd`, 2 inputs, 722 texts, 4 graphs | about 1290000 | `WordsAsWritten`, `ReducesHandles`, `TreeAsWritten`, `TablesFollowNesting`, `RefsBound`, `IdsOnce`, `MeansTheSame` |

What each one shows:

- **`dyn_prog_solver`.** Whichever build runs, `solve()` ends on every tree,
  the answer accounts for every node, everything is freed, and every step is a
  step of `DynProg` or a stutter: no `do_X()` reads a table that is incomplete or
  gone, and no node enters a value twice. Trees of six nodes have joins above
  joins, with a chain above, between or below them, so that a worker can be
  anywhere in one subtree while the other is done or not begun. A task shares
  state only with those of its children and its parent.
- **`flyweight`.** Three objects allow a chain of two nested handles and, at
  the same time, an equal object under construction by the other thread. Every
  handle may be copied or destroyed whenever it is reachable.
- **`game_caches`.** Any sequence of lookups, stores, changes of the limit,
  solvers, formulas and flyweights. Up to two entries are kept and up to eight
  keys compete for them; a formula that is low is never stored; with two
  addresses for two objects every address is used again. The number of formulas
  is bounded by their addresses because none is ever deleted: that is what the
  code does, and what `HitsAreFresh` depends on, as the mutant that deletes
  the formula with its solver shows.
- **`sparse_hash`.** The hashes of three of the four keys collide in the smallest
  table and those of two in the next. A table that holds three elements has to
  grow, one from which enough are erased shrinks with the next insertion; a copy,
  a range of keys and a loop that erases begin in any state.
- **`table_update`.** Three calls are enough for a compare-and-swap to fail
  twice in a row and for each kind of duplicate to be found by a call that is
  itself found by another. Their arguments are any combination, the game that
  is dropped at once (`FALSIFIER`) included.
- **`pre_solve`.** Without a decomposition: all directed graphs of three
  vertices and all of four vertices whose edges lead to the larger one, and
  incidence graphs of all of two and of the upward ones of three. With one:
  trees of two nodes over any bags, valid or not, for a path and, as incidence
  graph, also for two edges in opposite directions; trees of four nodes over
  bags of up to two vertices; every *directed graph* of three nodes over such
  bags, as loaded files need not hold a tree. `Limit` is 20 nodes instead of 5000; cases on both sides of it occur.
  `GivenDecides` compares the checks with the definitions: what was loaded is
  let through or thrown according to whether it *is* a decomposition of the
  graph. `KeepsValid` and `WidthKept` follow it through all repairs. Facades:
  every upward graph of three vertices, solved, extended by up to two vertices or
  edges and solved again; the grown graph passes the check only if the old
  decomposition is one of it too.
- **`game_solve`.** `SolutionExact` compares the solutions that reach the
  root with `Formula!Holds` on the whole graph: for dominating sets (a free set
  variable), two-colourability of the vertices without a label (a quantified
  set), and a formula with an equation, with and without assertions, on every
  graph of three vertices and every nice decomposition of it in which one child
  of each join has no join below. The other invariants say where it would first
  go wrong: bags, values, merged entries, dropped entries. `SolutionExact` also
  says that no atom is left undecided at the root, as `convert()` asserts.
- **`evaluations`.** For every family of sets of three vertices as solutions,
  the numbers of solutions, also by size (modulo 2^`Bits`; both are `CountsSolutions`),
  minima and maxima with their sets, and witnesses are what they should be. Two bits overflow with three vertices;
  the code's 64 do so with 64. The order of `add` is fixed within a node, where
  the table's is unspecified.
- **`front_end`.** Names: the tables of the parser after every prefix of two
  inputs with functions, quantifiers, parentheses to depth two, ids up to four,
  calls with an argument, and an error at any point. An input after an error is
  not read, since the level is then wrong (section 5). Trees: 722 texts, handed
  over as a string or read from a file in pieces of three characters, which cut
  keywords and names in two; every operator inside every other on either side;
  calls of functions that call functions, with two to four arguments; quantifiers
  of vertices that are not used, or used only before or behind the parentheses
  they stand in front of; comments, blanks and parentheses in all places; and
  texts that are no formulas, among them one that overflows the stacks. After
  each, accepted or not, another text is read. A text gives its own words and no
  others, and the tree that was written without the quantifiers that are to go
  (`Cleaned`): a quantifier too many or too few is seen. What is made of the tree
  has its negations in front of atoms, and means on three graphs with vertices
  what was written. On a graph without vertices it means what is left of that
  (section 5).

Each passing property is known to fail for a plausible mistake in the code that
it is about: `PROJECT.json` lists under "mutants" the changed definition for each.

### Assumptions on fairness

- `DynProgSolver` without TBB, `MinDegree`, `MakeNice`, `PreSolve`: weak fairness of the next
  step. They run in one thread and never wait.
- `DynProgSolver` with TBB: weak fairness of every worker and of the main thread. A worker
  of TBB looks for tasks until none is left, and no task of the program waits
  for another.
- `Flyweight`: weak fairness of a thread inside an operation and strong fairness
  of its acquiring the lock. No property of the run depends on it.
- The others have no property that needs fairness.

Deadlock is checked except where the system may stop, that is when the answer is
there (`Evaluations`, `GameSolve`), the input is over or refused
(`FrontEnd`), or no thread need call again (`Flyweight`).

## 4. What is proved

All theorems hold for every value of the constants under the assumptions
named in the modules, which are as weak as those of the code.

| Theorems | Assumptions | Argument |
|---|---|---|
| `SolverChildrenComplete`, `SolverNodesAccounted`, `SolverFollowsSchedule` | `TreeAssumption`: at most two children, none with two parents, the root with none, and every node is reached from it (`make_nice()` and the checks see to it); there is a worker; **with more than one worker, no child is completed between its `spawn()` and the parent's `set_ref_count()`**, which the code does not guarantee (section 5) | About `AnyOrderSpec /\ Unhurried`: the tasks take any steps; without TBB, and with one worker, nothing else is assumed. `PatientIsUnhurried` shows that the behaviours of the run are among these. Without TBB: no node is on the stack twice; nothing below a node not yet expanded has been touched; a child of an expanded node on the stack is handled, is at work, or lies above it; a handled node has taken over its children's tables, and only so do tables go. That the children of a node are ready at its second visit follows from where they lay on the stack. With TBB: the invariant gives every node a stage, from the task that is not yet allocated to the continuation that has run, and ties the reference count of a continuation to the stages of the children. Nobody overtakes when there is one worker only, since he is the one who is in the gap (`AloneNoneOvertakes`); a step in which nobody overtakes is one of `SolverSpec` (`UnhurriedStep`), for which the invariant is inductive. `tbb_early_join` shows that the theorems do not hold without the assumption. |
| `SeqTypeCorrect` | the same | `SeqSolve` alone, the inductive invariant of the walk with the stack. |
| `DynProgAnswer`, `DynProgNothingTwice` | the same | `OwnNode`, `Closed`, `OnlyWorked`: what a table accounts for holds its own node and is closed under children; two ready tables of different subtrees share nothing. |
| `FlyweightTypeCorrect`, `FlyweightNoDangling`, `FlyweightCountsHandles` | finitely many handles and objects | The counter of an object is the number of handles that refer to it plus the constructors that have counted themselves and have no handle yet. An object in doubt (found by a constructor, or with its last handle gone) belongs to the holder of the lock; a handle nested in a live object refers to a live object, and so on through the handles of an object that is being deleted. |
| `FlyweightNoLeak` | the same | A second invariant, `ShapeInv`: every object is pooled or somebody's, a pooled one has a handle, and nesting goes from older to newer ranks (an object refers to objects that were there before it, so a rank function exists at any time). When all threads are idle and the user has no handle, the object of least rank would need an owner of a lower one. |
| `FlyweightDeepCanonical` | the same | Equal values of depth *n*+1 with different objects mean two different children of equal values of depth *n*, since the pool holds no two objects with the same label and children. So two equal objects that differ have a chain of as many objects below them as one likes, but there are finitely many. |
| `LruRing`, `LruIndex`, `LruPurged` | the sentinel is no other node | Unlinking and linking of a node keep a ring a ring (lemmas on the links alone, for sets of any size); the map is a bijection onto the nodes. |
| `LruImplementsLru`, `CachesImplementLru` | the sentinel is no other node | The links as a sequence: a walk goes from the sentinel through every node of a ring and is back after the last (`RingWalk`: if it came by a node twice it would, by the links backwards, have been at the sentinel before); it is the only one (`WalkIs`), so it is `Nth`, and each operation of the list changes it in one place (`PushedBackWalk`, `RemovedWalk`, `ErasedWalk`). With the entries for the nodes, that is what the actions of `Lru` do to the queue; a store that is refused does nothing to it. |
| `CachesImplementLruCache`, `CachesHitsAreFresh` | addresses of flyweights are numbers (they are compared); keys and values are those of the code; `None` is nothing that can be there | `MemoryOK`, the types of the memory and of the cache, makes every key that is formed one of `Key`; hence each step is a step of `LruCache` or leaves it alone, and `RingOK` and the index carry over. `HitsAreFresh` says too little to be inductive: it speaks of the last answer. `EntriesFresh` speaks of every entry: its formula is still at its address, its flyweights are held, and its value is the result of what is there; `KeyGivesResult` shows that sorting the games of a join changes nothing. A step that could change what is at an address (`ParseFormula`, `Intern`, `Release`) touches only addresses that no entry has. |
| `MakeNiceNiceBehind`, `MakeNiceWidthKept`, `MakeNiceTypeCorrect` | ids are naturals, bags finite | About `MakeNice` with any decomposition as input. New nodes are numbered after all others, and a repair changes only the children of the node at hand and what it adds; a new bag lies within one that is there. |
| `PreSolveBucketsExact`, `PreSolveVerticesFound` | `PreSolveAssumption`: a graph is numbered from 1, without loops, and its labels are not the two that the incidence graph adds | About `PreSpec`, hence also for the graphs a facade solves again. Degrees are counted over what is left of the graph: a vertex that was taken out is isolated, no bucket below `minimum_degree` holds a vertex, and the number of vertices left is that of the rounds left, so that a vertex is always found. The degree of a vertex changes by one with each edge; a neighbour over both directions is counted off twice, once in each loop, which is what `Offset` is for. |
| `PreSolveKeepsValid` | `PreSolveAssumption`, which also says of a loaded decomposition that its edges lead to nodes and its bags are finite, and that only a solver without a facade makes an incidence graph; `LoadedFits`: no bag loaded for an incidence graph names a number that a vertex of an edge will get | About `PreSpec`, for every graph and decomposition and any number of further solves: at the end, and after every repair, what hangs below the root is a tree decomposition of the graph as played on exactly if it had to be. The nodes reached from a root are taken as the smallest closed set with the root in it, not as a search. *The heuristic*: the neighbours noted for a vertex were all taken out after it, each two of them are adjacent then, and every edge is still there or noted (`ElimInv`); a node goes below one whose bag has the noted neighbours, so each vertex has one topmost node, at which its nodes hang together (`GenerateInv`). *A file with an incidence graph*: the leaf hung for an edge goes below a node with both ends, so the result is one of the incidence graph exactly if what was loaded is one of the graph. *The repairs*: each subdivides edges below one node, or adds a copy below it; the rooted tree, the cover of vertices and edges, and the topmost node of each vertex survive in both directions (`KeptStep`), so a repair neither spoils a decomposition nor makes one out of what is none. *A second solve*: what the first has left is what is loaded, for a graph that may have grown. |
| `PreSolveGivenDecides` | the same | `CheckInv` says which tests have been passed, or that one has failed. The walk of `is_tree()` sees a rooted tree exactly if there is one, all nodes being below the root. The search of `has_connectivity()` gets to all nodes that hold a vertex exactly if one of them is topmost (`LinkedTop`): what lies below a topmost node has no way out but through it. With `KeepsValid`, the verdict on what is walked is one on what was given; `is_nice()` passes by `NiceBehind`. |
| `PreSolveNiceBehind`, `PreSolveWidthKept` | `PreSolveAssumption` | What `MakeNice*` say of any input, as part of the solver: `NodesInv` gives the decomposition that is generated, extended or left over by an earlier solve the form that `MakeNice` needs of its input. |
| `PreSolveSolutionComesBack` | the same | The vertex of an edge is the only one after the vertices of the graph with exactly these two neighbours (`Position` is injective), and a vertex of the graph has its number and labels again. |
| `TableNothingLost`, `TableGamesOwned`, `TableMapsOwned` | – | What a call has read is part of what is stored, and a compare-and-swap succeeds only if it still is all of it; each map and game has one of: its own call, the table. |
| `EvalCounts`, `EvalExtremes`, `EvalComposed` | `EvaluationsAssumption`: finitely many vertices, and an `unsigned long` has at least one bit | The properties of `evaluations` for every graph, set of accepted solutions, order of steps, size of bags and number of bits. `EvalInv` says more than the properties: an entry of either subtree stands for *all* sets of vertices seen with its members in the bag and its completions (`Played`), its values are those of this set (`Value`), every set that can be completed is in an entry, and the same holds of the left child that waits for its join. *mult*: two parts that can be told apart in their union (`Apart`: one is the union within the vertices of its side) make one union per pair, so numbers multiply (`UnionsCount`); for a size *n*, the unions are counted by the size of their first part (`SumCounts`), which is the sum that `mult` of `CardCountingEvaluation` computes, starting with the size of what the parts share. *add*: the sets are disjoint, so numbers add up (`AddValue`), over all results with one key (`SumOfValue`). All of it holds modulo 2^`Bits` since sums and products do (`ModuloPlus`, `ModuloTimes`). *The steps*: that results with one key are disjoint and have one set of completions is where the decomposition comes in: a vertex that is introduced was not seen, and the sides of a join share the bag only (`CompletionsJoin`). *The root*: everything is seen, the completions say who is accepted, and the answer is the value of all of them (`RootOK`). |
| `ScopesRefsBound`, `ScopesIdsOnce` | – | About `ParserScopes` alone, with any number of levels, ids and inputs, inputs after an error included. Every id handed out is below the counter and stands in one table of one level; a name that is referred to is marked as used, so that `erase_irrelevants` keeps its quantifier; an action that opens or closes a scope moves whole levels. |
| `ScopesTablesFollowNesting`, `ScopesNoCrash` | no input is read after one that failed (`~RetriesFailed`) | The tables of a level hold what is open at that depth, for each depth; a level that has no table is that of the body after an error, and nothing is quantified there. Hence no action looks a table up that is not there. After an error the level is not reset, so the hypothesis is needed (section 5). |
| `ReaderReducesHandles` | `TablesFit`; `TokensKnown`: every token of the scanner is a terminal of the grammar | About `ReaderSpec`, for any texts, buffers and stacks. `StackInv`: the start state is at the bottom, each two neighbours on the stack are an edge of the automaton, and each state is on it with its own symbol. From the top of such a stack, the *k*-th entry down is one of the states `Behind` it by *k* edges (`PlaceBelow`), and of these `TablesFit` says what a rule needs: that they have the symbols of its right-hand side, and that the one below has a goto for the left-hand side, along an edge again. So an action reads the members of the union that were written, and a handle never reaches below the bottom, however deep the formula. |
| `ReaderWordsAsWritten` | `TablesFit`, `TokensKnown`; `TextsAssumption`: texts are sequences of characters, with the words that `WordsOf` finds in them read whole; `WordsAreSequences`; `BufferAssumption`: the buffer and the pieces read into it have a size | About `ReaderSpec`, for texts of any length, any sizes of buffer and pieces, strings and files, one after the other. `ScanInv`: what the buffer holds from `pos` on, with what is still unread behind it, is an end of the text, and the words so far, continued by the words of this end, are those of the whole text. That a word found in the buffer is the one found in the whole is `MunchIsMaximal`: unless the automaton of the scanner has run into the end of the buffer, no further text makes the first word longer; and if it has, more is read, and the buffer grown until there is room (`GrownIs`). The last word, which does end there, is taken only when nothing is left to read. That no text follows the end is where the parser comes in: `TablesFit` says that the end is never shifted, so nobody asks for another word. |
| `ReaderStackFits` | `TablesFit`, `TokensKnown`; `DepthAssumption`: 1 < `YYINITDEPTH` ≤ `YYMAXDEPTH` | While a text is read, the stacks have room for one entry more and are of at most `YYMAXDEPTH` entries: a push needs no test of its own, since the test after each one (`yynewstate`) comes before the next. |
| `HashSearchesEnd` | `SparseHashAssumption`: `HT_MIN_BUCKETS` is a power of two and at least 4, the starting size is it times a power of two; any hash function, any keys and values; sizes do not overflow | Two probes less than a table's size *n* apart in their numbers *i*, *j* lead to one bucket only if *n* divides (*j*-*i*)(*j*+*i*+1)/2; of these factors one is odd and the other less than 2*n*, so with *n* a power of two it does not (`StepsApart`). The *n* probes are then an injection of the *n* buckets into themselves, which reaches all of them (`ProbeCovers`), also an empty one: the invariant says that a table is never filled beyond its threshold, marks included, and every way to grow leaves room for what is inserted next (`WithRoomGood`). |
| `HashElementsFound`, `HashTypeOK` | the same | `GoodTable`: no empty bucket comes before an entry on the way of its key; no two entries have one key; `num_deleted` is the number of the marks. A mark keeps the ways of all others whole (`MarkInPlace`); a position found before room was made is still right if nothing moved (`FoundOrInsertedGood`). A new table is filled one entry after the other, with the same elements in the end (`MovedGood`). |
| `HashLoopVisitsAll` | the same | What is due has been visited or is in a bucket further on, since marking moves nothing. |
| `HashImplementsMap` | the same | `Held`, the entries of a table without their buckets, determines the map (`ContentsIs`); each operation adds, replaces or removes one entry of it, or makes a new set of entries; growing, shrinking, squashing and loops leave it alone. |
| `SetForgetUndoesIntroduce`, `PointForgetUndoesIntroduce`, `RenameForgetUndoesIntroduce` | the width is a natural number | `RenameRoundTrip`: the renaming of bits behind a position is undone by its inverse, at every position. |
| `GameTablesAlpha` | `GameTablesAssumption`: vertices are finitely many numbers, a null move is no move | About `GameTables`, for any games. `AlphaFor`: the moves of a node are those of its bag (`BagMove`), and NULL behind it. A position is the number of smaller vertices in the bag (`PositionAt`: each is taken once); a vertex that comes moves those behind it up by one (`PositionAdded`), and this is what the renaming of the moves does (`MoveBefore`, `MoveOfNew`, `MoveBehind`). A forget is an introduce undone: the moves of the larger bag are those made by an introduce, so `RenameForgetUndoesIntroduce` gives those of the smaller one (`ForgottenMove`). A join keeps the moves of the left child, which belong to the same bag. |
| `GameTablesValues`, `GameTablesDisjoint` | the same, and `CacheHarmless`: the introduce cache is off, or there are no free set variables. Otherwise the code violates both (section 5) | `TableFor`: every entry is keyed by an assignment and a game, its solutions are made of vertices seen and have in the bag the positions that the assignment names (`Match`), and no solution is in two entries. The second part needs the first. *Introduce*: `elem()` adds the new vertex to the variables it was chosen for and otherwise vertices that are there already (`SetIntroduced`); since it was not seen before, solution and choice can be read off the result. *Forget*: solutions stay; the positions are renamed with the assignment (`MembersForgotten`). *Join*: the vertices seen on both sides are the bag, where the two solutions agree as their assignments are one (`SamePositions`), so that each is the part of the union within its side (`OneJoined`). `Table` merges results of one key only (`TableOfResults`). The game plays no part, whatever it drops. |

The proofs of invariants have one lemma per action; temporal steps are taken
last, from the initial condition, the step and the implication.

Where an argument needs induction (over the height of an object, a number of
probes, the elements inserted so far, the position in a list), it is taken in the form of a set of natural numbers that has
a least element, since the induction theorems of the library take an operator.
That a recursive function over numbers is what its equation says is proved in
the same way (`RecursionExists`, `FoldExists` in `SparseHashProofs`), and that a sum over a
set, taken one element after the other, is defined and what it comes to
(`SubsetInduction`, `SumExists`, `AddsExist` in `TableProofs`); the words of a text, and
the size that a buffer grows to, are such functions too (`WordsExist`, `GrowthExists` in
`FrontEndProofs`).

`ReaderSpec` is the parser by itself: `Parsing` and `Reading` of `FrontEnd` take its
steps and all others leave its variables alone, and `LaterAssumption` says that
what is read after another text is a text. The theorems about it are hence about
the scanner and parser of the run `front_end`, in which TLC evaluates all the
assumptions named above, `TablesFit` for all states and rules of the tables.

Only model-checked: termination and everything else under fairness (out of the
prover's reach); `NothingDropped` and `SolutionExact`, which are about the games
themselves; `TreeAsWritten`, that the actions of the grammar build the tree
that was written; and `MeansTheSame`, that its conversion keeps its meaning. What
these compare are recursive definitions over trees of unbounded depth, for which
the provers have no induction.

## 5. Where the code and what is said of it disagree

Kept as runs, with the details under "findings" in `PROJECT.json`:

- **`tbb_early_join`** (`dyn_prog_solver.cpp:215`). The task of the second child
  is spawned before the reference count of the continuation is set. A worker
  that completes the child in between makes the join run on an incomplete table.
- **`game_introduce_cache`** (`apply_game_introduce.hpp:81`). The results that
  are looked up hold moves that are not part of the key. Two assignments with
  the same game get the same results, values and all.
- **`game_join_assertion`** (`cache_join.cpp:137`). The assertion that joined
  games have one formula fails for a determined game next to an open one.

Met while modelling, and described here only:

- A cycle that is not connected to the root passes the check of a loaded
  decomposition (`structures/treedecomposition_check.h:153`, `:165`).
- `make_nice()` does not end on a loaded decomposition in which a node has the
  bag of its only child (`structures/treedecomposition.cpp:168`); the run
  leaves such decompositions out.
- A decomposition of more than 5000 nodes is not checked
  (`dyn_prog_solver.cpp:66`).
- A negated implication converts to a null pointer that is then used
  (`parseformula.cpp:150`). `Normalize` has it as the outcome `crash`; `MeansTheSame`
  allows it, and the refusal, only for formulas with an implication or
  equivalence, or an inequality below a negation.
- After a syntax error inside parentheses the level of the parser is not reset
  (`ms2grammar.ypp:1000`). `ParserScopes` can go on after an error; the run does
  not when it follows the names (`RetriesFailed = FALSE`). Trees are read after
  inputs that failed, too.
- Quantifiers of vertices that are not used are taken out (`ms2grammar.ypp:734`,
  `:775`), and on a graph without vertices this changes the meaning: `Ex x All y
  (y notin X)` becomes `All y (y notin X)`, which is true there. Usage is noted by
  name for a whole function, so that one that is not used stays if another of its
  name was used before. `TreeAsWritten` says exactly which go, and `MeansTheSame`
  has the graph without vertices as its exception.
- `~(x != y)` is refused. `sequoia_add_edge` is documented to return true on
  success (`sequoia.h:54`) and returns 0.
- The progress thread runs a copy of the job that `stop()` is called on
  (`sequoia_solver.cpp:78`, `:264`). It never sees the flag and goes on reading
  the solver, also one that has been destroyed.
- A second `solve()` on one facade keeps what the first one left. The
  decomposition is in `PreSolve`: a graph that has grown is refused unless the
  old decomposition is one of it, too. The terminals and the free symbols
  are pushed once more, so that with a free variable entries and counts are
  doubled; graph, evaluation, vocabulary and formula of the first solve are not
  deleted. None of this is modelled.
- A second formula on one solver extends a decomposition twice by the vertices
  of the edges.
- `push_variable()` and `push_set()` push to the front, because "the LALR(1)
  parser parses the last argument first" (`parse_formula_structure.h:255`); but
  rules 20, 21, 42 and 43 are left-recursive. The arguments of `f(a, b, c, d)`
  become `a, d, c, b`, in declarations and calls alike, so that each still gets
  the one meant for it (`TreeAsWritten`).
- `yyin` is never closed, and `parse()` does not call `finalize_parser()` when it
  catches an `int`, which nothing throws.
- The constructor of `SequoiaSolver` leaves `_orig_graph`, `_has_solution`,
  `_base_alpha`, `_vocabulary` and `_periodic` unset, and a facade that is
  destroyed without `solve()` deletes what they happen to hold.

## 6. Bounds and abstractions

- Trees of the schedules, graphs, decompositions and formulas are as listed in
  section 3. `MaxId`, `MaxLevel`, `MaxArgs` and `MaxParses` bound the parser;
  `BufSize` (4) and `ReadSize` (3) are the scanner's buffer and its pieces, 16384
  and 8192 in the code, and `YYINITDEPTH` (4) and `YYMAXDEPTH` (20) the stacks of
  the automaton, 200 and 10000; after a text one of `LaterTexts` is read.
  `Width` is the largest bag of `Game`, `Evaluations` and `FrontEnd`; `Bits`
  stands for the 64 bits of `unsigned long`; `Limit` for the 5000 nodes above
  which a decomposition is not checked; `MaxRequest` is the largest argument of
  `resize()` of a hash table, whose size has no other bound than what is in it.
- `GameCaches`: two addresses of formulas, which bound how many are ever made,
  and two of flyweights, which are used again; limits from 0 to 2. `PreSolve`: two
  calls add to a graph that has been solved.
- The content of a table is, in the schedules, the set of nodes that went into
  it; in `TableUpdate`, the set of calls whose value it holds; in `GameTables`,
  games with sets of solutions. Every other evaluation is an image of the set
  of solutions; `Evaluations` checks that, on tables where a game stands for
  the ways to complete it.
- Symbols of formulas are numbered by the depth at which they are bound, as the
  vocabulary does; labels are given; loops at a vertex are left out.
- Unordered containers have no order in the models, and a step may take any of
  their elements where the order could matter.
- `GameTables` has the introduce cache within one node, where its key is too
  small, and takes the results of subgames to be what was stored for equal
  arguments; `GameCaches` says when they are, over nodes and solvers.
- A behaviour of `FrontEnd` follows names or trees, never both.
- `TbbSolve` takes from TBB what its header names: who may run a task, when a
  parent is run, when a task is freed. The pools and the allocator are external.
- `IncidenceGraph` has assertions on. Without them the bag of an edge that fits
  nowhere goes below the last node.
- Decompositions are loaded as any numbers of nodes, edges and bags (`IsGiven`).
  `PreSolveKeepsValid` and `PreSolveGivenDecides` leave one case out, `LoadedFits`: the vertices of edges get
  the numbers after those of the graph, so that a file whose bags name such
  numbers, of vertices the graph does not have, names vertices of edges once the
  incidence graph is made.
- `Flyweight` writes a handle's steps as the code orders them, under sequential
  consistency. The counters are atomic, and so is the lock's effect.

Not modelled: parsing and printing of graph files, plugins (code of the user),
options, logging, memory pools and hash functions, which take no decisions of
their own; of sparsehash, the dense tables, `libchash` and its tests, which the
program does not use; `PeriodicJob`, which never stops (section 5) and only
prints; of the facade, the
reading of results and the C functions around it; the terminals and free
symbols of a second solve.

## 7. Plan

The order in which the modules were written is that of section 2: schedule,
shared data, decompositions, games, front end. What remains, by importance:

1. The terminals and free symbols of a second solve on one facade.
2. A behaviour of `FrontEnd` that follows names and trees of one text.

## 8. Checking it

    tlc -config MCDynProgSolver.cfg MCDynProgSolver     # and so on: PROJECT.json, "runs"
    tlapm DynProgSolverProofs.tla             # and the other *Proofs modules
