# Specifications of the FreeFEM core in TLA+

FreeFEM runs scripts in a language of its own: a script declares meshes, finite
element spaces, matrices and arrays, assembles bilinear forms, solves linear
systems, and, in parallel, exchanges these objects between processes.  This
directory models the parts of it whose difficulty is discrete: data structures
that several methods keep consistent by hand, objects shared by counters,
caches of factorizations and of problems, the control of the interpreter,
messages in several parts, the stream and the threads of the graphics, and
processes that share memory.  The numerical parts (geometry, quadrature, iterations in
floating point) are not modelled.

Paths below are those of the repository; `fflib/`, `femlib/`, `mpi/` and
`lglib/` are under `src/`.

## The system

| component | state it keeps | operations | talks to |
|---|---|---|---|
| sparse matrix storage, `femlib/HashMatrix` | terms `i,j,aij`, hash table `head,next`, order `state`, format `type_state` and pointer `p`, flags `re_do_*` | access, assembly, sorts, formats, `resize`, transpose, copy | solvers (formats and flags), assembly, MPI |
| staged solvers, `femlib/VirtualSolver*` | stage, codes of the dimension, pattern and values, factorizations, pointers into the matrix | `factorize`, `solve`, `SetSolver` | the matrix they were made for |
| ownership, `femlib/RefCounter.hpp`, `femlib/VirtualMatrix.hpp`, `fflib/problem.hpp`, `fflib/lgmat.cpp` | counters, script variables, temporaries | assignments, expressions, assembly, ends of scope | the interpreter's temporaries |
| interpreter, `fflib/AFunction*.cpp`, `fflib/ffstack.hpp` | stack of C++ frames, current list of temporaries, parameters of the function, variables | evaluation of nodes, exceptions | every operator of the language |
| MPI exchange, `mpi/parallelempi.cpp` | table of what is left to do per request | `Isend`, `Irecv`, blocking calls, three waits | MPI, serialization of meshes, matrices |
| problems and assembly, `fflib/problem.cpp`, `fflib/problem.hpp` | between two calls of a problem: address of the mesh, spaces, matrix and solver; functions and their arrays | a call with or without `init`, first guess, assembly, solve, dispatch of the solution | meshes and spaces by counters, matrix storage, solvers |
| matrices of scripts, `fflib/problem.hpp`, `fflib/lgmat.cpp`, `femlib/HashMatrix.*` | per variable: a matrix stored whole or by its lower triangle, the space of its last assembly | assembly of a form with its conditions on the boundary, `setBC`, `set(solver=)`, sums, products, transposes, copies | matrix storage, solvers |
| lexer and macros, `fflib/lex.cpp` | stack of inputs, macros, parameters | tokens, includes, expansion | grammar |
| grammar and types, `lglib/lg.ypp`, `fflib/AFunction*.hpp` | tables of types, identifiers and blocks | compilation of a script | interpreter |
| meshes, spaces, generators, `femlib/`, `bamglib/`, `fflib/msh3.cpp` | arrays of vertices and elements, numberings | geometry | interpreter |
| search trees, `femlib/FQuadTree.cpp`, used by `fflib/glumesh2D.cpp` | a quadtree of vertices over integer coordinates | `Add`, nearest vertex, close vertex | gluing of meshes, point location |
| stream of plots, `fflib/PlotStream.hpp`, `fflib/lgfem.cpp` | what is left of the record being written, buffers, the reader's place | `plot(...)`, `ThePlot::ThePlot` | a pipe to ffglut |
| graphics client, `Graphics/ffglut.cpp` | `nextPlot`, `currentPlot`, the flags of the hand over, timers, lists of plots of the windows | thread that reads, handlers of the event loop, keys | the pipe, glut |
| shared memory, `plugin/seq/libff-mmap-semaphore.c`, used by `plugin/seq/ffmaster.c` and `examples/plugin/ffslave.edp` | named semaphores and maps | create, open, post, wait, destroy | other processes, the kernel |
| plugins, viewers, third party code | | wrappers of libraries | |

What makes each of them hard, and what correct means:

* **Matrix storage.**  Six pieces of state say something about the same terms.
  Sorting, packing, transposing, shifting the base and growing the arrays all
  move the terms or change the hash function.  Correct: the table finds every
  term, no cell is stored twice, the declared order is the order, the pointer
  of the format is the pointer of the terms, and no change of representation
  shows in what `A(i,j)` returns.
* **Staged solvers.**  A solve redoes only the stages that are out of date,
  decided by comparing codes.  Correct: what is redone covers what changed.
* **Ownership.**  A matrix belongs to variables, to temporaries that go at the
  end of the instruction, and an exception may leave at any point.  Correct:
  nothing reachable was deleted, the last owner deletes, a matrix is solved by
  its own solver.
* **Interpreter.**  Jumps and errors are C++ exceptions that pass through
  lists, loops, functions and `try`, each of which cleans something.  Correct:
  a value lives as long as it is read, a frame is restored on all paths,
  nothing is deleted twice, nothing is left.
* **MPI exchange.**  An object is several messages, each posted when the one
  before is seen by a wait; ranks interleave and requests complete in any
  order.  Correct: objects arrive whole and in order, memory in use is not
  freed, and scripts end.
* **Problems.**  A problem is a cache: spaces, matrix and solver of the last
  call, kept while "the mesh" is the same, with `init` to use the matrix again.
  Meshes and spaces are shared by counters and made again behind its back, and
  a call may raise at any step.  Correct: what is solved was assembled to its
  end on the meshes of this call; counters are the owners; a function's values
  fit its space.
* **Assembly.**  A symmetric matrix is stored by half when the solver wants it, and
  each operation has its own loops for the two storages; what a mixture becomes
  is decided in several places, and a matrix is assembled again into what is left of it.
  Correct: the storage never shows in what the matrix is, and no term is where
  the storage has no place.
* **Search trees.**  Boxes are skipped by integer arithmetic on corners.
  Correct: what a search finds is what a look at every vertex finds.
* **Plots.**  A stream without lengths, written through a buffer and a pipe, read
  by a thread that hands plots to an event loop through variables without a
  lock.  Correct: the reader gets what it waits for, plots are taken once and
  in order, what is on screen is not deleted, nobody waits for ever.
* **Shared memory.**  Names outlive processes.  Correct: a master and its slave
  take turns, each answer is that of the question, what a killed session
  leaves behind does not harm one that is on its own, and lasts for the next session
  at most.

`PROJECT.json` lists the components, and under `hazards` each place where one of
these can go wrong, with the properties that would show it.

## Modules

| module | models | state and actions |
|---|---|---|
| `HashMatrix` | one sparse matrix | one variable per field; `coef` is the list of the terms; one action per method (`npij`, `pij`, `CSR`, `CSC_U`, `resize`, `setfortran`, ...). A bucket is the set of the positions linked in it: `find` takes the greatest, as later terms are linked in front. |
| `SparseMap` | what users of a matrix count on | a partial map from cells to values; abstract specification of `HashMatrix` |
| `UmfpackSolver` | a `HashMatrix` and the UMFPACK solver attached to it | EXTENDS `HashMatrix`; `stage`, `code`, `codenew`, and what `Symbolic` and `Numeric` were computed from |
| `MatrixOwnership` | variables, matrices, solvers, temporaries | memory as a record of counters; one action per kind of instruction, the exception paths included; memory is used again after a deletion |
| `Interpreter` | evaluation of a script | `ctl` is the stack of active C++ functions and `now` what the innermost is given (a node, a value, an exception); one action per piece of code between two calls. `Nodes` are the expressions and instructions of the scripts; `Grammar`, an assumption TLC checks for each family of scripts, says what a node is made of |
| `MPIExchange` | ranks that run scripts, and MPI | `net` is MPI (requests, messages sent and receives posted per channel), `todo` the table `ToDoOnWaitMPI_Request`; one action per call, per `Do`, per return of a wait |
| `Problem` | calls of one problem, and the meshes, spaces and functions it uses | `count` is the counter of every mesh and space, `data` what the problem keeps, `now` the step of the call; one action per step of `Problem::eval`, with its errors, and the script's changes of meshes and functions between calls |
| `Assembly` | the matrices of a script, assembled, combined and brought to the storage of a solver | `mat` is each matrix as a map of its stored terms (what `SparseMap` says a `HashMatrix` is) and its `half`; `asked` the same matrix by plain algebra, changed beside `mat` by each instruction; one action per instruction |
| `QuadTree` | the tree of vertices of plane meshes and gluing | `tree` is the boxes; insertion is an action, searches are operators walked over the tree in the order of the code's stack |
| `PlotStream` | the record of a plot, both ends | `Record` is what a plot command writes, token by token, `Read` what `ThePlot` does with a token; buffer and pipe between them |
| `PlotClient` | the program, the reader thread, the event loop and a user | one action per handler, split where the handler joins the thread; the plot itself is its rank in the script |
| `SharedMemory` | sessions of a master and a slave, one after the other | `name`, `value`, `file`, `shared` are the kernel's; one action per call of the two programs |
| `HashMatrix_proofs` | | theorems about `HashMatrix` and `UmfpackSolver` |
| `Interpreter_proofs`, `Assembly_proofs`, `MatrixOwnership_proofs`, `PlotClient_proofs`, `SharedMemory_proofs`, `MPIExchange_proofs`, `Problem_proofs` | | theorems about these |
| `MCAssembly`, `MCHashMatrix`, `MCMatrixOwnership`, `MCInterpreter`, `MCMPIExchange`, `MCProblem`, `MCQuadTree`, `MCPlotStream`, `MCPlotClient` | | the values of the constants for TLC; the families of scripts |

Definitions carry the names of the code.  A definition named `X_Something` is a
plausible bug of `X`; `PROJECT.json` says which property it breaks, and TLC
finds it with the bounds of the run.

External code is modelled from how it is used.  MPI: messages of one sender, one
receiver and one tag match the receives in the order both were posted; a matched
request completes at some time; a send may complete before it is matched (MPI
may buffer it) but need not.  The statuses of completed requests are taken as
set (`mpiWaitAll` skips those with an `ANY` tag and source,
parallelempi.cpp:2340).  UMFPACK: it refuses to factorize without a `Symbolic`,
and may when the pattern is not the one of `Symbolic`.  Glut: handlers run one
at a time, a redisplay that was asked for and a timer that is due come to their
turn.  The kernel: a pipe holds few tokens and a writer to a pipe without a
reader is killed; `sem_open` with `O_CREAT` opens what is there under the name
and creates it otherwise; a name that is removed lives on for who has it open.

## Runs

| run | expects | properties | shows |
|---|---|---|---|
| `HashMatrix` | pass | TableInv RoomInv FormatInv ImplementsSparseMap | every sequence of calls on a matrix of at most 2x2 with up to 3 terms of two values; the matrix implements `SparseMap`, and changes of format and base do not show |
| `UmfpackSolver` | pass | CodesInv SolveDimension FirstSolveIsCurrent | stages and codes over any calls between solves |
| `StaleFactors` | violation | SolveIsCurrent | changed values are not factorized again |
| `MatrixOwnership` | pass | NoDangling CountInv SolverOfItsMatrix | counters equal owners minus one, on all paths |
| `MPIExchange` | pass | RecvIsSent BufferAlive WaitAllFinishes ReusedWhenFree Terminates | 507 scripts of two and three ranks |
| `Interpreter` | pass | ValueAlive FrameRestored DeletedOnce | 1260 scripts |
| `Problem` | pass | CountInv SpacesOfCall SolvesThisMesh ValuesFit | eight problems called again and again between changes of meshes, with errors at each step |
| `Assembly` | pass | Accepted Represents | every four instructions on two matrices: each is the matrix asked for, whole or by half |
| `PlotClient` | pass | InOrder PlotsAlive NeverKilled HandOver AllEnds AllShown | a program, the reader, the event loop and a user over 3 plots and 2 windows |
| `PlotStream` | pass | BuiltIsSent LostByCutOnly Delivered | records with every kind of option, mesh and item |
| `SharedMemory` | pass | InTurn Answered NamesGivenBack SessionEnds | three sessions, one process killed anywhere |
| `QuadTree` | pass | TreeOK SearchesAreRight NoCrack | up to six vertices in all orders, in trees split up to three times; searches compared with their definition |

The type invariant of a module is a conjunct of one of the properties (`TableInv`, `CountInv`,
`CodesInv`, `Accepted`, `BufferAlive`, `FrameRestored`, `HandOver`, `LostByCutOnly`) where it is not
a property of its own.

Twelve more configurations each show, in a few seconds, one place where the code
does not do what it says; they are run by hand, as the runs above, and TLC
stops on the property.

| cfg | module | property | shows |
|---|---|---|---|
| `StalePointer` | `MCHashMatrix` | RowPointerAssertion | CSR after a transpose keeps the old row pointer, against the assertion of the product (HashMatrix.hpp:402) |
| `StaleSpace` | `MCMatrixOwnership` | RowsOfTestFunctions | an assembly into a matrix of another size: a variable remembers the space of its last assembly (problem.hpp:1703) although its matrix was replaced |
| `LoopReturn` | `MCInterpreter` | ValueAlive | a value returned from inside a loop was deleted: the loop cleans its temporaries on a `return` (AFunction.cpp:286, 308), which AFunction2.cpp:809 avoids "pour ne pas detruire la valeur retourne" |
| `HalfRow` | `MCAssembly` | Represents | `tgv = -1` puts to zero only the stored part of a row of a matrix stored by half (HashMatrix.cpp:1219); tgv-test.edp says the row |
| `MixedStorage` | `MCAssembly` | Represents | `A += S` with `A` whole and `S` stored by half adds the lower triangle only (HashMatrix.hpp:534) |
| `UpperTerm` | `MCAssembly` | UnHalfHolds | `S + 2*S'` of a matrix stored by half puts terms above the diagonal (HashMatrix.cpp:1276), and the next `set` stops on `ffassert(err==0)` (1405) |
| `MixedMeshes` | `MCMPIExchange` | PartsTogether | the parts of two meshes taken for one when `mpiWaitAny` sees the second first (parallelempi.cpp:821-827) |
| `MatrixWaitAll` | `MCMPIExchange` | WaitAllFinishes | `mpiWaitAll` returns before a matrix is complete: two rounds, four messages (2335-2350) |
| `StaleGuess` | `MCProblem` | GuessFits | a problem of two unknowns reads the array of the second with indices of the new space when only the first was given values since the mesh changed (problem.cpp:11847) |
| `ChangedMesh` | `MCProblem` | SolvesThisMesh | a composite problem compares addresses of meshes it does not own; a new mesh at an old address passes for the old one (problem.cpp:12695) |
| `PlotCut` | `MCPlotStream` | ReaderFollows | an option that raises inside a `try` leaves a piece of a record; the reader stops on its assertion (PlotStream.hpp:155) |
| `StaleSemaphore` | `SharedMemory` | UnlockedByInit | a semaphore left by a killed session lets the next master go on before its slave is ready (ffslave.edp:41) |

Run one with `tlc -workers 2 -config HashMatrix.cfg MCHashMatrix`.

Bounds, and why they are enough:

* `HashMatrix`: `MaxDim` 2, `MaxNnz` 3.  A matrix constructed with room for one
  term grows at the second, so growth inside an insertion, collisions in a
  bucket, every order of two rows and columns, and both triangles occur.  Two
  values tell terms apart when they move, and 0 is dropped by thresholds.
  `Sources` are the matrices copied: empty, and two terms out of order.
  `TransposeFrom` is the formats in which the calls of the run transpose: the
  default and COO.  From CSR, `dotranspose` leaves the stale pointer that
  `StalePointer` shows, so `FormatInv` holds for the others only; `StalePointer`
  allows all of them.
* `UmfpackSolver`: `MaxDim` 2, one term and two values, `Garbage` {0, 9} for the
  members no constructor sets (`codesymnew`, `codenumnew`), `Stages` {1, 2} for
  `factorize=`.  The dimension may change, and the pattern and values too, which
  is all the codes tell apart.
* `MatrixOwnership`: 2 variables, 3 matrices, 2 solvers and a space; 3 solvers and
  2 spaces in `StaleSpace`.  Two variables and a temporary can own all there is, and
  objects are named after memory that is used again.  The names are symmetric; no
  liveness is checked.
* `Interpreter`: nesting of three calls, loops of two turns (the second sees
  what the first left), `try` in and around functions and loops; each operator
  that may fail does so in some behaviour.  40 objects are more than a script
  makes, 3 lists as many as a script has at once.
* `MPIExchange`: two objects between two ranks in all ways of waiting and both
  orders of asking, the exchange of neighbours of `idp/macro_ddm.idp`, the
  gathering of `idp/MPIplot.idp` with three ranks, blocking calls.  Meshes have
  0 (null), 1 or 2 parts, which are all there are.
* `Problem`: two variables of mesh and six meshes in all at five addresses, so
  that every mesh can change more than once and an address come back; two
  spaces on one mesh and one on the other; one or two unknowns, which is
  where the code branches, and one unknown whose test functions are of another space.  `Recycle = FALSE` keeps the addresses a composite
  problem remembers apart from new ones, which is what `ChangedMesh` lets go.
  Meshes are symmetric.  A deadlock is a crash the code has (`Crash`, below).
* `Assembly`: two degrees of freedom (`N`), which have a diagonal, both triangles, and
  constrained and free ones next to each other; values modulo 3, so that 1, 2 and
  0 are told apart and a term counted twice shows; four instructions
  (`MaxCalls`), enough for an assembly, a change of storage, an operation and an assembly
  into what is left.  One symmetric form, of two elements that share a degree of
  freedom and one of which numbers them downwards, and one that is not, with an element that goes
  round a period and meets itself.  Sums `2 M`, `M + 2 M'`,
  `M + 2 N`; all values of `tgv` the code tells apart and one penalty; solvers that
  are unknown, for all matrices, for one kind, for any kind.  The two
  variables are symmetric.  The script stops at an assertion or after four instructions.
* `PlotClient`: scripts of up to 3 plots, with and without wait, in 2 windows;
  lists of `Keep` 2 old plots instead of 20, so that they are cut; a pipe of one
  plot, so that the program waits for the reader.
* `PlotStream`: scripts of up to 2 plots that together have every kind of option,
  of mesh and of item, meshes used by several items in any order of address; a
  buffer of 4 tokens, less than a record, and a pipe of 1.
* `SharedMemory`: three sessions, so that a session may meet what one before the
  last left; two iterations, so that an answer can be that of the iteration
  before; one process killed.  A deadlock is a master whose slave was killed:
  nothing in the code times out.
* `QuadTree`: a tree of side 8 over coordinates of half a cell (`MaxISize`, `Grain`), as the
  code has boxes down to side one over finer coordinates.  The fifth vertex splits a box; the
  sixth comes down through inner boxes, of up to three levels, and an inner quarter
  stands beside a leaf.  Four tasks: the constructor with places of one cell, of
  neighbouring cells and of other quarters, repeated or not (five in one cell split a
  box for ever); and three pairs of meshes glued, in which places that differ are close across
  the middle of the tree, across that of a quarter that is split, and in a chain
  where being close is not transitive.

Fairness.  `MPIExchange` assumes weak fairness of each rank (the system runs every
process) and of the completion of each matched request (the progress rule of
MPI); nothing obliges MPI to buffer.  `PlotClient` assumes that the program that has
a plot to write writes it when there is room and closes the pipe at its end, that
the thread runs, and that the event loop serves what is pending: a timer that is
due, a redisplay that was asked for, a key that was typed.  The user owes
nothing but an answer to a plot that waits, and Escape at the end: `-wait` takes both away.
`PlotStream` assumes fairness of a plot command that was begun and of the client;
nothing says that the script comes to its next plot, which is what `Delivered` is
about.  `SharedMemory` assumes weak fairness of each process that was not killed.
The other models are of sequential code and state safety only: the environment
need not call anything.

### Conditions on scripts

Three runs check families of scripts that keep to rules the code needs and states
nowhere; the configurations run by hand show what happens without some of them.

* MPI.  No matrix in `mpiWaitAll` (two rounds, four messages).  Of two large
  meshes from one rank to another the receiver waits in the order of the sends.
  For two matrices both ranks wait in the same order.  A rank does not wait for a
  matrix before a large mesh sent first unless the sender waits in that order
  too: the sender blocks in `MPI_Wait(&rqSecond)` (parallelempi.cpp:911).
* Assembly (`Mixed = FALSE`).  The elementary matrices of a form assembled with `sym > 0`, and a
  matrix brought to a symmetric solver, are symmetric: only the lower half is looked at; and the
  degrees of freedom of such an element are all different (`SymmetricForm`): on a periodic mesh of
  one element an element meets itself, and `operator+=` adds the term it has with itself
  to the diagonal once, where a matrix stored whole gets it twice (HashMatrix.cpp:1319-1325).  `tgv` changes both row and column, or
  neither, of a matrix stored by half (`TgvFits`: a penalty, -2 or -20).  Matrices stored by half are not
  transposed, alone or in a sum of such (`SumFits`); `+=` adds halves to halves.
* Interpreter.  No object is returned from inside a loop (`LoopReturn`).
  Nothing is declared in the body of a `try`: the variable belongs to the block
  of the handler (`lglib/lg.ypp:604`), is left when the body ends normally, and
  is destroyed by the handler even when it was not initialised.  A declaration
  that is repeated does not fail: the block it is in counts the variable as
  declared (`lsldel`, AFunction2.cpp:778) and deletes the object of the turn before.

## What the checks found

Thirteen disagreements between the code and its own comments, assertions or scripts.
One is a run, listed under `findings`: the factorization codes that never change
again (`VirtualSolver.hpp:220-221` store the dimension).  The twelve others are the
configurations run by hand.

Seen while modelling and not a run: a comment at `lgmat.cpp:3714-3716` says that
`half = 0` keeps the lower triangle, `RemoveHalf(0)` keeps the upper one
(HashMatrix.cpp:324-334); `removeHalf` copies the solver with the matrix
(VirtualMatrix.hpp:152-162), so its result is solved as the whole matrix;
`removeHalf` is the exception in `SolverOfItsMatrix`.  A product of matrices
whose sizes differ loses the new matrix (lgmat.cpp:1710-1715): `lost` in
`MatrixOwnership` is the exception in `CountInv`.

* Problems.  With one unknown and test functions of another space
  (Petrov-Galerkin), the call makes the array of the unknown of the size of the space of
  the test functions (problem.cpp:12325), and `FEbase::operator=` stores it before its
  `ffassert` refuses the size (lgfem.hpp:882-887): after the error the function keeps an
  array that does not fit its space.  `ValuesFit` leaves out these problems.
  A problem whose spaces of test functions differ from those of its
  unknowns is refused after the address of the mesh was recorded
  (problem.cpp:12279, 12298): the next call skips the spaces and dereferences a
  null pointer (`Crash`).  `B` and `X` leak when the assembly raises, as the `try` starts
  after it (12366).  After a failed assembly a call with `init` finds a matrix
  without a solver and raises.  A product space keeps references to the
  elements of its components' spaces.
* Assembly.  `sym=` is ignored when the name of the solver is not known
  (SparseLinearSolver.cpp:53).  A matrix assembled by half and then with a solver for whole
  matrices, in the same space, stops on `ffassert(!half)` (HashMatrix.cpp:1310): storage is
  chosen only when the space changes (problem.hpp:1703).  `A += A'` and `A += B + A` read terms
  of `A` that have changed.
* Plots.  `SendS` and `SendL` (lgfem.cpp:4290, 4344) send a scalar function without asking
  whether it has values, and the program stops by itself on one that has none (no script has
  one: `ScriptsAssumption`); the loop that collects meshes asks `fe[1]` and `fe[2]` where
  it means `fe3` (4645-4648); `SkipData` reads 8 bytes for the size of an array that
  is written in 4 (PlotStream.hpp:251-273); curves of unequal lengths are asserted
  by the client only (ffglut.cpp:1646); an unknown option stops the client.
* Client.  Control-C is documented as "non-ignorable exit" (ffglut.cpp:2514) and waits
  for the reader, which waits for the program; help says that 10 plots are kept, the code
  keeps 20; the wait of a plot is passed over when another window is redrawn; keys in a
  window without a plot are ignored; with `-wait` the last plot may never be on
  screen before the client leaves.
* Shared memory.  `ffsem_init` removes a file, not a semaphore, before it creates
  (libff-mmap-semaphore.c:131), and does not ask for a new one; an interrupted `sem_wait` ends
  the process and leaves the names; a slave left over from a killed session may
  open the names of the next, which is why `InTurn`, `Answered` and `SessionEnds` ask
  `OnItsOwn`.  A session that takes over semaphores of a killed one is outside of them
  (`StaleSemaphore` shows what may happen to it); `Recovered`, a part of `NamesGivenBack`, says that it is the last
  one that does, as its master takes the names away whoever made them.  The file does not
  recover: it is removed only by the process that found it new, and when that one was
  killed it stays under its name, with the last question and answer in it.
* Quadtree.  Five vertices in one cell of side one split a box for ever
  (FQuadTree.cpp:463-484; `loops` in the model); the half side of the square that
  `ToClose` looks at is truncated (FQuadTree.hpp:122) and misses close vertices of
  the next box when it is less than two units; `NearestVertex` returns the nearest of the
  smallest box around the place, not the nearest.

## Proofs

`HashMatrix_proofs` proves, for all `MaxDim`, `MaxNnz`, `Vals`, `Sources` and
`TransposeFrom` that satisfy `ConstantsAssumption`:

* `TypeCorrect`: `Spec => []TypeOK`.  `TypeOK` is inductive as it stands; it
  includes that every term lies inside the matrix, in either base.
* `TableCorrect`: `Spec => []TableInv`, the property of the run, with `TableInv` the conjunction of
  `TypeOK`, `HashInv` and `NoDuplicate`.  `NoDuplicate` is not inductive alone:
  an insertion is safe only because `find` cannot miss a term, which is
  `HashInv`, and that the bucket of a cell exists needs `TypeOK`.  The steps
  that move terms are covered by lemmas on lists: a rearrangement and a packing
  by an increasing enumeration keep distinct cells distinct.
* `HashCorrect` and `NoDuplicateCorrect`, two parts of it on their own.
* `RoomCorrect`: `Spec => []RoomInv`, from `TypeOK` and the fact that
  `Increaze` always makes room for at least one term more.
* `FormatCorrect`: `Spec => []FormatInv` when only matrices in the default format or COO are
  transposed (from the others it does not hold, see `StalePointer`).  The inductive `FormatIInv`
  says of CSC_U what `FormatInv` does not need: its pointer is that of base 0
  whatever the base is, and when no term is upper all are in the order of the columns.
  A second `CSC_U` sorts again and does not build the pointer again; that it finds the
  same order is `UpperUnique` (an increasing map of 1 .. N onto itself moves nothing),
  which needs `NoDuplicate`.  This case does not occur with two rows and columns, as it
  takes two terms under the diagonal.
* `ContentCorrect`: `Spec => ImplementsSparseMap`.  `ContentMaps` says that, with `TableInv`,
  what `find` shows is the map of the stored terms; after it one lemma per call says which
  step of `SparseMap` it is, and `SameMaps` that sorts, changes of base and growth are none.

A proof of a step has one case per method, and under it one step per conjunct
the method disturbs.

`HashMatrix_proofs` proves too, for all constants of `HashMatrix`, all `Stages`, and whatever
the members that are never set hold (`Garbage` any set of integers), the three properties of the run:

* `CodesCorrect`, `SolveDimensionCorrect`, `FirstSolveIsCurrentCorrect`.  The inductive
  invariant `SolverInv` adds to `CodesInv` the `TypeOK` of the matrix, that its indices
  start at 0, and `StageInv`: a solver at stage 0 has no dimension, `Symbolic` is missing or of the
  dimension of its code, and it is there at stage 3.  `factorizeCodes` is the case analysis of
  `ChangeCodeState` against each stage asked for.  Without `umfpack_di_numeric` refusing a missing
  `Symbolic` it would not hold: a solver at stage 1 (`factorize=1`) whose new code of the
  pattern, never set, is 0 passes over the second stage after a change of values.  The first solve needs that
  a sort leaves `MapOf` as it was (`SameMap`).

`SharedMemory_proofs` proves, for every number of sessions, iterations and failures
that satisfies the assumption on the constants:

* `TypeCorrect`: `Spec => []TypeOK`.
* `TurnsAreKept`: `Spec => []InTurn`.  The inductive invariant adds to `TypeOK` the
  ranges of the handles (`Ranges`: a process past its openings holds a file, and
  another question is written only below the bound) and `TurnInv`: sessions come one
  after the other, nothing is held by a session not yet started, and, while a session
  is on its own, the posts not yet taken plus the processes inside the shared data
  are one (`OneToken`), case by case over the two program counters.
* `AnsweredCorrect`: `Spec => []Answered`.  `Dialogue` says, for each pair of places where
  the master and the slave of a session on its own can be, what each knows of the
  values in the shared memory: which question is asked, which is answered, whether the last
  answer was read.  It needs `Begun` (what the two have in hand before the slave opened the
  names) and the turns.
* `NoNameLeftCorrect`: `Spec => []NoNameLeft`.  `Tidy` says which names and files there are at
  each place of the master while nothing has failed.
* `RecoveredCorrect`: `Spec => []Recovered`, with processes killed anywhere.  `Cleared` follows
  the names from `Delete` of one master (`Removed`, as long as no later one has begun) to
  the openings of the next (`MakesItsOwn`).
* `NamesGivenBackCorrect`: `Spec => []NamesGivenBack`, the property of the run, which is
  `NoNameLeft` and `Recovered` together.

`MatrixOwnership_proofs` proves, for any variables, spaces, memory for solvers and finite
memory for matrices (`OwnershipAssumption`; what is not an object is told apart from
objects):

* `NoDanglingCorrect`, `CountCorrect` and `SolverOfItsMatrixCorrect`:
  `Spec => []NoDangling`, `[]CountInv`, `[]SolverOfItsMatrix`.  The three hold
  together or not at all: that the last owner deletes needs right counters, and
  counters are right only while nobody holds what was deleted.  The inductive
  invariant `Inv` is `HeapOK` (each solver's counter is the number of its users less
  one, a cardinality that a step changes by one), `OwnersBut` (each matrix's counter
  is `Due`: one for its variable, one for a temporary or an exception), and two
  facts `master` counts on without looking: a temporary that can still be assigned,
  or a matrix an exception lost, is held by no variable, and a remembered space
  means there is a matrix.  While a matrix has been made and not yet given to its
  variable its counter is one too many; `OwnersBut` names it, so that the
  order in `master` (take the new one, give the old one up) is followed: lemmas
  `FreshOwners`, `GiveUp` and `TakeOwner`, then one lemma per instruction.

`PlotClient_proofs` proves, for all scripts, windows, lengths of the lists and of the pipe
(the assumptions in `PlotClient`), and whatever the user types:

* `HandOverCorrect`, `InOrderCorrect`, `PlotsAliveCorrect`, `NeverKilledCorrect`.
  No lock orders the two threads, so the invariant says what each may assume of
  the other at every pair of program counters: `Control` does (when a reader may
  be alive, when it holds a plot, what the end of the pipe tells).
  `Ranked` is `InOrder` place by place (what was shown, `nextPlot`, what the reader
  holds, the pipe), from which the sequence follows.  `Increased` and
  `CurrentKept` say that the lists of the windows are increasing and end with the
  plot taken last, so that cutting them at `Keep` spares what is looked at.

`Assembly_proofs` proves, for any space, forms, sums, solvers and number of
instructions:

* `AcceptedCorrect`: `Spec => []Accepted` when `Mixed = FALSE`.  The invariant says that
  each stored matrix is `Fine` (inside the space, below the diagonal when stored
  by half) and that a remembered space means there is a matrix; one
  lemma for each loop says where it puts terms, one for each instruction that it keeps the
  invariant.  `setsdp` is where it is needed: `UnHalf` asserts what all the others kept.
* `ConditionsOnBoundary`: what `SetBC` does to the stored terms, whole or by half, is
  `Constrained` on the matrix they stand for, whenever `TgvFits`.
* `RepresentsCorrect`: `Spec => []Represents` when `Mixed = FALSE`, so that every matrix is the one
  the script has asked for, whatever the number of terms, elements and instructions.  `RepInv`
  adds to the invariant of `AcceptedCorrect` that stored values are counted modulo
  `Modulus`, and is otherwise `Represents` itself.  What it takes is arithmetic: each loop of the code
  adds stored terms one by one, and each operation of the algebra is a sum over
  something else.  `Induction` comes from the library's well-founded minima, stated for a set
  (`S` is all of `Nat`) since a theorem about any predicate cannot be instantiated; from it
  `FiniteInduction`, then the lemmas on `Total`: over a union, by groups, over pairs, of
  multiples, of products (`TotalUnion`, `TotalGroups`, `TotalPairs`, `TotalScaled`,
  `TotalProduct`), and on values modulo `Modulus` (`SameSum`, `SameProduct`, `SameTotal`).
  With these, one lemma per loop: `TermsTotal` (a loop over both triangles meets in each cell what the
  matrix is there), `SumDense`, `ProductDense` (pairs of terms, grouped by where they meet),
  `ElementsDense` (each entry above the diagonal of an element is moved onto the one
  below it), `SymmetricKept` for `Half` and `UnHalf`, `TransposeDense`.

`MPIExchange_proofs` proves, for any ranks, any finite set of requests and any scripts
(`ProgramsAssumption`: a send or a receive names another rank, a wait names requests):

* `BufferAliveCorrect`: `Spec /\ ReusedWhenFree => []BufferAlive`.  Nothing in
  parallelempi.cpp refuses an `mpiRequest` that is still in use: the script has to wait
  first, so that the theorem is about the behaviours in which it did (`ReusedWhenFree`),
  and the run checks that the scripts of the examples are such.  The
  inductive invariant relates each message MPI holds to the table: a first request has an
  entry of the same instruction or memory of the script (`FirstOK`), `rqSecond` lives in
  the entry of a mesh that is sent (`SecondOK`), and the requests a wait has found
  and not treated yet are null and different from one another (`QueueOK`), without
  which treating one could delete the entry of another.
* `WaitAllFinishesCorrect`: `Spec /\ ReusedWhenFree => []WaitAllFinishes`, for scripts in
  which no matrix is posted under a request that a later `mpiWaitAll` names
  (`NoMatrixInAll`; `MatrixWaitAll` shows that it is false with one).  `RankInv` adds to the
  invariant what the two rounds leave: an entry of the table has a message under way or
  is in the queue (`LiveOK`), an entry and a message are under the request of their instruction, and
  are of the same one (`KeyOK`), after the first round only meshes that were asked for their second
  part are left, and in the second only those still in the queue (`RoundsOK`).
* `ReusedWhenFreeCorrect`: `Spec => ReusedWhenFree`, for scripts in which, between two
  posts under one request, there is a wait for the first (`WaitedBetween`: `mpiWait`,
  `mpiWaitAny` of that request alone, or `mpiWaitAll` unless it is a matrix).  This is a condition on the text of
  a script, and those of the runs meet it.  With it, `WaitedIsAlive` is `BufferAlive` without
  the hypothesis on behaviours.
* `RecvIsSentCorrect`: `Spec /\ ReusedWhenFree /\ []PartsInOrder => []RecvIsSent`, the n-th
  object of a kind that a rank receives from another is, with all its parts in order, the
  n-th of that kind the other sent.  A message says nothing of the object it is part
  of, so that the code counts on what `PartsInOrder` states: of two instructions of a kind
  between the same ranks, the later one is not ahead in the messages it has posted, unless the
  earlier one has posted all of its own.  The proof needs it on both sides and
  `MixedMeshes` shows what happens without it.  The inductive
  invariant `FlowInv` says, for each channel, that the sends (receives) that have posted part
  m are the first of those that have a part m, as many as messages sent (receives posted)
  (`SentOK`, `AskedOK`, where `Place` counts the instructions before one); that the request of a
  receive is at its place on its channel (`RequestOK`); that what a receive got is a prefix of the
  parts of its object (`RecvOK`); and that the state in the table counts the messages
  posted (`SendState`, `PostedBy`).  Lemma `Matching` and those on `Place` say which send a
  message is of: the instructions that have a part m keep, among themselves, the order of all
  those that stand for each other, although an object with fewer parts drops out.  Each step then
  either leaves what was posted as it is (`Quiet`), or moves one instruction by one or two parts
  (`Moved`), and there is one lemma per action.
* `InTurnIsReceived`: `Spec => []RecvIsSent`, with conditions on the text of the scripts only:
  `WaitedBetween`, and `InTurn`, that an object of more than one message is waited for before the next of its
  kind for the same rank is posted, unless, as for a mesh sent by `Isend`, its messages
  are all posted at once.  Of the 507 scripts of the run 369 are such.  `PartsInOrder` holds in all of
  them but one, in which both ranks wait for two matrices in the reverse order: its parts
  are matched all the same, which TLC alone shows.

`Problem_proofs` proves, for any problem, meshes, spaces, functions and any finite memory
and variables (`ProblemAssumption`; meshes, spaces and what is neither are told apart):

* `CountCorrect`, `SpacesOfCallCorrect`, `ValuesFitCorrect`, and two theorems about the
  meshes of the matrix: `SolvesItsMeshCorrect`, that a problem that is not composite solves
  on the meshes of now whatever the allocator does with addresses, and
  `SolvesThisMeshCorrect`, that all do when an address is not used again (`~Recycle`, without
  which `ChangedMesh` is the counterexample).
  The inductive invariant `Inv` says that the counter of each object is one less than
  what its owners weigh (`Counted`; a space that lives owns its mesh), that the two kinds of
  objects stay apart and named (`Separate`, `Named`); that a living space on the mesh of
  now is the one of its variable, so that no space is made twice (`Followed`); that the
  spaces a problem keeps lie on the mesh whose address it keeps (`Kept`); what each step of
  the call may count on (`UpToDate`, `Recorded`, `Assembled`); that the matrix is of the
  meshes kept (`Current`); and that arrays are of the size of their spaces (`Fit`).
  The counters are what makes the comparison of addresses right: a problem that
  is not composite owns a space, which owns the mesh, whose address is then
  not given to another one.  One lemma per action.

`Interpreter_proofs` proves, for all scripts of the grammar (`NodesAssumption`), however deep
their calls, loops and blocks:

* `FramesAreRestored`: `Spec /\ []EnoughMemory => []FrameRestored`.  `EnoughMemory` says that
  the bounds of the model are not met: there is an object for each value and, when a function
  is called, a list for the call (it holds in the run).  The inductive invariant `FrameInv`
  relates three things the code never compares: a frame of a list or a loop counts on the
  `where` and `param` of now, or on those that the call which suspended it will restore
  (`StackOK`, with `SuspendedBy`); the lists of the calls grow younger along the
  stack, and a list is a temporary of an older one, so that `Within`, what a clean destroys
  with a list, is exactly the younger ones (`Rooted`, `WithinIsYounger`); the parameters of a
  function are a temporary of its caller (`Passed`), no object is in two lists and none of a list
  was deleted (`MemoryOK`).  Lemmas `PushFrame`, `PopFrame`, `PushCall`, `PopCall` on the stack and
  `CleanMemory`, `MakeTemporary`, `CallMemory` on the memory, then one per action.
* `ValuesAreAlive`: `Spec /\ []EnoughMemory => []ValueAlive`, for scripts in which no
  instruction that runs in a loop returns an object (`NoReturnIn`: a set with the bodies of loops, closed
  under their blocks and `try`, has no `return` of an expression; those of the run are
  such, those of `LoopReturn` are not).  `ValueInv` adds to `FrameInv` that
  an operand that waits is in a list older than those of the calls in the other operand
  (`Safe`), that instructions between it and the top of the stack are those of a
  function called in the other operand (`Nested`), so that no list of its own function is cleaned meanwhile,
  and that what a loop runs throws no value (`LoopsFree`, `NowFree`).
* `DeletedOnceCorrect`: `Spec /\ []EnoughMemory /\ []FailsFirst => []DeletedOnce`, for scripts that
  satisfy `Scoped(V)` for some `V`, which gives each node a set with the variables it declares: a variable
  is declared by one instruction of a block, outside the body of a `try`, and by nothing that runs before
  the block has ended.  `FailsFirst` says that an initial value that fails is that of a
  variable which never had one; without it the block deletes the object of the turn before a
  second time (see the conditions on scripts).  The 1260 scripts of the run satisfy
  both, as TLC confirms.  `OwnerInv` adds to `FrameInv` what no variable of the program records:
  an object that is not deleted is a temporary of a list or belongs to a variable, and a variable
  has one exactly while a block of the stack holds it (`OwnedOK`), that is, has passed its
  declaration (`Held`, `Past`); the frames above a block declare none of its variables
  (`Scopes`, `Inside`, from which `NotAgain`); and `lsldel`, which counts the declaration reached even when it
  failed, then counts no object (`FailedOK`, `DestroyedHeld`).
  Lemmas on the stack (`PushScope`, `PopScope`, `HeldPush`, `HeldUnder`, `HeldInit`, `HeldClose`),
  on the memory (`OwnedTemporary`, `OwnedVariable`, `OwnedClean`, `OwnedDelete`), then one per action.

Only checked by TLC:
`RecvIsSent` in `MPIExchange` for a script that does not keep to `PartsInOrder`;
`BuiltIsSent` and `LostByCutOnly` in
`PlotStream`, whose records are computed whole by recursion over the plot; everything about liveness (`AllEnds`, `AllShown`, `Terminates`, `Delivered`,
`SessionEnds`), as liveness under fairness and `ENABLED` are out of TLAPS's
reach.  `QuadTree` is recursive and cannot be proved about.

## Not modelled, and why

* In `HashMatrix`: `RemoveDoubleij`, `do2Triangular`, `SymmetrizePattern`,
  `CSR_L` (never called), the lock (never set), the products and the assembly
  methods (they are in `Assembly`), more than 2^31 terms.
* In `UmfpackSolver`: other solvers of the family; the contents of freed arrays
  that `dosolver` may pass to UMFPACK (`held` says when).
* In `Assembly`: complex values (and the conjugates of `half = 1`), rectangular and block matrices,
  several spaces, int on different meshes, assembly shared by MPI ranks, the right-hand
  side, thresholds, integrals (an elementary matrix is a constant).
* In `MatrixOwnership`: arrays of matrices, matrices returned by functions
  (`ClearReturn`), composite spaces.
* In `Problem`: assembly loops and boundary conditions (see `Assembly`), `varf`, eigenvalue calls, the sparse
  blocks of composite problems with boundary elements (they are added again on
  each call, compositeFESpace.cpp:1608).
* In `PlotClient` and `PlotStream`: drawing, colours, the mouse, PostScript, `ffgraphics`; a stream
  to a file.
* In `SharedMemory`: `trywait`, `msync`, the Windows branch, two masters at once.
* In `QuadTree`: `NearestVertexWithNormal`, trees in three dimensions, the depth of the
  stacks of the searches.
* In `Interpreter`: types and overloading, `if`, the conditions of loops, the
  room for small temporaries (ffstack.hpp:239), `debugstack`, `break` outside of a
  loop of its function.
* In `MPIExchange`: collectives, groups and communicators, the failure of a
  rank, blocking reception of a null mesh (it aborts by `ffassert`), the content
  of the objects.
* The other components of the table: reasons are in `PROJECT.json`.

## Plan

Done, in this order: `HashMatrix` with `SparseMap` and its first theorems,
`UmfpackSolver`, `MatrixOwnership`, `MPIExchange`, `Interpreter`; then `PlotClient`,
`PlotStream`, `SharedMemory` with its theorems, `QuadTree`, `Problem`; then the theorems of
`PlotClient` and `MatrixOwnership`; then `Assembly` with its theorems; then the
theorems of `UmfpackSolver` and `MPIExchange`; then those of `Problem`, `Interpreter` and the rest of
`SharedMemory` and `HashMatrix`; then `Represents` of `Assembly`, `RecvIsSent` of `MPIExchange` and
`DeletedOnce` of `Interpreter`.

Next, in this order:

1. Proofs: what both ends of `PlotStream` agree on, with a sender that writes part by part;
   in `Interpreter`, a condition on scripts alone that gives `FailsFirst`.
2. `Lexer`: the stack of inputs and the parameters of macros.
3. `MatrixOwnership` with arrays of matrices and `ClearReturn`; the other
   solvers in `UmfpackSolver` with the value of freed memory.
