# BBQ in TLA+

A verification development for BBQ: a grammar language for binary formats, a
compiler that turns a grammar into a graph of continuations, a CEK machine that
runs the graph on a byte string, the copy-on-write document the parse yields,
and the runtime libraries under them. The modules here model the machine, the
document while it is built and while it is edited, the compiler's code
generation scheme and the part of the semantic analysis it relies on, three
containers, an e-graph and a code buffer; compare what they do with reference
semantics and abstract specifications; and prove the main safety properties for
every value of the parameters.

Paths without a directory are relative to `src/`. `PROJECT.json` maps every
definition to the lines it models and lists components, runs, mutants, hazards,
findings and theorems.

## 1. Inventory

| Component | Where | State | Operations |
|---|---|---|---|
| CEK machine | `backends/cek/Machine.{h,cpp}`, `Frame.h`, `Environment.h` | cursor, bound stack (`interval_starts/ends`, `interval_depth`), byte order, environment chain, frame chain, continuation stack, accumulator, furthest error, failed flag | `execute_from`, one `invoke()` per continuation kind, `fail()` |
| CEK grammar compiler | `backends/cek/bbq.ddcg` | scope chain `rho`, the emitted graph | one rule per AST constructor |
| Semantic analysis | `frontend/Sema.cpp` | rule table, dependencies, errors | `validate_type`, `may_read_nothing`, `topological_sort` and four more phases |
| Document builder | `backends/cpp/runtime/CaptureCow.h`, class `builder` | half-built tree, open scopes, pending variant tag and count field | `begin_*`, `end_*`, `add_field`, `make_free`, annotations, `mark`/`restore`, lookups |
| Copy-on-write document | same file, classes `document`, `transient` | shared persistent nodes with owner tokens, determined fields | path-copying edits, `commit`, `serialize` (both settle counts and window sizes) |
| Container library | `crt` | budgets, hash maps, hash trees, dictionaries, vectors, arenas, sticky `oom` flags | put/get/delete/grow/iterate under an allocator that may refuse |
| E-graph | `burgc/runtime/egraph.c` | union-find, hashcons, classes, facts, worklist | `eg_add`, `eg_merge`, `eg_rebuild`, extraction |
| Code buffer | `jitterator/runtime/jit_codebuf.h` | a mapping, its size and phase flags | reserve, emit, patch, seal, finalize, reset |
| C and C++ readers | `backends/c/runtime`, `backends/cpp/runtime/bbq_reader.h` | cursor and bound stack of generated parsers | primitive reads, push/pop of bounds, errors |
| Frontend parser | `frontend/Parser.cpp`, `grammar` | AST | generated from `BBQ.peg` |
| Render backends | `backends/render` | none | text generation |
| burgc, pegc, asdl, ddcgc, opgen | same names | memo table and left-recursion seeds in pegc's runtime, otherwise none | generators of matchers, parsers, classes, compilers, tables |
| Bindings, tools | `bindings`, `tools` | none of their own | glue |

How they interact. `bbqc` parses a grammar and analyses it (Sema refuses what
the rest cannot carry); the CEK path compiles it (`bbq.ddcg`) into immutable
`KontNode`s that point at each other. `execute_from` pushes a rule's entry node
on the continuation stack K and runs a trampoline: pop a node, call its
`invoke`, which reads and writes the machine's registers, pushes at most a few
nodes, and calls the builder. The parse leaves a `document`; a `transient` begun
on it edits a private version and commits to a new document. The containers, the
e-graph and the code buffer serve the generators and the code they generate.

There is no thread and no persistence in these paths. What makes them hard:

- **Speculation.** Every choice, optional and resync array begins an attempt that
  may fail at any later step, in any rule it has called, and must then be undone
  in seven places at once (cursor, bound stack, environment, byte order, K, frame
  chain, builder). A `Savepoint` on the frame chain records what to restore;
  `fail()` walks the chain to the innermost one, while a failing `where`-check
  jumps to a handler the compiler resolved from `rho`. The two must agree.
- **Windows and unchecked moves.** Reads and recorded spans stay in the innermost
  interval; slots above `interval_depth` are reused; `AdvancePos` moves the
  cursor with no check of its own.
- **Termination.** The machine checks nothing: that eof, until and resync loops
  and recursive rules end rests on what Sema has refused.
- **Sharing.** Several transients and documents share nodes; an owner token decides
  who may write in place.
- **Derived fields.** Counts and window sizes are recomputed in one walk over a
  tree that the walk itself changes, with encodings whose length depends on the
  value.
- **Refused allocations.** Any `malloc`, `mmap` or `mprotect` may fail in the middle of
  an operation that has already changed something.
- **Fixpoints.** Rebuilding an e-graph and pricing its classes repeat until nothing
  changes, on graphs with cycles.
- **Boundaries.** Counts of zero, empty windows, the last byte of a window, a table
  at its load limit, a varint at a width change, a displacement at its reach.

`PROJECT.json` lists each of these at the line where it bites ("hazards") with
the properties that would catch it, and those that no property covers yet.

## 2. Modules

    Builder ── Konts ── CEK ── CEKProps ── CEKInv ──┬── CEKProofs
       │                                            └── Scoping ─┬── ScopeProofs
       └── IPG   Sema   Compile    Grammars ─────────────────────┴── MCCEK
    Document ── Layouts ── DocumentLaws ── MCDocument         DocumentProofs
    HMap ── MCHMap, HMapProofs               FiniteMap (abstract)      Minima
    HTree ── Dict ── MCDict, DictProofs
    EGraph ── Extraction ── MCEGraph, EGraphProofs
    CodeBuf ── MCCodeBuf                     CodeBufProofs

| Module | Models | How |
|---|---|---|
| `Builder` | class `builder` | Operators from a builder to a builder. A node pointer is an index into `nodes`, which only grows: nodes the code frees on restore stay, unreachable. Lookups return the set of nodes found, `{}` for `nullptr`. |
| `Konts` | `bbq_ir.asdl`, the node classes | What a well-formed program is (`KontOK`: every link leads to a node of the right kind; `DebtOK`: see 5), as assumptions on the constant `Prog`. |
| `CEK` | `Machine.cpp` | One action per `invoke()`. `Control(role, kind)` is the trampoline's pop. |
| `Compile` | `bbq.ddcg` | One operator per compiled constructor, taking the graph so far, `rho` and the successor, as the rules do. Recursive, so only TLC uses it. |
| `Sema` | `Sema.cpp`, the structural refusals | What is refused of arrays that only the input bounds, of recursion, of bitfields. The later phases (references, types of expressions) are left out, so more is accepted here than there. |
| `IPG` | `docs/Laws.md`, `docs/Grammar.md` | A big-step reference semantics: a parse is a function from rule and bytes to failure or a document. No frames, savepoints or continuations, and no use of `CEK` or `Compile`. |
| `CEKProps`, `CEKInv` | | The machine's properties; the inductive invariant `IInv`. |
| `Scoping` | how `bbq.ddcg` nests what it opens | What is open at each kont (`Scope`), what a link may do to it (`WellScoped`), and what the machine then keeps (`WellNested`; `SInv` is `IInv` and it). |
| `Grammars`, `MCCEK` | | Grammars and inputs for TLC; `AgreesWithIPG`. |
| `Document` | classes `document`, `transient` | A heap of nodes, the committed documents and a transient per slot. Edits are one action each; `commit` and `serialize` begin a walk (`reconcile`) whose every step is an action, the explicit stack included. Serialization (`Emit`, `Patch`) is a function of heap and root. |
| `Layouts` | what the generated reader records | Small grammars (counts, `@rest` windows, varints, gaps) and parses by them: the trees documents start from, and the judge of what they emit. |
| `DocumentLaws`, `MCDocument` | | The laws of editing; the documents checked. |
| `HMap` | `bbq_hmap.c`, the budget of `bbq_alloc.c` | What a budget grants, over an allocator that may refuse. Open addressing with linear probing. Growth is one step per entry, then the put resumes. `size_t` is `0 .. SIZE_MAX`. |
| `HTree`, `Dict` | `bbq_htree.c`, `bbq_dict.c` | The nibble tree as operators on sets of prefixes; the dictionary with chains for colliding hashes, refusal at every allocation of a split, the walk back up of a delete and an iterator held across calls. |
| `FiniteMap` | | What both maps promise: a finite map whose every call takes effect or is refused and remembered. |
| `EGraph` | `egraph.c` | Interning, merging, the repair pass node by node, `analysis_restore`, `modify` through a constant-folding analysis, every allocation refusable. `means` is a ghost: what the term a class was made for denotes. |
| `Extraction` | `egraph.c` from line 515 | The cost fixpoint with an exclusion and the walk that lays the term out. |
| `CodeBuf` | `jit_codebuf.h` | The buffer in units of a 32-bit field; a mapping may move when it grows; the kernel may refuse anything. `units` and `patches` record what was asked. |
| `Minima` | | Least elements of sets of naturals, for the proofs about searches. |
| `*Proofs` | | The theorems, each beside its component. |

Correspondence of state. *Machine*: `pos`, `slots`/`depth` (`interval_starts/ends`
and `interval_depth`, stale slots kept), `le` (`little_endian`), `env` (the
environment chain as a sequence), `frames` (the frame chain, `frame_top` last),
`K` (`kont_stack`), `ac` (`result`), `builder`, `best` (`best_error_pos`),
`failed`. `job` is the call of `execute_from`: entry node, bytes, byte order; it
never changes. *Document*: a node record keeps the fields of `node`, its value as
`ival` or `bval` with `parsed` for "still as it is in the source", `derives` and
`determines`, and `owner`; `edits[e].stack` is `reconcile`'s stack. *E-graph*:
`canon` is `eg_find` of every id (halving a path changes nothing else), `filed`
the set of nodes in the hashcons. *Code buffer*: the struct's own fields.

Encodings that a reader of the code should know:

- *Dynamic continuations.* The code allocates `ApplyAddKont`,
  `BeginArrayWithLimitKont`, `CallArgStoreKont` and the like per use, copying
  fields of the static node that pushes them. Here such a kont is the static
  node's number with a role (`apply`, `left`, `arg`, `norm`) and value slots.
  `EvalLeft` writes into the apply kont under it, as the code writes through a
  pointer to it.
- *Frames* are immutable in the model's chain apart from the top ones the code
  mutates (`counter`, `on_fail_target`, the Savepoint a resync refreshes), which
  the actions rewrite in place.
- *Null pointers* are `Nil`, `""`, `<<>>`, `{}` or 0; a jump through a null `rho`
  link is `fail()` in the code and in the model.
- *Owning a leaf.* A caller walks down with `own_child`, an action that owns a
  container and moves the caller's cursor to it; a leaf is owned in the same action
  that writes it. In the code owning a leaf without writing it still commits it to
  its in-memory value: `OwningALeafIsACommitmentToWriteIt`
  (`test/bbq_document_test.cpp:773`) documents that, so the model's callers write.
- *Mutants* in the modules carry that word or "a mistake" in their comment; they
  are used by no action.

Abstractions, and where they could hide something:

- Expression values are integers; the code's are `int64_t`. Primitives are at
  most 32 bits wide, LEB128 at most 32 bits, bitfield entries at most 30 bits.
  Overflow is therefore *not* modelled (a hazard without a property).
- No floating point, no bitwise operators, no 64-bit primitives. In `Document`
  the leaves are one-byte integers, booleans, unsigned varints and byte runs.
- A byte has `Base` = 8 values in `Document`'s runs, so a varint changes width at
  4 and a count overflows at 8: the limits are in reach of a few edits.
- Error messages are left out, the furthest error position is kept.
- The string pool is interning: names are strings, a computed string value is
  its number in the pool.
- An external parser consumes a fixed number of bytes, or fails when the window
  does not hold them (`ExternParse`): it is assumed to report no more than the
  bytes it was handed, which the machine does not check.
- Memory: the parse arena never fails, builder nodes are never reused. The
  dictionary's and the tree's `uint32_t` generations are compared for equality
  only and do not wrap in the model.
- The dictionary's hash is any of the functions in `Hashes`; key lengths and
  `clone` are left out.

The machine model's outcomes (accepted or not, bytes consumed, document with
spans, types, values and tags) were compared with those of the machine compiled
from this source on 12,148 inputs of the grammars in `Grammars`; there was no
difference, the disagreements of section 4 included.

## 3. Runs

Passing runs. States are distinct states.

| Run | Instance | Checks | States |
|---|---|---|---|
| `MCMachine` | Scalars (all widths, signs and byte orders, LEB128, bitfields, expressions, paths), choices (alternatives, optionals, switches, where-checks, nested and across rules), windows (absolute and relative, nested, in and around choices, `@rest`, `seek`, external parsers, per-element intervals), arrays (`[n]`, `count`, `until`, `eof`, separators, resync) | `SInv`, `InBuffer`, `StackOnlyShrinks`, `Confined`, `SavedWindowsIntact`, `TopLevelReturnHasNoCaller`, `StaticDispatchIsDynamic`, `NothingLeftOpen`, `AgreesWithIPG` | 367,723 |
| `MCEnds` | What `Sema` accepts of the array grammars, 80 generated loop grammars and 6 recursive ones, on all inputs of length <= 3 over 0..2 | `LoopsAreFed`, `CallsAreFed`, `Termination` | 46,227 |
| `MCVersions` | A counted array, two transients, up to three nested versions, all six kinds of edit | `IInv`, `Persistent`, `FrozenStep` | 135,103 |
| `MCLaws` | A `@rest` size over a header with a count over an array of one-byte elements, three writes and serializations | `Accepted`, `WriteBack` | 375,373 |
| `MCSettle` | A byte run in a varint window in a one-byte window, and a struct with bytes no field covers; two transients one after the other, two writes each | `Accepted`, `SameAnswer`, `GapsKept`, `WalkEnds` | 130,421 |
| `MCHMap` | Four keys on two chains, 7-bit `size_t`, a budget that refuses any of the three arrays | `IInv`, `ProbesEnd`, `NothingLeaks`, `ImplementsFiniteMap` | 3,821 |
| `MCDict` | Three keys, hashes of three binary nibbles: 25 hash functions, every way three keys share, part and collide | `ShapeIsItsKeys`, `NothingLeaks`, `OnceEachInOrder`, `ImplementsFiniteMap` | 24,666 |
| `MCEGraph` | Terms over two bits, a free binary operator, the constant-folding analysis of the repository's tests, up to four nodes | `WInv`, `Congruent`, `Kept`, `FactsExact`, `Cheapest`, `Extracted`, `CallsEnd` | 639,240 |
| `MCCodeBuf` | Pages of two units, up to three of them, at one of two addresses; a near and a far native | `HandedOutIsWhatWasAsked`, `DisplacementsPinIt` | 167,527 |

What the machine runs show. `Compile` turns each grammar of a list into one
program, and TLC starts the machine at each rule on each of a set of byte strings.
The machine is deterministic, so a run explores as many straight paths as there
are jobs; what varies is data, and every failure point of every attempt is reached
by some input. `Prog`, `Jobs` and `Meaning` (what `IPG` makes of each job) are
computed once, before the first state. `AgreesWithIPG` is the main result: when
the machine halts, it has failed exactly when the grammar's meaning is failure,
and otherwise has consumed the same bytes and built the same document.
`SavedWindowsIntact` is why restoring `interval_depth` alone is enough.
`StaticDispatchIsDynamic` is the claim of the comment at
`backends/cek/Machine.cpp:997-1001`, `TopLevelReturnHasNoCaller` that of lines
1612-1620; both are false of some grammars (section 4).

`MCEnds` composes the analysis with the machine: only what `Sema!analyze` accepts
is compiled and run. `LoopsAreFed` and `CallsAreFed` are measures: an
input-bounded loop turns at most once per byte and once more, and a call site is
pending at most that often. They turn "spins for ever" into a state TLC can show.

What the document runs show. *Accepted*: whatever was edited, the bytes `commit`
and `serialize` put out parse, whole, to the value the tree reads as. It holds of
the documents of these runs; `MCInnerWindow`, `MCCountTooBig` and `MCShadowedCount`
are documents of which it does not (section 4). *WriteBack*:
a version that reads as the one it was edited from is the same bytes. *SameAnswer*:
a second serialize, and the commit, answer as the first. *GapsKept*: edits that
resize nothing change only the bytes of the leaves they change. *Persistent* and
*FrozenStep*: no committed document's bytes, and no node without a live owner,
ever change. `MCSettle` crosses a width change of the inner length in both
directions, which is where the outer one has to follow.

What the others show. Both maps refine `FiniteMap`: through growth, chains,
refusals and the walk back up of a delete, the abstract map changes in one step or
not at all. The tree's shape is a function of its key set (`ShapeIsItsKeys`), so it
does not remember the order of insertions. In the e-graph, nothing unequal is
equated even when an operation is cut short by a refusal; with nothing refused, a
rebuild leaves no two congruent nodes in different classes. What the code buffer
hands out is what was asked, whatever was refused on the way.

Bounds, and why they are enough.

- *Machine.* The interesting cases are orderings of success and failure along a
  nest of constructs, so an alphabet needs one byte that satisfies each check, one
  that does not, and the small numbers that serve as counts, lengths and offsets on
  both sides of every limit; the length must reach the end of the longest attempt
  and one byte beyond. Alphabets of four or five bytes and lengths up to seven do
  that for grammars at most three constructs deep. Left out: large values, long
  inputs, deeper nests, grammars of another shape.
- `NodesBounded` (`MaxNodes` = 40 builder nodes) constrains `MCEnds` so that a
  machine that loops could not grow the model without end; no state meets it
  (checked as an invariant on the same instance), so it excludes nothing.
- *Document.* `MaxEdits` transients, `MaxOps` writes through each, `MaxBytes` = 16
  for a measured window (larger than any these documents reach), `MaxDepth` = 3
  levels (the deepest here). `Fields`, `Elems`, `Values`, `Blobs` are what a caller
  writes. `MCVersions` uses the symmetry of the two slots.
- *HMap.* `SIZE_MAX` = 127 puts the last table that fits `size_t` at 8 slots and the
  wrap of the load test in reach; `InitCaps` includes 0 and one that has no power of
  two above it; `Limit` = 230 holds a table of 8 and one of 4 and no more.
- *Dict.* With three keys there is a fork under a fork, a chain beside a leaf and a
  chain of three. The symmetry `ValsAlike` swaps the two values. A stale iterator
  is forgotten: its only answer is that it stops.
- *E-graph.* `MaxNodes` = 4 nodes allow congruence to propagate upward twice and a
  class to contain itself. `FactRounds` = 64 is the code's own limit. A caller
  plans an extraction only of a graph with nothing refused and no call under way.
- *Code buffer.* `MaxCap` and `MaxAsked` bound a mapping and what is asked; `Reach`
  = 12 puts one native within a displacement's range and one outside it. A buffer
  may be reset at any time, finalized or not, and patched after it is finalized;
  a write that meets a mapping without write access ends the run (`fault`), as the
  hardware ends the program.

`CHECK_DEADLOCK FALSE` where a client may simply stop calling. In the machine runs
deadlock is checked: a halted machine stutters by an explicit disjunct of `Next`,
so a kont no action handles would be reported.

Fairness. `execute_from` is one sequential loop that nothing else can delay, so an
enabled `Step` of the machine is taken (`WF_vars(Step)`), and `Termination` needs
nothing more. A transient that has entered `commit` or `serialize` keeps walking
(`MCSettle`, `FairSpec`), and an e-graph that has entered `eg_rebuild`, `modify` or
an extraction keeps running (`XFairSpec`): each is a function call of one thread,
which nothing else can delay until it returns (`Entered`).
No fairness is assumed of callers.

## 4. Where code and documentation disagree

Each has a run that fails. Three are listed as runs, each reproduced with a
program built from this source; the others are kept as .cfg files to be run by
hand. Those of the machine and of Sema (`MCLoopLeft`, `MCSpin`, the six of `MCOdds`,
`MCNeverTried`, `MCItself`) were reproduced with the machine, that of the code buffer
(`MCRestamp`) with a program of six calls; those of the document and the hash map
come from the model alone.

| Run | What happens | Says otherwise |
|---|---|---|
| `MCLoopLeft` (listed) | `OnFail` keeps its Savepoint but leaves frames above it. A `where` that fails inside an array element of one arm leaves the array's Loop frame on top for the next arm; `CommitChoice` then pops nothing, and the called rule's `ReturnRule` goes to Halt. `01 02 07` is "accepted" after one byte. | `Machine.cpp:1615` |
| `MCSpin` (listed) | `may_read_nothing` takes every scalar for progress, though under an absolute interval it seeks back: `array<struct { v: uint8[0, 1] }>(none, eof)` is accepted and parses for ever. | `docs/Laws.md:236-238` |
| `MCRestamp` (listed) | `jcb_reset` keeps the mapping and its protection: a driver that stamps again after a finalize writes to pages that are not writable, and faults (`WritesAreWritable`). `CodeBuffer::reset` of `jitterator.h:96-107`, its C++ counterpart, gives write access back. | `jit_codebuf.h:80-83`, `codebuf_test.cpp:186, 192` |
| `MCInnerWindow` | A count that lies in an earlier struct with a `@rest` size of its own is settled after that size was: the emitted size is stale when the count's encoding grows. | `CaptureCow.h:645, 653-656` |
| `MCOdds` `ScanNested` | The same stale Loop frame in `ResyncKont` makes a later well-formed record fail. | `docs/Grammar.md:220-222` |
| `MCOdds` `ScanCount` | In a resync array with `count(N)`, `ArrayCountCheck` finds the element's Savepoint on top and fails every element. | `docs/Grammar.md:229-230` |
| `MCOdds` `TagLeak` | `restore` leaves the pending variant tag armed: the tag of a failed switch arm ends on a node of another construct. | `CaptureCow.h:1219-1221` |
| `MCOdds` `CountShadow` | `count(n)` is evaluated again after each element, where a field of the element named `n` shadows the bound. | `docs/Laws.md:240-241` |
| `MCOdds` `Terminated` | An array terminated by a type compiles to eof mode: the terminator is never tried. | `docs/Grammar.md:188` |
| `MCOdds` `LastArm` | The last arm of a choice is compiled under the enclosing `rho`; a failing check in it jumps to the enclosing choice's handler while its own Savepoint is innermost. | `Machine.cpp:997-1001` |
| `MCNeverTried` | Sema does not count a type terminator as unbounded, the compiler makes it eof: an element that reads nothing spins. | `docs/Laws.md:236-238` |
| `MCItself` | An array element guards recursion because its count may be 0; a literal count 1 never is, and `S = struct { xs: array<S>[1] }` calls itself until memory ends. | comment in `Sema.cpp`, array case of `validate_type` |
| `MCCountTooBig` | `set_derived` writes a count without the range check of `set_int`: one element too many commits with a count of 0. | `CaptureCow.h:644-645` |
| `MCShadowedCount` | `resolve` searches all fields of the innermost struct, those after the array too; the parser saw only those before. | `CaptureCow.h:885-886` |
| `MCPaddedCount` | A non-minimal count that an append and a remove leave as parsed is re-encoded by the first serialize and restored by the second. | `test/bbq_document_test.cpp:1247` |
| `MCLifted` | A node lifted out of another document is emitted from this document's bytes. | `CaptureCow.h:756-760` |
| `MCCallerCount` | A count is settled only when its array was resized; a caller may write it and leave it wrong. | `test/bbq_document_test.cpp:1186-1187` |
| `MCLengthWindow` | A `[len]` window records its field as the length of all that follows in the struct; editing a field behind the window rewrites `len`. | `Machine.cpp:1798-1803` |
| `MCVarintGap` | A varint written at its old width counts as a change of length, and re-emission drops bytes no field covers. | `docs/PyModule.md:106` |
| `MCHMapRefused` | Replacing the value of a present key is refused when the growth it does not need is: `bbq_hmap_put` tests the load first. | `crt/bbq_hmap.h:87` |

`MCOdds` runs six grammars at once: `tlc -continue` reports all six, the last as a
violation of `StaticDispatchIsDynamic`, the others of `AgreesWithIPG`.

Also seen while modelling, outside any run: the fault injector of `bbq_alloc.c`
counts refused requests as served (`bbq_alloc.c:112` against the comment at
`bbq_alloc.h:94`). `AResizeDropsBytesNoFieldCovers` is a tested and documented
limitation and no disagreement.

## 5. Proofs

Seven modules hold theorems, `Minima` only lemmas. Every theorem is for all values of the constants under the named assumptions, which TLC
evaluates on every run.

**Machine** (`CEKProofs`): `Invariance` (`IInv`), `TypeCorrect`, `StaysInBuffer`,
`TruncationShrinks`. Assumptions (`Konts`): `ProgAssumption` (the links of each
node lead to nodes of the kinds the compiler puts there), `JobsAssumption`,
`ExternAssumption` (an external parser consumes a natural number of bytes),
`ScaleAssumption` (powers of two up to 2^30 are positive: the provers do not
compute them). None of the three is inductive; two facts carry them:

1. *The shape of K.* K holds one spine kont at the bottom; everything above it is
   part of an expression being evaluated for it, or a failure handler. `GoodStack`
   says so. A Savepoint is pushed by spine konts only, hence on an otherwise empty
   K, hence `ksize = 0`: truncation never pads. The same shape gives the types of
   `ac` and the value slots.
2. *The debt.* A bitfield's `ExtractBits` checks that its container fits, the
   members read it in place, and `AdvancePos` steps over it at the end with no
   check. Each spine kont *owes* a number of bytes (`owes`): only `ExtractBits` may
   hand a debt on, only `AdvancePos` pays, everything between passes it along
   (`DebtOK`). `IInv` has every kont on K owing at most `Len(input) - pos`; nothing
   that passes a debt moves the cursor, and a failure handler owes nothing.

**Nesting** (`ScopeProofs`): `ScopesHold` (`SInv`), `StaysConfined` (`Confined`),
`SavedWindowsStay` (`SavedWindowsIntact`), `ReturnsAtTopLevel`
(`TopLevelReturnHasNoCaller`), `StaticDispatch` (`StaticDispatchIsDynamic`),
`EverythingCloses` (`NothingLeftOpen`). These five properties are false of some
programs the compiler emits (`MCLoopLeft`, `MCOdds`), so they need more than that
the links lead to nodes of the right kinds. `Scope` says of each kont what its rule
has open when it runs: the Loop frames and Savepoints in the order they were
pushed, the number of windows, the number of document nodes. `WellScoped` is the
discipline: each link of a kont leads to one whose scope is the kont's own with what
the kont opens or closes (`After`, `InArray`); a kont that drops a Savepoint stands
on one; a handler that `where`-checks jump to names the innermost Savepoint, and one
that leaves frames where they are (`Pops` is false of it) names the top frame. The
first half of that last clause is what `LastArm` of section 4 breaks, the second what
`MCLoopLeft` and `ScanNested` do: a Loop frame above the Savepoint. `WellScoped` is a
hypothesis of the six theorems and no assumption of the module,
because not every program obeys it; that those of `MCMachine` do is evaluated by TLC
(`ScopeAssumption`, with the scopes `MCScope` spreads from the rule entries), so the
hypothesis is met by programs with every construct the compiler has.

`IInv` alone is not enough, and neither is any of the five properties. `WellNested`
ties the registers to the scopes: the frames above the innermost Return frame are
the scope's frames in order, the depth and the number of open nodes are those
recorded at the call plus the scope's (`Holds`); each frame was pushed in the scope
of its handler, or of the kont it returns to (`FrameFits`), and whatever a frame
would restore is a part of what is open above it (`Under`); a handler about to run
finds the Savepoint that names it (`HandlerReady`); windows lie in one another and a
saved cursor in its saved window (`WindowsFit`). Failure is where it earns its keep:
`OnFail`, `Resync` and `AbortRule` cut the chain at a frame far below, and `FrameFits`
says what holds there. The proof has a lemma per action; those about the chain
(`ChainAppend`, `ChainPrefix`, `OverPrefix`) are shared by all of them.

**Document** (`DocumentProofs`): `DocumentInvariant` (`IInv`), `VersionsIsolated`
(`Isolated`), `FrozenForEver` (`FrozenStep`). `IInv` is type correctness, fresh
tokens (no node is owned by an id not yet given out), handles that point at nodes
their transient owns, and isolation (a node owned by a live transient is reached
from no other root). The heap only grows and a write changes only owned nodes: a
lemma per heap operation (`Own`, `Put`, `OwnKid`, `MarkDirty`, append) says that it
keeps `HeapOK` and *evolves* the heap (nothing frozen changes, nothing is lost); a
lemma per action then follows from those. `Minima` serves `resolve` and the
lookups, which search for a first.

**HMap** (`HMapProofs`): `HMapInvariant`, `ProbesAlwaysEnd`, `LenAndBytes`,
`ImplementsMap`. The invariant says that every entry sits where a probe for its key
stops, in the table and, while it grows, in the old and the new one together, and
that a table is never full. A probe's stop is a minimum over the slots from the
hash on; placing an entry at a free stop disturbs no other probe. The refinement
maps the entries of both tables to one function.

**Dict** (`DictProofs`): `DictTypes` (`TypeOK`), `NothingEverLeaks` (`NothingLeaks`),
`DictImplementsMap` (`ImplementsFiniteMap`), `ShapeIsTheKeys` (`ShapeIsItsKeys`),
`EachOnceInOrder` (`OnceEachInOrder`): all the run checks, for every radix, number of
nibbles, set of keys and hash function, colliding ones included. `RadixAssumption`
and `DictAssumption` are all they rest on. None of the five properties is inductive.

1. *The tree* (`TreeOK`). A leaf lies on the path of its own key, everything above it
   is interior, every interior position has a leaf below it, and no position is both.
   From this a descent stops where `Level` says, and a leaf is found under its key
   and no other. `TableOK` adds the chains: never empty, of entries of the leaf's hash,
   no key twice. A lemma per operation on trees (a leaf put, a split, an unlink, a
   collapse) says that the result is a tree and what its leaves hold, as a set of
   records (`Held`) that forgets where they are: the maps follow from that alone.
2. *Forks* (`Shaped`). Between calls every interior position has two keys below it.
   A delete breaks this at the leaf it unlinks, and its walk back mends it one level
   a turn: the positions that may lack a second leaf are exactly those on the deleted
   key's path above `depth`, all of which are still there. Where the walk ends early,
   at a position with two children or a child that is interior, the rest fork
   already (`WalkStops`). A tree whose interior positions all fork is the one its
   keys determine (`CanonicalTree`).
3. *Counts* (`Counted`). What is allocated is the cardinality of the nodes, and of the
   entries but for the one a walking delete has yet to release. `SplitTree` counts
   the nodes of a split against `NodesNeeded`; a refused one keeps none of those it was
   granted (`NothingKept`).
4. *The iterator* (`IterOK`). Each entry of its stack stands for the hashes still to
   come through it (`Coming`); those of a deeper entry come before those of every
   shallower one (`Sorted`). What has been given, what is left of the chain at hand
   and the keys whose hash is still in the stack are all the keys, the three apart
   and in this order. A turn at an interior node splits `Coming` at its least child
   and changes nothing else.

Entering a leaf, giving an entry, a turn and the end of a walk each have a lemma on
`IterOK`; that a mutation ends the iteration makes the rest hold.

**E-graph** (`EGraphProofs`): `EGraphIsSound` (`IInv`), `ClassesOnlyMerge` (`Grows`:
equal ids stay equal), `GraphStaysWhole` (`WInv`), `RebuildRestoresCongruence`
(`Congruent`), `NoTermIsLost` (`Kept`). `IInv` = `Stored` (types and lengths, a fact missing only
once the flag is up) and `InGraph` (no dangling index) and `Sound` (the ghost
`means` is constant on classes and right for every node) and `FactsHold` and
`Control`. It is an invariant of every intermediate state of every call, with or
without refusals: that is why a refused push in the middle of a merge can leave
terms out but never equate two that differ. `EGraphAssumption` and
`AnalysisAssumption` are the caller's contract: make, join and the folded constant
say only what is so, and a caller merges only what is equal.

`Congruent` and `Kept` speak of the graph between calls, and a rebuild passes
through states in which neither holds, so they need `Whole`, which holds at every
step while nothing is refused: a class lists its nodes once (`ListsOnce`); the
hashcons holds one live node of a key, and every live node but those a pass has yet
to come to (`FiledOnce`); kids are canonical unless a repair is scheduled
(`Canonised`); a retired node has a live one with its operator and equal kids in its
class (`Replaced`). A merge breaks canonicity and so must put the worklist back. The
sweep empties the hashcons, and what it has filed is what lies before `at`, so a
node that finds its key filed has found an earlier one: the two are in one class
after the merge, the earlier one stays live, and retiring the later one keeps
`Replaced`. What ends a rebuild, the sweep having come past the last node and the
worklist being empty, turns `Whole` into congruence. `WInv` = `IInv /\ Whole`.

`XInvariant`, `ExtractionIsRight` (`Extracted`) and `PlanIsCheapest` (`Cheapest`) are
of `XSpec`, the graph with extractions from it. `CostAssumption` is `egraph.h`'s: no
operator has a negative cost. `XInv` adds to `WInv`

1. *What is planned* (`Planned`): the node chosen for a class is its own, may be
   chosen and costs no more than the class is priced at. A later, cheaper kid makes
   the node cheaper than the price, so this is not an equality until the sweep that
   changes nothing (`Settled`).
2. *No cycle* (`Acyclic`): some ranking of the classes puts each kid of a chosen
   node before the node's class, cheaper or as cheap and of a lower rank. The rank
   is for operators that cost nothing: a class and its kid may have one price, and
   the strict `<` of `eg_extract_prepare` is what keeps them from choosing one
   another. A class that has become cheaper is ranked last.
3. *What is written* (`Laid`, `Stacked`): each entry is the chosen node of one class
   and names earlier entries; what is on the stack comes before the root, so a walk
   that comes to its end has written the root last.

At the end of a walk the recursive `Value` and `Price` of entry j are the meaning and
the price of the class it was written for, by the least entry that would differ; and
the entries fit because each is another class and another node. For `Cheapest`, the
plan is compared with the tables of cheapest terms of depth d: no table is below the
plan, because the plan is a fixpoint, and the table of depth d is no dearer than the
plan on the classes with at most d priced classes before them, because the choices
are acyclic. There are no more classes than tables, so the last one is the plan.

**Code buffer** (`CodeBufProofs`): `BufferIsSound` (`IInv`), `FinalizedCodeIsRight`
(`HandedOutIsWhatWasAsked`), `DisplacementsHold` (`DisplacementsPinIt`),
of every driver, one that stamps a finalized buffer again included. The
invariant is that a buffer not marked failed, or handed out before it was, holds
what was asked (`Faithful`); that a displacement is only in a sealed buffer; and
that a sealed one neither moves nor grows. That stamping again is safe is not
proved: it is not so (`MCRestamp`).

Only model-checked. Of the machine: `AgreesWithIPG` (a recursive semantics, which the provers cannot
unfold), `LoopsAreFed` and `CallsAreFed` (on what Sema accepts). Of the document:
the laws, whose emission and parse are recursive over data. Of the e-graph:
`FactsExact` (`analysis_restore` gives up after a fixed number of rounds, and not
every analysis comes to its fixpoint in that many: what the run shows is that the
repository's does). All liveness (`Termination`, `WalkEnds`, `CallsEnd`), which is
out of the provers' reach.

## 6. Not modelled, and what would come next

In order of what it would add:

1. **Widths**: expressions, indices and interval ends as `int64_t`, `int` and
   `size_t`, for the overflow hazard.
2. **Reader**: the bound stack of the C and C++ readers with its fixed depth, and
   that it implements the same stack of windows as `CEK`'s `slots`/`depth`.
3. **Sema, phases 5 to 8**: forward references, expression types, the field names
   a count or an interval may use.
4. **Memo**: the packrat memo and left-recursion seeds of the `pegc` runtime.
5. **crt**: vectors (poisoning after a refused birth), resizing under a budget and
   the fault injector, `clone` of the tree and the dictionary.
6. **eg_saturate**: the caller's rounds under the caps, and the generated rewriters
   that drive them.

Of the document, bitfields, floats, strings, signed varints and the wider integers
as leaf types are left out, as is the check that a transient stays on one thread;
of the parse arena everything: a bump allocator with no decisions of its own.

Left out for good: the generated parser, the generators (`backends/render`, `asdl`,
`ddcgc`, `opgen`, the generator halves of `burgc`, `pegc` and `jitterator`), whose
output is program text and which make up most of the repository's lines;
`lib/Worklist.h`, a 51-line build-time queue; bindings and tools, which are glue
and file input/output; vendored code.

## 7. Running it

    tlc -config MCMachine.cfg MCCEK.tla           # also MCEnds, MCLoopLeft, MCSpin,
                                                  # MCNeverTried, MCItself
    tlc -continue -config MCOdds.cfg MCCEK.tla
    tlc -config MCLaws.cfg MCDocument.tla         # any other .cfg of a document
    tlc -config MCHMap.cfg MCHMap.tla             # also MCHMapRefused
    tlc -config MCDict.cfg MCDict.tla
    tlc -config MCEGraph.cfg MCEGraph.tla
    tlc -config MCCodeBuf.cfg MCCodeBuf.tla       # also MCRestamp
    tlapm ScopeProofs.tla                         # and the other *Proofs modules

The passing runs take from seconds to two minutes each; a violation run stops
with its trace.
