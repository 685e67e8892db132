# A formal model of the astra front end

`astra` reads one source file, parses it with a parser that ANTLR generates from
`grammars/AstraParser.g4`, and turns the parse tree into an AST with `ASTBuilder`. This
directory holds a TLA+ model of that pipeline, the TLC configurations that check it on
bounded inputs, and TLAPS proofs of the properties that hold for every grammar table,
every file and every number of calls. Paths below are relative to the repository root.

The model has four parts, each complete in itself: *parsing and building* (the grammar, the
visitors and their call stack, `parse()` over several files), *characters* (the stream and
the lexer), *texts* (decoding of literals, interning, the memory a `StringRef` points into) and
*output* (the dumper and the driver, on top of the first part).

## 1. Inventory

| Component | State | Operations | Talks to |
|---|---|---|---|
| Grammar and generated parser (`grammars/AstraParser.g4`) | the input position, the parse tree | one generated function per rule | fills the tree `ASTBuilder` reads; reports errors to the `ErrorListener` |
| `ASTBuilder` (`src/frontend/ASTBuilder.cpp`, `include/astra/frontend/ASTBuilder.h`) | the C++ call stack of the visitors, the node each visitor is filling | `build`, 50 `visitX` functions, `getDecl/getType/getStmt/getBlock/getExpr`, `foldLeftAssoc`, `getRange`, `getText`, `getIdentifier`, literal decoding | reads the tree, allocates in `ASTContext`, reports to `DiagnosticsEngine` |
| `DiagnosticsEngine` (`src/basic/DiagnosticsEngine.cpp`) | the diagnostics not printed yet, `HasErrors` | `report`, `print` | shared by listener, builder and caller |
| `parse()` and `ErrorListener` (`src/frontend/Parse.cpp`) | none between calls | `parse`, `syntaxError` | makes lexer, parser and builder of a call; the caller owns context and engine |
| `ASTContext` (`include/astra/ast/ASTContext.h`, `IdentifierInfo.h`) | the arena, the table of identifiers | `allocate`, `allocateCopy`, `getIdentifier` | every AST lives in it |
| AST node types (`include/astra/ast/*.h`) | the AST | members only | filled by the builder, read by the dumper |
| `SourceMgrCharStream` | a read position in the buffer | `LA`, `consume`, `seek`, `getText` | feeds the lexer |
| Lexer (`grammars/AstraLexer.g4`) | position, mode | tokens | feeds the parser |
| Literal decoding (in `ASTBuilder.cpp`, and `src/basic/FloatParse.cpp`) | none | `decodeEscape`, `decodeStringBody`, `decodeCharValue`, `appendUtf8`, `parseFloat`... | called by `visitLiteralConstant` |
| `ASTDumper` (`src/ast/ASTDumper.cpp`) | indentation | one `dump` per kind | reads the finished AST |
| `astra` driver (`tools/astra.cpp`) | the source manager | `main` | calls `parse`, prints or dumps |
| Tests, build files | | | read for the intent, not modelled |

The program is sequential: no threads, no messages, no persistence. What is hard in it is

* **a protocol without types**: ANTLR visitors return `std::any`, and `any_cast` needs
  the exact static type that was put in. 50 visitors, some of which hand on the `any` of
  another, must agree, and a disagreement throws only for the inputs that reach it;
* **null children**: `Ctx->type()` is null when the rule's optional part is absent, and
  `visit(nullptr)` is undefined behaviour. Which visits need a guard is decided by the
  grammar, in another file;
* **hand-wired trees**: nodes are allocated in one place and stored in another, operators
  are folded from the left or from the right, `in` and `is` operators come in two lists
  that are merged by offset, the body of a function is visited before its parameters;
* **range arithmetic** on `size_t` offsets with an EOF token whose stop wraps around;
* **best effort after an error**: builder errors do not stop the build, so one construct
  may be reported twice, not at all, or leave a broken tree around it;
* **state shared between calls**: `Diags.hasErrors()` in `parse()` is the state of the
  engine, not of the call, and all ASTs live in one arena;
* **bytes and characters**: the stream hands out bytes, ANTLR counts lines and columns, LLVM
  wants locations, the decoder makes UTF-8 of code points, and each conversion has edges;
* **lookahead that fails**: the lexer runs ahead of the last place where a rule matched and
  must come back to exactly there, or report what it drops;
* **memory behind `StringRef`s**: an AST refers to source buffers, to copies in the arena,
  and must not refer to the buffer a literal was decoded in.

What makes each component correct: *parser to builder*, every accepted file can be
visited without a bad cast or a null visit; *builder*, the AST is a tree that owns each
allocated node once, keeps source order and every name, has nesting ranges, and binds
operators as the grammar's levels say; *engine*, it knows of an error exactly while one
is pending, and each construct to refuse is reported once; *parse()*, no Program after a
syntax error, earlier ASTs are not touched, and every call returns; *stream and lexer*, the
file is tiled by longest matches and reported errors, and a location leads back to its byte;
*literals*, exactly the value or exactly one report; *context*, equal names are one pointer
and a text never changes; *node types*, every child is what its member is declared to hold;
*dumper*, what is printed is the AST, and tells different ASTs apart; *driver*, status 0
exactly for a clean file, and a reason printed for every other.

## 2. Modules

```
ParseTree           the parse tree and the accessors of the generated contexts
 +- AstraParser     the grammar as productions; a run of the parser over a file
 +- ASTVisitors     what every visitX does, as a list of instructions
     +- ASTBuilder       (+ DiagnosticsEngine) the visitors' call stack, arena, casts
         +- Parse            (+ AstraParser) parse(), several calls, printing
             +- ASTProperties    the properties        ParseContract  <- Parse implements it
                 +- ASTInvariant     the inductive invariants IInv and OwnershipInv
                 |   +- MCGrammar -> MCStructure MCOperators MCSession
                 |   +- ASTBuilderProofs -> OwnershipProofs
                 +- ASTNodes         the classes and members the headers declare
                     +- ASTDumper    (+ LiteralDecoding) dump()
                         +- MemberVisitorProofs (+ ASTBuilderProofs)
                         |   +- MemberProofs (+ OwnershipProofs)
                         +- Astra        main(), on top of Parse and dump -> MCDriver
                             +- DriverProofs (+ MemberProofs)

SourceMgrCharStream      the stream -> MCCharStream        CharStream  <- implemented by it
 +- Lexer                the lexer and the locations of errors -> MCLexer, LexerProofs
LiteralDecoding -> Literals -> MCLiterals, LiteralProofs       the value of a literal
ASTContext -> MCContext, ContextProofs         interning and the memory of texts
```

**ParseTree.** `tree` is a sequence of nodes in the order the parser creates them; the file
rule is node 1 and 0 is the null pointer. `Kids(c, "block")` is `Ctx->block()`, `Nth` its
indexed form, `The` the form for rules with one such child, `available` and `GetToken` are
the two helpers at the top of `ASTBuilder.cpp`. Offsets are `size_t` and wrap at `SizeMod`.

**AstraParser.** Each parser rule is a set of productions (sequences of rule and token
names); `*` and `+` go to `MaxRep` repetitions. A run of the generated parser is a work list:
`EnterRule` picks a production and makes the context node, `MatchToken` makes a terminal,
`MatchEOF` the EOF token with the offsets ANTLR gives it, `ExitRule` sets the stop offset.
The file is thus chosen while it is parsed. Which files a run explores is the constant
`Tables`, a record of named tables: a table gives each rule its `Default` production and, at
the price of one unit of `fuel`, its `Choices`, so `MaxChoices` bounds how far a file is from
the default one; it also says which `Texts` literals may have and how many `Blanks` come first.
The variable `table` is chosen at the start and stays, so one run covers several
parts of the language, each to a depth of its own. `Recover` stands for a syntax error: one
error is reported and the rest of the work is dropped; the tree left behind is unusable.
*A file in the model* is its tokens with their offsets: each token is one byte and is
followed by one blank, and a `>` may touch the `>` after it, as the shift operator's check
needs. Identifiers are told apart by their token; the text of a literal is `"ok"` or `"bad"` (its
decoding reports an error). Which text is bad is what module Literals is about.

**ASTVisitors.** One operator per visitor of `ASTBuilder.cpp`. Its value is
`Visitor(any, code)`: the static type of the pointer the visitor puts into its `std::any`
and, block by block (one block per loop iteration), the instructions it executes:
`new` (allocate), `sub`/`attach` (a helper node made beside the result, such as a type
parameter), `wrap` (allocate a node around the current result, as the folds and suffix
loops do), `get` (visit a child, cast its any, store the pointer in a slot or as the
result), `vis` (set the visibility) and `report`. The conditions of a visitor read only its
context, so its code is known when it is entered; `Kids`, `Has` and `available` in
these operators are the conditions of the source. A member that is filled from a token
(operator, flag, name) is part of the `new` instruction, also where the source assigns it
after visiting a child: nothing can observe the difference.

**ASTBuilder.** `stack` is the C++ call stack, innermost first, `arena` the nodes of the
`ASTContext`. Actions: `Allocate`, `AttachSub`, `SetVisibility`, `ReportError`, `Call`
(`visit(child)`; a null child is the crash `"null_visit"`), `NextIteration`, `Return`
(casts the callee's any; another type is the crash `"bad_any_cast"`), and
`StartBuild`/`EndBuild` for `build`.

**DiagnosticsEngine.** `report` appends and sets `HasErrors` for an error, `print` clears both.

**Parse.** `StartParse`, `RunParser`, `SyntaxError`, then `RefuseTree` (an error is pending:
`nullptr`) or `AcceptTree`, `RunBuilder`, `ReturnProgram`. The signature of `parse()` takes the
context, the engine and a `FileID` from the caller, so `MaxCalls` calls share one arena and
one engine, and the caller may print between them. `tools/astra.cpp` makes one call, the
tests make a new context and engine for each; both are the case `MaxCalls = 1`. The comment
of `ASTContext` speaks of "one parse"; letting calls share it is the more demanding case.

**ParseContract** is what a caller sees of `parse()`, without parser, builder or stack: a call
begins (`Call`), diagnostics are added behind those that wait (`Report`), and it ends with
`nullptr` and something to print (`Refuse`) or with a Program that is the first of its own nodes
(`Deliver`); in between nothing the caller holds changes. `ParsePromise` in ASTProperties states
that `Parse` implements it, with the refinement mapping `asts <- SubSeq(arena, 1, OldNodes)`: of
the arena the caller knows the nodes allocated before the Program under construction.

**ASTNodes.** The enumeration `NodeKind` in its order, the ranges `classof` tests, and for each
kind its members with the class they are declared to hold. `MembersAsDeclared` confronts the
nodes the builder makes with the declarations it fills, `ShapesAsDocumented` with the comments,
for the AST just built: the errors of an earlier one may have been printed.

**ASTDumper.** `OS` is the list of printed lines, each with its prefix (a bar or blanks per
level), connector and text, `todo` the unrolled recursion of `dumpNode`/`dumpChildren`. The code of
each kind is the list of children it passes on, with their labels and `isLast`, and what its
header shows; a header that dereferences a null name is the crash `"null_name"`. `dumpString`
(in LiteralDecoding) is the escaping of strings, byte by byte.

**Astra.** `main()`: the file is opened or not, parsed by the actions of `Parse`, and then its
diagnostics are printed or its Program dumped by the actions of `ASTDumper`.

**LiteralDecoding, Literals.** The pure functions on bytes (`decodeEscape`, `appendUtf8`,
`decodeCharValue`, the parsing of integers with the width of its `APInt`), and `visitLiteralConstant` on one
token: `decodeStringBody` is a loop of `CopyByte` and `DecodeEscape`, everything else one step.
The references the results are compared with are written differently: which backslashes
begin an escape is decided by the parity of the run they end, a numeral is a sum of powers.

**SourceMgrCharStream, CharStream.** The stream as the code has it, an index into a buffer with
`size_t` arithmetic, and as ANTLR's interfaces describe it, what is `past` and what is to come,
without an index. `StreamContract` states that the first implements the second.

**Lexer.** Each rule of `AstraLexer.g4` is a predicate on texts. The matching loop is the ANTLR
runtime's and external: `Shift` runs on while some rule may still match, `Accept` goes back to the
last place where one did, `Fail` reports and drops. `syntaxErrorLoc` is the `ErrorListener`:
line and column to an `SMLoc`.

**ASTContext.** Three memories a `StringRef` can point into: source buffers, the arena, and the
`SmallVector` of `decodeStringBody`, which each decoding overwrites. `getIdentifier` interns by
what a reference reads, `allocateCopy` copies; a node remembers in `text` what it was made for.

## 3. Runs

| Run | Bounds | Question |
|---|---|---|
| `structure` | tables for declarations (5 choices), types (4), statements (5), suffixes, arguments, literals and jumps (3); repetition 2 | casts, null visits, a tree that owns each node once, nested ranges, source order, every name kept |
| `operators` | binary levels (2), parentheses (4), constructs to refuse (3); repetition 3 | precedence from ranges alone, nesting and order, each construct to refuse reported exactly once |
| `session` | 3 choices, 2 calls, a syntax error at any token, printing or not in between; fairness | `parse()` implements `ParseContract`, keeps earlier ASTs and the proofs' invariant, and returns |
| `driver` | every kind of node (2 choices), pairs of nodes alike but for one mark (2); syntax errors, files that cannot be opened, with and without `--dump-ast` | exit status and output, the dump against the AST, nodes against the headers |
| `literals` | strings of up to 3 pieces, all character literals, integers around a limit of 6 bits | values, reports, and the dump of a string |
| `context` | 2 files, 4 nodes | interning and the life of texts |
| `char_stream` | every buffer of up to 4 symbols, arguments two beyond its end, `SizeMod` 8 | the stream implements `CharStream` |
| `lexer` | every buffer of up to 4 or 5 symbols over 8 alphabets, and `\uXXXX` cut off anywhere | tiling, longest match, reports, locations |
| `empty_file`, `catch_range`, `stale_errors`, `utf8_char` | one property each | the findings of section 6 |

*Why the bounds are enough.* A visitor reads only its own context and what its children
return, so a fault shows in a file that holds the faulty construct and, for an
interaction, one construct inside or beside another; two non-default productions make
each such pair reachable, the further ones open the optional parts around it. Two
repetitions tell first from last and order from reverse; three tell "the first pair" from "any
pair" of a comparison chain. Two calls are what a stale state needs. `SizeMod` exceeds
every offset, so only the subtraction in an empty buffer wraps, as in the program; in
`char_stream` it is small enough for any other sum to wrap visibly. The pieces of strings
are characters of one to four bytes and a byte that is none, one of each kind `decodeEscape` tells
apart, and `\u` with the values on both sides of each boundary of UTF-8 and a surrogate; `MCLiterals`
assumes that the reader of UTF-8 takes the first and last sequence of each length and not the
bytes just outside. Three pieces put an escape between two others. Six bits
stand for the 63 of a long: the width of the `APInt` depends on the number of digits, and
literals of up to nine binary digits make it narrower and wider than the limit. The alphabets of
`lexer` hold the symbols that rules compete for: what starts a comment, string or number
and falls short of one, prefixes of operators and keywords, and both line ends.

*Deadlock* is checked everywhere: a crash stops the model, so it would be a deadlock too.
The stuttering steps `Terminated`, `Exited`, `Done`, `Lexed` and `ContextDone` are the ends of the
programs.

*Fairness.* `FairSpec` is `WF_vars(Next)`: `parse()` is a plain sequential call on one
thread, which takes its next step for as long as it has one. Nothing more is assumed; in
particular no fairness on the caller's printing.

*The properties.* `NoBadAnyCast`, `NoNullVisit`: the recursion cannot die. `ASTIsTree`: every
node allocated since the Program is stored in exactly one member of one other of them, all below the
Program, and no edge joins them to the ASTs of other files in the arena.
`RangesNest`, `SiblingsInOrder`: ranges nest, siblings are disjoint and lists are in source
order. `NamesKept`: every identifier (argument names apart, which the builder drops)
names exactly one node, the innermost around it. `Precedence` states what the levels of
the grammar mean for the finished tree, from ranges alone, so it also covers parentheses;
it speaks of files with nothing to report, as the best-effort tree of others is unspecified.
`DiagnosticsExact` compares the engine with the errors the parse tree deserves.
`DumpIsAST` reads the AST off the indentation and the labels of the dump, `HeadersTell` and
`DumpReadsBack` say that no two different programs are dumped alike but for what they name.
`Tiles`, `LongestMatch` and `DropsReported` say what is true of every stretch of the file the
lexer has passed, `LocExact` that line and column lead back to the byte they were made of.
`StringExact`, `IntegerExact`, `CharReadsBack`, `CharAgreesWithString` and `DecodesToUtf8` relate
values to texts and to one another; `ReportedOnce` is what the `"bad"` texts of ASTVisitors assume.
Each property comes with a mutant, a plausible bug defined before the operator it
replaces, under which its run finds a violation.

*What the tables leave out on purpose.* Where the grammar is ambiguous ANTLR takes
the first viable alternative by its prediction; the model would take either. The tables avoid such
files: a chain with `<` and `>` that may be read as a call with type arguments, `return (a)`,
a dangling else of `if` expressions, an operator behind a jump expression.

## 4. Theorems

All are proved for **every** value of the constants: every table and so files of any length,
every `SizeMod`, every buffer, any number of calls and of nodes.

| Theorem | Module | States |
|---|---|---|
| `Invariance` | ASTBuilderProofs | `IInv` always holds |
| `NoNullVisitHolds` | ASTBuilderProofs | no visitor ever visits a null child |
| `NoBadAnyCastHolds`, `TypeCorrect`, `ErrorsPendingHolds`, `NoProgramOnSyntaxErrorHolds` | ASTBuilderProofs | the properties of those names (`TypeOK` for `TypeCorrect`) |
| `AnyVisitOK` (a lemma worth knowing) | ASTBuilderProofs | every visitor answers with the type of its rule and casts each child to the type of that child's rule |
| `ASTIsTreeHolds` | OwnershipProofs | `ASTIsTree`: no visitor leaks, shares or loses a node |
| `OwnershipHolds` | OwnershipProofs | `OwnershipInv`: at any time each node of the AST under construction has one owner, a member or a call |
| `AnyVisitCareful` (a lemma worth knowing) | OwnershipProofs | the code of every visitor keeps account of the nodes it holds |
| `EarlierASTsStay` | OwnershipProofs | `EarlierASTKept`: nodes of finished ASTs are never written again |
| `ParseKeepsPromise` | OwnershipProofs | `ParsePromise`: `Parse` implements `ParseContract` |
| `MembersAsDeclaredHolds` | MemberProofs | `MembersAsDeclared`: every child of a finished AST is of the class its member is declared to hold, and no pointer is null that stands for a part every such construct has |
| `ShapesAsDocumentedHolds` | MemberProofs | `ShapesAsDocumented`: an AST built without an error has the shapes the comments of the headers promise; the one shape the builder does build against them, a chain of mixed direction, is reported before `visitFile` returns |
| `AnyVisitWhole` (a lemma worth knowing) | MemberVisitorProofs | every visitor returns a node that lacks nothing, whatever those it calls return |
| `SaysWhyHolds` | DriverProofs | `SaysWhy`: the driver never fails in silence |
| `NoNullNameHolds`, `HeadersTellHolds` | DriverProofs | `NoNullName`, `HeadersTell`: the dump follows no null name and tells nodes apart |
| `BarsConnectHolds` | DriverProofs | `BarsConnect`: the tree of a dump is drawn without gaps or loose ends |
| `IndexInBuffer`, `StreamImplementsContract` | LexerProofs | the index stays in the buffer; `SourceMgrCharStream` implements `CharStream` |
| `TilesHolds`, `LocExactHolds` | LexerProofs | every byte is in one token, skipped text or reported error; a line and a column lead back to their byte |
| `LongestMatchHolds`, `DropsReportedHolds` | LexerProofs | each token is the longest text a rule matches; each stretch dropped is reported once with its text |
| `SameNameSamePointerHolds`, `TextsKeptHolds` | ContextProofs | pointer equality is equality of names; no text of an AST changes |
| `IntegerExactHolds` | LiteralProofs | `IntegerExact`: an integer literal that fits has its value, any other is reported, in every radix, with any number of digits and for every width of a long |
| `StringExactHolds`, `DecodesToUtf8Holds`, `CharAgreesHolds`, `CharReadsBackHolds`, `DumpReadsBackHolds`, `ReportedOnceHolds` | LiteralProofs | `StringExact`, `DecodesToUtf8`, `CharAgreesWithString`, `CharReadsBack`, `DumpReadsBack`, `ReportedOnce`: what a string or character literal holds and how it is dumped, for every text |

*Assumptions*: `SizeModAssumption` and `StreamAssumption` (a `size_t` has values, the lengths of
buffers with the NUL byte LLVM puts behind each fit in it), `TablesAssumption` and `SymbolsAssumption` (tables hold productions of the grammar, which are
sequences of strings), `BoundsAssumption` and `CallsAssumption` (bounds are numbers),
`DumpASTAssumption` (`--dump-ast` is given or not), `FilesAssumption` (files are sequences of strings). TLC evaluates all of them in the runs.

*No bad cast.* That no cast fails is not inductive: it needs to know what is still going to be
cast. `IInv` makes the discipline explicit that the source keeps in its head. `Answer` gives
each rule the static type of its visitor's any. `CodeOK`: every `get` still to run names a
child whose rule answers with the type it casts to. `FrameOK`: a call's remaining code is
well typed and it will return the answer of its own rule, either because it already
has that any or because it is `Forwarding`, with exactly one visit left that hands on the
any of a child with the same answer. `Awaits`: a caller stands at the visit that made the
call above it, so that what returns is what the caller's instruction was typed for.
`TreeTyped` says that children are listed under their own symbol and `FileFirst` that a tree
without errors is rooted in a file; `LocalsOK` keeps pointers inside the arena; `ErrorBars`
and `ErrorsPending` connect the engine with `phase`. The second part of
`ASTBuilderProofs` begins with the lemmas on instruction lists and takes the 50 visitors one by one,
its last has one lemma per action.

*No null visit.* Which children a context has is decided by the grammar, so `IInv` follows the tree
from the parser to the visitors. While the parser runs, `WorkOK` says that every context it is
inside of `Derives`: the children it has and the symbols still on the work list make up, symbol by
symbol, one production of its rule. When the file is parsed without an error nothing is left, so
`ShapesOK` holds of every context (`TreeDone`): its children are those of one production, which is what
survives the parser and what the visitors rely on. For each rule there is the lemma the
visitors need, which children every production of it has and how many at least (`Sure...`) or that
it never has one (`Never...`); the repetitions of `*` and `+` go to any `MaxRep` and are handled by
a least-element argument. `CodeOK` then demands of each `get` that its child is not null, one case
per visitor; and as a visited child is never null, `IInv` can say `crash = "none"` altogether.

*The contract of parse().* The arena belongs to all calls, and a visitor writes to whatever its
locals point to. `OwnInv` (ASTInvariant) says that these never point to a node of a finished AST:
locals start as null, are set to a node just allocated or to what another call returns, and a
node just allocated is new because `visitFile`, at the bottom of the stack, allocates the
Program before it visits anything and never replaces it (`FileFrame`). So each step leaves the
first `OldNodes` nodes alone (`BuilderOwn`) and maps to a step of the contract or to a
stutter (`StepKeepsPromise`, one case per action); that a refused call has something to print is
`ErrorsPending`, that a delivered one met no syntax error is `ErrorBars`.

*The tree.* The source owns nodes by raw pointers, and nothing but the order of the statements in each
visitor keeps the AST a tree. `TreeInv` follows every node from its allocation to the member that
owns it. The nodes of the AST under construction are a `Forest`, whose roots are exactly those that some
call holds in a local, each held by one call only (`Apart`); edges of other ASTs stay among themselves.
What a call holds is one of four states (`Local`): nothing, the node it fills, a node another call
handed it, or its result and a node beside it. `Moves` says what each instruction makes of that,
and forbids the rest: a `new` over a node that is held would leak it, a `wrap` of nothing would store
null. `Flow` is a whole block of code, `Turns` a loop, and `Careful` says of each call in progress
that what is left of it ends with one node to return. That every visitor starts out so is
`AnyVisitCareful`, visitor by visitor from the pieces they are written with; it needs the
grammar (`TreeDone`) where a visitor picks one of several ways, or forwards one child of several.
Then each instruction either adds a root (`ForestNew`) or makes one a child of another
(`ForestAttach`). When `visitFile` is about to return, one call is left and holds the Program, so the
forest is a tree; that its layers reach all of it is a count of the nodes (`LayersReach`).

*The members.* That no pointer is null and no child of the wrong class cannot be seen one instruction at a
time: a node is allocated empty and filled across the calls of its children. `View` keeps of a node what
the headers tell apart, its kind, how many operators and how many children in each member it has, and whether it
is mutable. `Typed` says of each call in progress that what is left of its code ends with a node that is
`Whole`, whatever the visitors it has yet to call return, as long as they answer what their rule promises
(`Post`); `Settled` says of the arena that each child `Fits` its member and that each node no call
holds any more is `Whole`. Together they are `MemberInv`. `Makes` is the effect of one instruction on the views
a call may hold (a `get` needs the child to fit, so each visitor's lemma uses what the grammar says its
children are; a `wrap` must leave the node it stores whole), and `AnyVisitWhole` takes the 50 visitors
one by one, loops by views that a turn gives back. A step is then one of few changes of
the arena (`SettledNew`, `SettledStore`, `SettledVis`); it cannot spoil the view of a child elsewhere
because members never point to a node that is held (`HeldFree`, from the forest). TLC checked the
part of `MemberInv` about the arena on the runs before it was proved. `ShapesAsDocumented` needs one thing more, of
chains whose operators point both ways (`Crossed`): `AnyVisitWarned` says that only `visitComparison` allocates one, in a
block that reports it afterwards, and `ChainInv` that as long as such a node is in the AST under construction the engine
holds an error or a call has still to report one. The call that returns the finished AST has no code left.

*The stream.* The mapping splits the buffer at the index; the lemmas at the head of LexerProofs say how
`LA`, `seek` and `getText`, which compute with offsets modulo `SizeMod`, read off the two halves.

*The driver.* Until the dump begins, every step of `main()` is one of `parse()` or of its caller, so the
invariants of `parse()` carry over (`DriverInv`); with one call (`OneCall`) and an engine that nobody
printed before, a null Program means that something waits to be printed. The dump begins when no call is
left, so every node is `Whole` (`Ready`), and what waits to be dumped are nodes of the arena (`Waits`):
labels and parameters have names, jumps point to labels, catch clauses to parameters. That headers tell nodes
apart is that each visitor sets no flag, operator or visibility its kind does not show (`Legible`), and
that no two operators are spelled alike. The tree is drawn one line at a time by a dumper that cannot look back, so
`BarInv` takes what is printed and what still waits as one picture (`Sketch`) and says that it is drawn right
at every moment, and that waiting lines never get wider (`Falling`). Printing a line puts it and its children in the place of the line that
waited; that the children hang from it and leave every other bar connected is `BranchDrawn`, and a labelled child is two
such turns (`SketchChild`). When nothing waits the picture is the dump.

*The lexer.* `Tiles` and `LocExact` do not depend on what the rules match. `LexInv` says where the simulator stands: at the
end of the last stretch between tokens; in a token at or behind its start, with the last match in
between, which is why going back never loses a byte nor yields an empty token. `Located` says that the
places it may go back to, and those it has emitted, are `Marked`: the column is the distance to the
last line feed and the line one more than the line feeds before that. As no two
lines have the same number (`LineNumbersDiffer`), SourceMgr finds that line and no other (`Found`).

`LongestMatch` does depend on the rules: the simulator gives up where no rule can go on, and what it may
still need is a finite set of `Completions`, so it must be shown that these suffice. `TokenCanEnd` says it
of every beginning of every text a rule matches, one lemma per rule, each rule read off the symbols at
given places of the text; a string, for instance, can be ended by a quote or, behind a backslash that begins
an escape, by a symbol and a quote. Hence nothing longer matches where the simulator stops (`NoneBeyond`),
and until then `accepted` is the longest match so far (`Longest`). `DropsReported` counts: the report of an
error is the one whose number is that of the errors up to it (`Told`), and its text comes from
`getText`, whose length does not wrap around for the interval of a drop (`GetText`).

*Texts.* `ContextInv`: the table is a bijection between spellings and entries, and every node reads
through references that are stable, into source buffers or copies but never into the decoder's
buffer. The arena only grows, so what a stable reference reads stays (`ReadKept`).

*Literals.* `decodeStringBody` walks over the text while `StringExact` reads it off at once: a backslash
begins an escape if an even number of backslashes precede it. `Scanned` connects the two: when the loop is
at `I`, no escape is open there, the escapes so far were good ones, and `Out` is the content of the text up to `I - 1`.
That a backslash met there begins an escape, and the bytes behind it do not, is a fact about
runs of backslashes. `CharInv` says that `decodeCharValue` found what `decodeEscape` finds in
a string, or the value of a UTF-8 sequence, which `appendUtf8` makes again (arithmetic on the
boundaries). For `DecodesToUtf8` a reader of UTF-8, in sequences of one to four bytes, goes over the text and another over the value; they stand at places
that belong together (`Together`) and pass over one character or escape at a time (`TogetherOn`), up to the
end or to the first surrogate. The dump is read back by a reader that goes from the right, while the dumper goes from the left.
No induction principle is at hand for such recursions, so each is a function on the positions
of the text, and a least position at which a claim fails (`Least`) gives the contradiction.
The same goes for numerals: `Horner` says that the digits put together one by one give the sum by
place, `DigitsFit` that the bits `getAsInteger` reserves per digit are enough in each of the four
radixes, so that `ActiveBits` is there to be chosen, exceeds `LongBits` exactly if the value does not fit
(`TooLargeExact`), and truncation to a long changes nothing if it fits (`AsLongExact`). The prover has no facts about `^`, so the
modules use `Power`, a recursive function; MCLiterals assumes, and TLC confirms, that it is `^`
for the powers in the run.

*Model-checked only*: of the finished AST, `RangesNest`, `SiblingsInOrder`, `NamesKept`, `Precedence`
and `DiagnosticsExact`, which relate whole recursions to the file; of the dump, `DumpIsAST`; of the driver, `ExitStatus`; and `Termination`, because liveness under fairness is outside the prover.

## 5. Not modelled

* How ANTLR predicts alternatives and recovers from errors: the runtime is not part of this
  repository. Parser recovery is one error and an unusable tree, all `parse()` relies on. The
  matching loop of the lexer is external too, but its result depends on the stream and
  the rules, so it is modelled.
* The value of a floating-point literal is LLVM's `APFloat`; modelled is what `visitLiteralConstant`
  and `FloatParse.cpp` do with the status it returns.
* The wording of headers and messages, apart from what `HeadersTell` and `DumpReadsBack` are about.
* The parsing of the command line; reading a file either fails or yields its bytes.
* `mark`, `release`, `getSourceName` change nothing; `setIsKeyword` has no caller.
* The depth of the C++ stack: the recursion of the builder is as deep as the file nests.
* Of the lexer, letters, digits and keywords beyond a few representatives: the rules treat
  them alike.
* Tests and build files.

## 6. Findings

* `empty_file`: `getRange` clamps the stop of EOF, `SIZE_MAX` in an empty buffer, to `Size`
  and then adds one, so the Program of an empty file ends one byte behind the end of the
  buffer. The comment above it promises that the clamp prevents this.
* `catch_range`: the exception parameter of a catch clause has the range of the clause and so
  covers its sibling, the body; `Node.h` documents `Range` as what the node spans.
* `stale_errors`: `parse()` looks at the engine, which may hold an error that the *builder*
  reported for an earlier file; a second, clean file then yields `nullptr`, though `Parse.h`
  promises that for syntax errors only.
* `utf8_char`: the stream hands out bytes, so a character literal of one non-ASCII character is
  two or more symbols and no `CHAR_LITERAL`; the branch of `decodeCharValue` for "a single UTF-8
  sequence" is never reached.

Observed on the way, and stated in a property where one speaks of it: a `\u` escape of a
surrogate decodes to bytes that are not UTF-8, in pairs too (`DecodesToUtf8` says exactly when
the result is UTF-8); `LA(-1)` skips the symbol just consumed, which no rule of this grammar
asks for (`CharStream` leaves negative arguments open); a lone carriage return ends a line for
LLVM but not for ANTLR, so what follows on it has no location (`LocExact` excludes it); the range
`\u4E00-\u9FFF` of `IDENTIFIER` cannot match a byte.

## 7. Plan

Done: everything of sections 2 to 4, in the order parsing and building, its proofs, literals, stream
and lexer, context, dumper and driver, the two abstract specifications and the proofs that
they are implemented.

Left as theorems: `ExitStatus`, then `RangesNest`, `SiblingsInOrder`, `NamesKept` and `DiagnosticsExact`, which follow a call
from its context to the node it returns.
