# A TLA+ verification of go-code-chunker

go-code-chunker parses a source file with tree-sitter and turns the syntax tree
into *chunks* (ranges of the file, for embedding) and *edges* (calls, imports,
supertypes, references). The modules here are a model of the Go code of
`src/chunker`, action for action, and of the two scanners in C that the Vue and
Markdown parsers bring along, with model-checked properties and, for eight
modules, proofs that TLAPS checks for every value of the constants.

Names in the modules are those of the code wherever TLA+ allows. `PROJECT.json`
maps each definition to the lines it models.

## 1. The system

| Component | State it keeps | Operations | Hard behaviour | What makes it correct |
|---|---|---|---|---|
| **Registry** `NewChunker` (chunker.go:64) | `byExt`, `kindMap`, `edgeMap`, written once | checks, claims of extensions, `buildKindSets` recursing into injected configs | order of registration; tables shared by name; maps ranged over in any order | accepted iff acceptable, in whatever case extensions are spelled; each language that can be parsed has tables, and whose they are, when configs of one name differ |
| **analyze** (chunker.go:178) | parser and tree of the file, atoms, edges | `ChunkFile`, `Analyze` | early returns with C objects open | nothing left open, no result with an error, chunks keep the promises of `Config` |
| **Split phase** `collectAtoms` (227) | the atoms so far; recursion | emit, descend, split a leaf | boundaries on either side of the size limit, nested in each other | atoms in document order, disjoint, none too large; exactly the outermost fitting boundaries |
| **Line splitting** `lineSplitAtom` (310) | four offsets and rows | a flush before, inside and after a line | carrying offsets over three places that flush | the pieces tile the leaf to its end, are as long as they can be, and cut no line they need not cut |
| **Merge phase** `mergeAtoms` (369) | `groupStart`, chunks | extend, close | three reasons to close a group, the last group behind the loop | each atom in one chunk, chunks within the limit, longest runs |
| **Injections** `applyInjections` (440) | atoms of the file, a second parser and tree | rules x containers, choice of a grammar, re-parse | failure half way, containers in containers, each step working on the atoms of the last | a container is represented by one parse; order and size of atoms survive |
| **Splice** `replaceAtomsInRange` (581) | the result slice | search, copy, insert | what counts as inside the range | order is kept, replacements stand where the atoms were |
| **Edge walk** `collectEdges` (edges.go:51) | edges so far; recursion | rules per node kind, overrides of calls | matches inside matches | each call once, attributed to the definition around it and to the one around that |
| **Edge filter** `dedupeEdges` (edges.go:331) | a slice filtered in place | note, filter | writes into the array it reads | the result is that of a filter on a copy |
| **Language configs** `langs/*.go` | constants | `AllLanguages` | configs that share a name | tables |
| **Vue scanner** `langs/internal/vue_cgo` (scanner.c, tag.h) | the stack of open tags, written to a buffer of 1024 bytes after each token and read back before the next | one token per call of `scan` | names that do not fit or are cut; implicit end tags; the end of a script's text; a parser and a scanner that each count the open elements | the two agree; elements nest as HTML lets them; the parse ends |
| **Markdown scanner** `langs/internal/markdown_cgo` (scanner.c) | open blocks, how many of them the line has matched, three flags, indentation and column in 8 bits | one token per call of `scan` | lines are matched against open blocks token by token, and by a look-ahead that keeps the state; blocks closed one by one | what is closed is open; what was foreseen of a line comes true; the parse ends |
| **Generated parsers** `parser.c` | tables | shift, reduce | - | generated; their part in the scanners' behaviour only |

How they interact. `analyze` calls the walks one after the other on one
goroutine. `collectAtoms` hands atoms to `applyInjections`, which runs
`collectAtoms` and `collectEdges` again on the tree of each embedded script and
hands the atoms to `replaceAtomsInRange`; what comes out goes to `mergeAtoms`,
which relies on order, disjointness and size without checking any of them. The
edges of all trees are appended to one slice (chunker.go:212, :223, :504), which
`dedupeEdges` filters. The parsers of Vue and Markdown call their scanner at every
token that only it can find; what it is asked for depends on the parser's state,
and what the parser does next on the token.
Nothing is persisted. A `Chunker` is not written after `NewChunker` returns and
every call makes its own parser, so calls on several goroutines share only what
none of them writes: there are no interleavings to model, and none are.

## 2. The modules

    Atoms ----- Merge ------ implements Grouping
      |  \----- LineSplit
      |            |
      |         Collect  (SyntaxTree)
      |            |
      |  Replace   |
      |      \     |
      |       Inject
      |          |
      +------ Analyze ------ composes Inject and Merge

    Edges    Dedupe              Tags
       \      /                    |
       EdgeList                VueScanner     MarkdownScanner -- implements MarkdownBlocks
                               Registry

| Module | Models | State and actions |
|---|---|---|
| `Atoms` | `atom`, `buildChunk`, the rule by which a group ends | operators only: `Breaks`, `Chunk`, `InDocumentOrder`, `NoneOversized` |
| `SyntaxTree` | what the chunker asks of `sitter.Node` | `WellFormed`, the assumption about trees: parents and children agree, children lie in their parent in order |
| `Merge` | `mergeAtoms` | `i`, `groupStart`, `chunks`; an iteration is `ExtendGroup` or `CloseGroup` |
| `Grouping` | what merging promises | one action: the longest run of atoms none of which breaks it becomes a chunk |
| `LineSplit` | `lineSplitAtom` | `chunkStart`, `chunkStartRow`, `lineOffset`; each call of `flush` is an action of its own, with the early return of `flush` in it |
| `Collect` | `collectAtoms` | the recursion is a stack of nodes; one action per branch; an oversized leaf calls `LineSplit` |
| `Replace` | `replaceAtomsInRange` | one action per branch of each loop |
| `Inject` | `applyInjections` down to `injectContainer` | rules, containers, each early return, `held` (what the deferred calls have yet to close); instances of `Collect` and `Replace` |
| `Analyze` | `analyze` | early returns, parse, the phases of `Inject`, then `Merge` |
| `Edges` | `collectEdges` and its helpers | a stack of nodes and the rules still to be applied to the first; one action per way in which a rule is applied; the two loops over `Parent()` are `FirstUp` |
| `Dedupe` | `dedupeEdges` | the array that `out` shares, its length, the two loops |
| `EdgeList` | the edges of a file (chunker.go:212-224) | composes `Edges` and `Dedupe`: the walk of a tree behind the edges of earlier trees (`WalkStep`), the slice handed over (`HandOver`), the filter (`DedupeStep`) |
| `Registry` | `NewChunker` | the claims, under the spelling in lower case (`ToLower`), the tables by name, the recursion as a stack of sets (a map is ranged over in any order) |
| `Tags` | tag.h: types, void types, `can_contain`, equality | operators only |
| `VueScanner` | vue_cgo/scanner.c and its parser | `tags` (the stack after the last token) and `saved` (the buffer: a count and the entries that fit); `open`, the elements the parser is in, and `mode`, where in the grammar it is; one action per external token, and one per token that `ts_lex` finds |
| `MarkdownBlocks` | the book-keeping of markdown_cgo/scanner.c | `blocks`, `matched` and the flags; one action per way in which a token changes them, whatever the document and whatever the parser asks for |
| `MarkdownScanner` | markdown_cgo/scanner.c and its parser | the characters, indentation, column, and the parser's row; `scan` is an operator on a record of the scanner's and the lexer's fields, because it calls itself to look ahead; its two loops that change state (`Indented`, `MatchUpTo`) are recursive functions, the others are said in closed form |

How the parsers are represented. The Vue grammar is small: `mode` and `open` are the
states that differ in the external tokens they take (`Valid`), and what the
parser does after a token follows from them. The Markdown parser has 47 rows of external
tokens (`ts_external_scanner_states`) for its states; `row` is the row,
`Leads` says to which rows a token leads, taken over all states of a row and
all ways of the GLR parser. So the model takes every path that the parser takes and some that
it does not: what holds of all of them holds of the code, but a property
that says what is accepted cannot be stated. Row 1, which takes all tokens and stands for
recovery from errors, is left out of both: a document that needs it ends in `Reject`.

The operators of `scan` were compared with the compiled scanners, token by token, on
12000 Vue and 9000 Markdown documents made at random; there were no differences.

`MC*` modules give the constants values; `MCTrees` builds syntax trees and `MCFiles` source
files with tables. A `_proofs` module holds the theorems of the module it is named
after; `Atoms_proofs` those of the two functions that make atoms into others, `Merge` and `Replace`; `EdgeList_proofs`
also those of `Edges` and `Dedupe`, `MarkdownScanner_proofs` those of `MarkdownBlocks`. A definition that a comment calls a mutant is a plausible mistake in the one that
follows it; each property is checked to fail when one of them takes its place.

Conventions. A file is its byte offsets. Names and texts are identities of nodes
(`Collect`) or short strings (`Edges`). Indices count from 1. Rows and
lines are numbers, because the code computes with them. Formatting of errors,
capacities of slices, `FilePath` and columns are left out. `bytes.SplitAfter` is
represented by the ends of the lines. In `VueScanner` a run of letters is one
character, a word, with a length. In `MarkdownScanner` "NL" is any line ending, "1"
any digit, "a" any character without a meaning, an opening of an HTML block is one character,
and the five list markers (as the six headings, the two underlines, the two fences) give one token. A call of `Parse` gives any tree of a
set, or fails. Integers are unbounded where the code's are 64 bits wide and never exceed
the size of a file; the scanners' 8 and 16 bits are constants (`Wide`, `NameMax`, `CountMax`).

## 3. The runs

No run replaces a definition; all say `CHECK_DEADLOCK FALSE` because every
one of these functions returns, and every parse ends, after which no step is left.

| Run | Module | Distinct states | What it shows |
|---|---|---|---|
| `merge` | MCMerge | 27418 | chunks within the limit, disjoint, in order; every atom in a chunk of its language; hairline chunks only when forced; the loop implements `Grouping` |
| `line_split` | MCLineSplit | 78660 | pieces tile the leaf to its end, fit, end early only where the next line would not fit, and cut only lines that are too long by themselves |
| `collect` | MCCollect | 56040 | order, size, exactly the outermost fitting boundaries, oversized leaves tiled |
| `replace` | MCReplace | 402282 | order survives; the replacements stand in the place of the atoms they replace |
| `analyze` | MCAnalyze | 36322 | the composition: alignment between phases, no mixture of parses, edges of every tree, chunks sound, boundaries in chunks, nothing left open, the call returns |
| `edge_list` | MCEdgeList | 234649 | walk and filter together: name, line and parent of the definition that an edge is attributed to, document order, the filter in place reads what was given and represents each edge, and every call and reference by a plain name is reported, demoted for a reason, or a reference by the name of the definition it is in |
| `registry` | MCRegistry | 7231 | accepted iff acceptable; whose tables there are, and that each language reached has some where configs of one name inject alike |
| `vue` | MCVueScanner | 309890 | the scanner's stack and the parser's stay in step through a buffer that overflows, and what survives is stable; elements nest legally; no implicit end tag in vain; where raw text stops; the parse ends |
| `markdown` | MCMarkdownScanner | 1107100 | the scanner implements `MarkdownBlocks`; it closes what is open; a line matches and begins as the look-ahead foresaw; the parse ends |
| `line_numbers` | MCLineSplit | violated | finding 1 |
| `own_tables` | MCRegistry | violated | finding 3 |
| `self_references` | MCEdgeList | violated | finding 2 |

Bounds, and why they are enough:

- `merge`: every sequence of up to 4 atoms (`MCMaxAtoms`) of four shapes with or
  without a gap, MaxChunkSize 5, MinChunkSize 3. A group needs a start, an atom
  that extends it, one that breaks it, and one that follows; each reason to break
  and each pair of them occurs.
- `line_split`: every leaf of up to 4 lines (`MCMaxLines`) of 1 to
  2 * MaxChunkSize + 1 bytes (`MCMaxLine`), the last possibly empty: a line is
  cut in up to three pieces with any remainder, and lines follow a remainder.
- `collect`: every tree of up to four nodes of five kinds (top-level, both, top-level
  and nameless, nested, none) with small and oversized text, and seven larger
  ones with methods inside an oversized class and nodes that end before they start.
- `replace`: every aligned call on up to three atoms and two replacements with offsets
  up to 4 (`MCEnd`): before, in, after and around the range, empty atoms included.
- `analyze`: Vue files of a template, up to two scripts and a style, each
  part below or above the limit, empty and absent contents, scripts
  inside the template, four lists of attributes; five programs that a script may parse to,
  one of which has nothing of interest; every parse may fail. The second
  rule has a grammar without boundaries.
- `edge_list`: files of one or two items in five languages, with calls in the callee and
  in the arguments of calls, methods in classes in classes, nameless definitions,
  imports without module, with an alias, and inside calls, a decorated method, a method with the name of a type it refers to; a file without edges behind up to four
  earlier edges of six, which is what it takes for an inherit edge behind a reference with a
  duplicate on either side; and a class with calls and a supertype behind up to two of them.
- `registry`: every sequence of up to three of seven configs and four pairs of sizes; injections
  are nested two deep; two configs spell one extension in different cases, and two have one name and not the same
  injections, in either order.
- `vue`: every document of up to three of 33 pieces, each nest of three elements with two
  closing tags, deeper nests of names of one and four letters, nests in which a `colgroup` or a void
  element loses its name (`Lost`), and scripts with every three pieces of a false or true end. A buffer of 10 bytes (`BufferSize`) holds its two counts
  and five standard tags, or one custom one, so documents of this size overflow
  it in every way; a name of four letters is longer than `NameMax` = 3. `CountMax` = 40 is not
  reached: the guard `Counted` keeps below it, files that
  nest 65535 elements are left out.
- `markdown`: every document of three lines out of 29, the last out of 5, with and without a last line
  ending: each kind of block, alone and in others, with a tab after a marker, continued, interrupted, ended.
  Three lines are a block, its continuation or interruption, and what comes after; two
  levels of nesting give matched, partly matched and unmatched lines. `Wide` = 256 is the code's, and
  no line has so many columns: the wrap of an indentation of 256 columns is in the model (`Indented`) but in no run.

Fairness. Each function runs on one goroutine and contains no wait, so a
specification asks for weak fairness of its `Next`: the goroutine is not stopped
for ever. Liveness is checked of `Analyze` (`Returns`), whose loops and recursions
are those of all the phases, and of both parsers (`Finishes`), which take tokens
without characters that could be repeated for ever. `MarkdownScanner` writes
its fairness out, as "parsing is over or steps are taken again and again":
while a file is parsed there is a step to take, so that this is weak fairness
of `Next`, without TLC evaluating the scan once more to see whether one is enabled. The parser of one GLR
version stands for all: each is fair by itself.

## 4. The proofs

Theorems are about the constants in general: any sizes, any well-formed
tree, any input. They assume only the named assumptions of the modules:

- `SizeAssumption`: both sizes positive, as `NewChunker` makes sure;
- `AtomAssumption`, `LeafAssumption`, `CollectAssumption`, `CallAssumption`: the inputs of a phase on its own are
  what the phase before hands over. `Analyze_proofs` uses none of the four for what happens in `Analyze`: it proves them there;
- `RuleAssumption`: the types of the injection rules, and that no rule injects the file's own language;
- `TreeAssumption`: trees are well-formed, and the parse of an embedded text stays in the range it was given;
  a boundary has text (a definition has at least a keyword); below a container of one rule there
  is none of another (no script is in a style);
- `RegistryAssumption`: the types of the arguments. In particular nothing is assumed of configs that share a name, because `NewChunker`
  does not compare them. That they inject alike is a hypothesis of one conjunct of `ReadyToChunk` (`NamesakesAlike`), and stands in the property;
- `NameAssumption`, `CustomAssumption`, `LimitAssumption`, `CutAssumption`: custom names have lengths and are none of
  the standard ones, the limits are numbers, a name that is cut is as long as it may be;
- `DocumentAssumption`, `LetterAssumption` (`VueScanner`): documents are sequences of strings, and no custom name is space
  or punctuation;
- `DocumentAssumption` (`MarkdownScanner`): documents are sequences of the model's characters, none of which is the end of the file;
  `WideAssumption`: `Wide`, the 2^8 of the code, is beyond the last kind of block, 19; `BlockAssumption`: `Block` has
  the numbers that are written for a list item whose indentation is up to `Wide`;
- `CallsAssumption` (`EdgeList`): the trees are `Walkable`, the rules are `EdgeRule`s, the edges of earlier trees are
  edges. `Walkable` says of a tree what tree-sitter makes sure of: parents and children agree, a field of a node
  is a node below it, no node starts in a row above that of its parent. That nodes are numbered in document order is the
  convention by which the model names them.

`Dedupe` needs none: it filters any slice, `Seq(AnyEdge)`.

| Module | Proved | The inductive invariant |
|---|---|---|
| `Atoms_proofs`, merging | `TypeCorrect`, `ChunkSize`, `ChunkOrder`, `NoAtomLost`, `Refinement`, `HairlinesForced` | adds to the properties that the open group `groupStart..i-1` fits in a chunk, has one language and contains no break, and that closed chunks end before it. Without "contains no break" the last group could not be shown to be a longest run, which the refinement of `Grouping` needs: each close is an `EmitChunk`, all else stutters. `SmallClosedByNext` adds that a chunk below `MinChunkSize` was closed by the atom behind it |
| `LineSplit_proofs` | `TypeCorrect`, `Tiles`, `PieceSize`, `NoPieceCutShort`, `LinesKept` | `Progress`: between lines nothing beyond a chunk is pending, inside the inner loop `chunkStart` has reached the start of the line or is within it. `EveryCutIsGood` shows that each place where `flush` ends a piece is a line break or lies in a line larger than a chunk. `Full` says the same of how long the pieces are. `Tiles` includes that both ways to return have the leaf flushed: `AllFlushed`, at the end of the text nothing is left behind the last line, or the last flush takes it |
| `Collect_proofs` | `TypeCorrect`, `AtomsSorted`, `AtomsFit`, `CollectsExactly`, `CutsEveryLeaf` | `StackInOrder` and `AtomsBeforeStack`: the nodes still to be visited are in document order and behind all atoms; `Splitting` embeds the invariant of `LineSplit_proofs` for a leaf in progress. For the last two, `WalkInv`: each node is visited, on the stack, below a node of the stack or below one that was emitted, and each atom is a visited boundary or a piece of a visited leaf |
| `Atoms_proofs`, the splice | `ReplaceTypeCorrect`, `InOrder`, `SplicesIn` | `ResultFrom`: each atom of the result is one that was passed by outside the range or, after the insertion, ends in the range; `InsertedAtMatch`: the insertion is done as soon as an atom of the range was passed by. Order follows from the alignment of the call. `CopySoFar` says which sequence the result is, in terms of the first and last atom in the range |
| `EdgeList_proofs`, the walk | `SourcesEnclose`, `InDocumentOrder`, `AllReported` | `WalkInv`, see below |
| `EdgeList_proofs`, the filter | of `Dedupe`, for any edges: `TypeCorrect`, `ReadsAsGiven`, `AllRepresented`, `TwinFree`; of `EdgeList`: `NothingUnread`, `AllKept`, `NoneTwice` | `Filtering`: `n < i`, the array from `i` on is as given, `seen` is the set of keys of the first `n`, and each edge before `i` is represented |
| `Registry_proofs` | `AcceptedExactly`, `ReadyForEveryLanguage` | `Position`, `Recorded`, `Once`: `byExt` has the extensions that the two loops have come past and no others, each from one place; so a clash at the next one is a clash of two claims, and the end of the loops leaves none. For the second, `BuildInv`: a config that was registered has tables or waits on the stack of `buildKindSets`; the tables of a name are those of a config that can be reached (`TablesMade`), and all that this config injects has tables or waits. `AllReached` draws the conclusion for all languages from `NamesakesAlike` |
| `VueScanner_proofs`, the stack | `StacksInStep`, `NothingShifts` | adds the types of what is read back and of `open`, and that `open` is no longer than `CountMax`. `RoundTrip`: reading back keeps the number of tags and gives each, a shortened or a blank one, for any size of the buffer; so a push or a pop on what was read back is one on what the parser has. The guard `Counted` is needed: beyond `CountMax` tags are lost. `NothingShifts` adds `Settled`: each name was cut already and each that is not blank fits. `UsedCounts` and `SamePrefix` show that the bytes used up to an entry depend on the entries up to it, so a push or a pop above changes nothing below |
| `VueScanner_proofs`, the tokens | `ClosingFindsElement`, `NestsLegally`, `RawTextEnds` | `TokensInv`, on top of the invariant of the stack, see below |
| `MarkdownScanner_proofs`, the book-keeping | `OpenBlocksMatched`, `UnmatchedClosed` | types, and: before the end of the file `matched` is within `blocks`, and less than their number while the scanner matches. So `pop_block`, which does not check, has a block to take, and never one that the line has matched |
| `MarkdownScanner_proofs`, the scanner | `ScannerKeepsBlocks`: `Spec => BlocksSpec`; from it `ScannerMatchesOpen`, `ScannerClosesUnmatched` | `ScannerInv`, see below |
| `Analyze_proofs` | `Invariance`, `CallsAligned`, `NeverMixed`, `EdgesOfAll`, `SoundChunks`, `NoBoundaryLost`, `ClosedAfterwards`: each safety property of `Analyze`'s run | `AInv`, see below |

The argument of `Analyze_proofs`. The phases share the variables of one state, so the module takes the
steps of each phase as steps of the module that has its proof (`SameWalk`, `SameSplice`, `SameJoin`) and shows that
each call meets what that proof assumes. `AInv` has a part for the walk of a tree (`Walking`: the invariants
of `Collect_proofs`, about the file's tree or a script's), for the splice (`Splicing`: those of `Atoms_proofs`), for
merging (`Merging`: those of `Atoms_proofs` too) and for what is true between the calls:

- `Kept`: the atoms of the file are in order, fit, are not empty, and none cuts across a container; all atoms in a container have one
  language; each outermost boundary has its atom or lies in a container with atoms of another language. An empty atom
  between two adjacent containers would be in both; that there is none is why `BoundariesHaveText` is assumed.
- `Place`: where the three loops stand; in particular, what the search has yet to look at is below no container
  that it found, so that the containers of one rule do not overlap. Those of two rules do not by `ContainersApart`.
  That a splice leaves the atoms of the other containers alone rests on this.
- `Asked`: whose edges were asked for, against the containers behind. The edges of a script are entered before its
  atoms are spliced in, so the two sides are not equal in between.
- `OpenWhileRead`: what is deferred, against the tree that is read.

`SpliceKeeps` is the lemma all of it comes down to: if the atoms of a file are `Kept` and the replacements are
those of a walk over a tree within the container, then the result of the splice, as `SplicesIn` describes it, is
`Kept`. The four parts `Place`, `Walking`, `Kept`, `Asked` were checked by TLC on the instance of `analyze` before they were proved.

Together the modules prove for every file, table of rules, pair of sizes and outcome of every parse that
the chunks which `Analyze` returns are in order, disjoint and within the limit, that they contain every
atom, that no chunk mixes two parses of one container, and that each outermost boundary is in a chunk, or the script is that it lies in.
The proof changed one property: `BoundariesInChunks` allowed a boundary to be missing only strictly below a container. A
container can itself be a boundary, or have the range of one, and then its script takes its place.

The argument of `EdgeList_proofs`. The recursion of `collectEdges` is a stack of nodes in `Edges`; `WalkInv` says what the stack
stands for:

- `StackApart`: each node on it stands for its subtree, and all of one subtree come before the next one starts. `OwnersBehind`: every
  edge so far was found at a node before all of these, or at the one at the head while its rules are applied.
  Document order follows; it is not inductive alone, because it says nothing of where the next edge comes from.
- `Collected`: an edge carries what `enclosingDefinition` answers at the node where it was found, and a line of the subtree
  of that node. The answer comes from two loops over the parents, `FirstUp`: `FirstUpFinds` is what such a loop stops at, so that
  the first one stops at the innermost definition with a name (`InnermostFound`), and the second, which starts above that one, at the innermost
  top-level definition around it, with a name or not (`ParentFound`). `Enclosing` puts name, line and parent together; `MatchesTyped` that the recursion of `collectNamedKinds` stays in
  the subtree of the node that it was called with. Together they are `SourceEncloses`.
- `Complete`: each node is in a subtree of the stack (`Ahead`), or for each rule and each node that the rule finds under its plain
  name there is an edge that says so (`Told`), unless the rule has still to be applied (`Pending`). When the walk returns
  nothing is ahead or pending. `FoundApplied` is the step that this comes down to: of the six ways in which a rule is
  applied the guards leave one that makes this very edge, one that descends, or one whose edge is omitted because the name is
  empty or that of the source. The last is more than the code's comment admits (finding 2), so `Reported` leaves these references out and
  `SelfReferencesOmitted`, which does not, is violated.

`ListInv` composes the two: when the slice is handed over, each edge of the walk is in what the filter was given (`Handed`), and
`NothingLost` of the filter does the rest of `Reported`. `WalkInv` was checked by TLC on the instance of `edge_list` before it
was proved.

The argument of `VueScanner_proofs`. `TokensInv` says what scan knows between two tokens, where its decision was made in one call and is used in another:

- `InFile`: the parser is in the file, for every document.
- `EndSought`: after an implicit end tag the parser stands before the tag that it was for; if that is a closing tag of a name
  of HTML's, the stack has an element of that type. `LexEndTag` comes next only if scan asks for no further implicit end
  tag, so the innermost element is the one, and `NoWastedClosing` follows in mode "close".
- `NestInv`: both stacks are legal, and once the "<" is read the name behind it may be opened. `TagAllowed` is the
  reason: in front of a tag scan, whatever of the space there it takes for text (`TextToTag`), comes to the "<"
  itself and looks for an implicit end tag; in a `template`, `script` or `style`, where it does not look, all may be contained.
  `LegalBack` shows that what the buffer loses makes nothing illegal.
- `RawInv`: raw text is taken in a script or style only, so a name that is known is the one that is looked for.
  `RawLands` says where the scan of raw text stops.

`Text` and `RawEnd` are recursive functions over the file. That they exist, and so are what their definitions say, is
`RecursionByRank`; what is true of all their values is shown with `InductionByRank`. The two are stated of functions
and sets, not of operators, so that the provers can use them.

The argument of `MarkdownScanner_proofs`. `ScannerInv` adds to the invariant of `MarkdownBlocks` that the parser is at a position of
the file, that the numbers are in their range (`indent` below `Wide`, `column` below 4), and what `atEnd` means. That it is kept, and
that each step is one of the books, comes down to `ScanFinds`: what a call of scan that finds a token has changed, as a function of
the flags it was called with. One relation between the record before and after describes each part of `scan`:

- `Moved`: another position, indentation or token, the same books. All the loops over characters are of this kind; that `Indented` is defined,
  and what it gives, is `LoopExists` and `LoopKeeps`, which hold of any loop whose rank falls.
- `Begun`: at most one block was pushed, and none in the look-ahead. There is one lemma per parse function, and `BlockAtBegun` for the
  dispatch on the character. `DocumentAssumption`, that no character is the end of the file, lets every loop end.
- `MatchedUpTo`: the blocks that the line matches are counted from where the last call stopped, up to one that does not match.
- `Continued`: one `MatchBlocks` or one `CloseUnmatched`, or, in a paragraph, nothing. Here the flag that asks for a block to be
  closed is read, and is put back only if nothing was matched: `ContinueArithmetic`.
- `Ended`: the end of a line. The look-ahead has worked on the record that is kept: it matched blocks from 0, began one perhaps, and went
  through `Continue` if the line matched none. `LookedAhead` shows that `blocks` and the flags come out of it
  as they went in; so the code's unguarded `pop_block` in the look-ahead (scanner.c:1461) is never reached.

The invariant of the books is needed for `Continued` itself: only if a block is left to match does "none matched" mean that the innermost is
not matched. So the refinement and the invariant are shown in one induction.

What is proved by induction over data, such as `UsedCounts`, `LoopExists` and `RecursionByRank`, is proved by a least
counterexample (`LeastNumber`, repeated in each module that needs it): the induction theorems of the library take an
operator for a parameter, which the provers cannot instantiate.

Only model-checked:

- `MarkdownScanner`: `MatchesAsForeseen` and `BeginsAsForeseen`. They relate a look-ahead, which counts all the space in front of a line
  before it matches the first block, to the calls that later take the line token by token. Neither holds for all documents: an indentation of 256
  counts as 0 in the one and not in the other, so a proof would have to bound the space in a line; and which tokens lie in
  between is a matter of the parse tables, of which the model has the rows only;
- `Returns` and `Finishes`: liveness under fairness is beyond the prover, as is `ENABLED`.

`RECURSIVE` operators occur in `MCFiles` only, which builds source files for TLC.

The type invariants (`TypeCorrect`) are proved, and not repeated as properties of runs.

## 5. Findings

1. `line_numbers` (chunker.go:345): `flush` counts the end row from the row of the
   node, not of `chunkStart`. From the second piece on, an atom's start line is
   not the line of its first byte.
2. `self_references` (edges.go:203): edges.go:194 and :201 speak of self-references, of "a definition referring to itself"; the names are
   compared, so a method named like a type it refers to loses the reference.
3. `own_tables` (chunker.go:93): tables are kept by language name and the first config
   wins; `AllLanguages` registers JavaScript and TypeScript first, so Vue's variants without
   `export_statement` (langs/vue.go:28) are walked with the tables that have it.

Seen while modelling, without a run:

- edges.go:325 says "exact duplicates"; the key (edges.go:317) leaves out `SourceParent` and `SourceLine`, so of the calls
  of two methods `f` of two classes on one line the second is dropped. `NothingLost` says what is kept: an edge with that key.
- The second config of a name is passed over with its injection rules (chunker.go:93), so languages that only it injects
  have no tables, although chunker.go:87 says "also covering injection grammars". No two configs of `AllLanguages` are such.
- `extractParentName` stops at the nearest node of a top-level kind, named or not (chunker.go:430). Python's
  `decorated_definition` is one without a name, so the edges of a decorated method have no `SourceParent`, for which edge.go:34
  gives the example "class name for a method".
- chunk.go:19 calls `End` inclusive; `buildChunk` sets it to the exclusive end.
- chunker.go:130 says of `isTopLevel` "not nested inside another top-level node"; only
  for a kind that is in both sets are the ancestors looked at (251).
- edgerules.go:46 says that the alias is searched among the children of the import node;
  it is searched beside the module (edges.go:168), which for Python is one level deeper.
- edgerules.go:20 says that an empty `TargetField` means the first named child;
  `targetNode` returns the node itself.
- chunker.go:61 says that a nil `Grammar` is refused; those of injection rules are not
  looked at.
- An import statement of several modules (`import os, sys`) gives the edge of the first.
- chunker.go:6 says that small nodes are merged *until* MinChunkSize; `mergeAtoms` merges up to MaxChunkSize and
  looks at MinChunkSize only before a top-level atom, as its own comment says.

- An oversized boundary whose named children are small, no boundaries and without boundaries
  yields no atom (chunker.go:292); its text is in no chunk.
- A container larger than a chunk, whose children are not, has no atom to replace, so the
  atoms of its script are given up (chunker.go:589), as chunker.go:578 says of the function.

Of the Vue scanner, each a document whose tree differs from what HTML would make of it:

- A carriage return that is not followed by a line feed takes the next character for text, be it "<".
- The search for the end of a script does not go back: after `a<` or `a</s`, a directly following
  `</script>` is text.
- `</scripty>` ends a script's text and is then rejected; so is `<` in an interpolation after space.
- Custom elements are compared by type where implicit end tags are looked for, so any of
  them ends the elements above any other.
- `< li>` is a start tag for which no implicit end tag was looked for.
- Text at the end of a file, without a tag after it, gives no token.
- A void element, or a `colgroup`, whose name was lost is not ended before the next tag: what follows a `<col>` that
  does not fit in the buffer is parsed into it. `NestingLegal` said more at first, and its proof failed there.
- From about 1019 open elements on, a `<script>` loses its name between two tokens and is
  looked for as a `</style`; a name longer than 255 bytes is cut, and its closing tag is erroneous.

Of the Markdown scanner:

- Columns drift: a tab directly after a marker that follows a marker is measured from the wrong column.
- `parse_star` has no limit of indentation, unlike the other markers, so that where no indented code can begin
  a list item of any indentation can, up to a value of `Block` beyond the enumeration.
- A quote marker has no limit of indentation either: one behind four columns of space ends a paragraph, and
  the line is then taken for indented code, which by the table of what interrupts (scanner.c:124) ends none.
- The look-ahead for a table matches the second line with the blocks that were open before, and
  may see a table that does not come (see `BeginsAsForeseen`).
- 256 columns of space count as none.
- In the look-ahead the closing of a block is not guarded by `simulate` (scanner.c:1461), unlike opening one. It is
  not reached there, as `LookedAhead` shows.

## 6. Not modelled

- The tree-sitter runtime: the model takes any well-formed tree of a bounded set for what it
  gives the chunker.
- The generated parsers, beyond what their scanners see of them. They are 64216 of the 67965 lines of C in
  the repository, and tables: states, productions and a lexer that a generator made of a grammar which is not in the
  repository. A model of them would be a copy. The 2450 lines of C that people wrote, two scanners and the tags, are
  modelled.
- Recovery from parse errors: all symbols are valid then, and the scanners refuse or guess.
- Of the scanners: attributes, entities and the doctype of Vue, which have no external token; the letters of the HTML
  openings and backslash escapes in table cells of Markdown.
- The content of the language tables, beyond what the runs use.
- Anonymous children of a node: `findChildByKind` looks at them as well, so a `ContentKind` that is the kind of an anonymous token would be found by the
  code and not by the model. The content kind of Vue, `raw_text`, is a named node.
- Columns, `FilePath`, error texts, the capacities of slices, the stripping of quotes by `cleanModulePath`.
- The limit of Go's stack: recursion is of any depth here.
- A failing allocation in the scanners.

## 7. Plan

Written, in this order: `Atoms`, `Merge` with `Grouping`; `LineSplit`; `SyntaxTree`, `Collect`;
`Replace`; `Inject`; `Analyze`; `Dedupe`; `Edges`; `Registry`; the proofs of `Merge`, `LineSplit`,
`Collect`, `Replace`, of the filter, `Registry`; `Tags`, `VueScanner` and its proofs; `MarkdownBlocks` and its
proofs, `MarkdownScanner`; `EdgeList`; the remaining invariants of `Registry`, `Collect`, `Merge` and `Replace`
proved, with them the six of `Analyze`, and the three of `VueScanner`; the invariants of `EdgeList`, with the walk behind
them, proved; the refinement of `MarkdownBlocks` by `MarkdownScanner`, proved.

Next, in order:

1. *Configs as they are.* A module with names, extensions, node kinds and injections of
   the 15 languages of `langs/`, for `registry` to run on `AllLanguages`, and
   `buildEdgeSets` as an operator.
2. *Edges of injections in `Analyze`.* `EdgeList` takes the earlier edges as given; with `Inject` in front of it
   they would be those of the very scripts.
3. *An abstract edge walk.* The set of edges of a tree, defined node by node, which
   `collectEdges` enumerates in document order (refinement, as for `Grouping`); `Reported` is
   its half for plain names. Of qualified names, overridden calls and descending rules only attribution, order and the filter are stated so far.
