# Jev-Grep in TLA+

A verification development for the scoped exact search of Jev-Grep: TLA+
modules for the parts of the program that decide something, TLC configurations
that check them on small instances, and TLAPS proofs of the results that should
hold at every size. Paths below are relative to the repository (`src/...` in
`PROJECT.json` is its root).

    tlc -workers 2 -config WorkerClient_honest.cfg MCWorkerClient
    tlapm WorkerClientProofs.tla

`PROJECT.json` lists the runs, the lines each definition is translated from
(`map`), a plausible bug for every property that makes TLC find the property
violated (`mutants`), the hazards the properties are aimed at, and the theorems.

## 1. The system

A caller asks `ExactService` for a literal or regex search, or for a range of a
file. The service asks `WorkspaceRegistry`, which owns one `NativeWorker` per
registered root. A `NativeWorker` owns at most one child process, the Rust
program of `native/worker`, and talks to it in length-prefixed JSON frames over
its stdin and stdout. The child opens the root once, walks it without following
links, and reads and matches files.

| Part | Source | State | Operations |
|---|---|---|---|
| ExactService | `src/service/exact.ts` | its caps; one `execute()` is a chain of checks with one await | `execute` |
| Contract | `src/contracts/validation.ts`, `schemas.ts` | none | `parseRequest`, `parseResponse`, `assertEvidenceSource` |
| WorkspaceRegistry | `src/workspace/registry.ts` | entries, `#registering`, `#closed`; per registration a lease on the root and a worker | `register`, `search`, `unregister`, `close` |
| Policy | `src/workspace/policy.ts` | none | `createPolicy`, `narrowPolicy` |
| NativeWorker | `src/worker/client.ts`, `protocol.ts` | the child, `ready`, `retiring`, `disposed`, the call in flight, its timer and abort listener, the pinned root | `open`, `search`, `close`, and the callbacks: timer, abort, `error`, `data`, `close` |
| Frames | `send` and the `data` handler of `client.ts`; `run`, `write_frame` of `main.rs` | the input buffer, the bytes in two pipes, what the child has read of a request | write, read and take frames |
| Protocol loop | `native/worker/src/main.rs` `run` | the root handle | hello, then one answer per request |
| Scope | `native/worker/src/scope.rs` | the globs of a search, the ignore rules by directory | build, exclude, allow, verify |
| One search | `main.rs` `search`, `walk`, `search_file`; `scope.rs` | counts, issues, matches, the rules captured per directory | search, read, validate |
| One file | `main.rs` `capture` | a handle, the first `fstat`, a buffer | capture, one retry |

**How they interact.** Service → registry → worker client are JavaScript calls
and promises of one event loop: interleaving happens at every `await` and
between callbacks, and nowhere else. Client ↔ child is two pipes, process
signals, and Node's events about them, which come in no fixed order. Child ↔
file system is system calls, between which any other process may act.

**What is hard.** A killed child lives on until the kernel is done, its exit is
seen before or after its pipes are drained, and a `fail()` from any of five
callbacks settles whatever is in flight. `register()` has five awaits, at each of
which it can fail or `close()` may have run. The path of the root may name
another directory at each of three moments (lease, worker start, restart), even
one with the inode number of the first. The deadline may pass between any two
statements. Files, ignore files and directories change while they are read. Six
limits of a search may be hit in the middle of nested directories, and still
the answer must say truthfully whether it is complete. A pipe cuts frames
anywhere, and either process may die in the middle of one. And five validators in
two languages look at every request and at all evidence, in units of UTF-16 here
and in bytes of UTF-8 there, with regular expressions here and component by component
there: a later one refuses some requests that an earlier one took, and if they disagreed
about evidence, an answer that was found would be lost.

**What makes each part correct.**

- *NativeWorker*: one live process at a time; every promise settles, once, for
  its own reason; nothing of an interrupted search reaches a later one; the root
  is pinned; `close()` is final and leaves no process.
- *WorkspaceRegistry*: the cap holds over those present and in progress; nothing
  is published after `close()` or leaks on failure; answers come from the very
  directory that was registered.
- *ExactService*: whatever is missing is told; the response fits its budget and
  is trimmed no more than needed; no success is late or follows an abort.
- *One search*: "complete" is complete, under the rules in force; a limit is
  reported only when something lies beyond it; the client accepts every answer.
- *One file*: the bytes that are hashed and matched are one revision.
- *Frames*: whole, once, in order and only of this session; no side gives up on
  what the other writes honestly, or waits for bytes that do not come.
- *Policy and scope*: a search sees the files that the rules of ADR 0003 leave, and
  no narrowing shows more; lists that the schemas take are refused later only for
  their bytes, or for a set of globs that cannot be built.
- *Contract*: what a later layer refuses is something the contract does not ask;
  evidence that the worker made is refused by none, and only what is true of a file
  passes for evidence from it.

`hazards` in `PROJECT.json` lists 40 places where these can go wrong, with the
property aimed at each, or why there is none yet.

## 2. Modules

Every module names in comments what it abstracts. An action is one run of code
that nothing can interrupt: a synchronous stretch of JavaScript, or the part of
the Rust worker between two moments at which others can act.

**`SerialWorker`** is the abstract specification of a worker as its callers see
it: a server of one call at a time that refuses instead of queueing, gives true
reasons, and accepts nothing once closed. **`WorkerClient`** is the program:
`class NativeWorker`, the children, pipes and events. Its variables carry the
names of the fields of the class; `proc`, `stdin`, `stdout` and `retired` are
the operating system's side. `Fail`, `Abandon` and `Settle` are `fail()`, split
where `send()` and the `error` handler use a part of it; `OpenRefusal`,
`SearchRefusal`, `HelloRefusal` and `ResponseRefusal` are the early returns, in
the code's order; there is one action per API call, callback and child step.
`ClientIsSerial` states the refinement (`retiring`, `disposed` are the abstract
`restarting`, `closed`).

**`Registry`** is `WorkspaceRegistry`. `phase[r]` is the await at which
`register()` stands; `Realpath`, `OpenLease`, `Stat`, `ChildUp`, `Validated` are
its stretches, `Fail` its catch clause up to the await of `rootLease.close()`,
`LeaseClosed` the rest with the finally clause. A worker is what `SerialWorker`
promises plus the directory its child has open. Directories are objects, and the
program sees only their inode numbers, which a new directory may get again
once nobody holds the old one: the reason for the lease.

**`ExactService`** is `execute()`: `Execute` (validation, abort), `Dispatch` (the
milliseconds left), `Answered` (what `registry.search()` settles with), `Resume`
(after the await or in the catch clause), `Trim` (one turn of the binary search),
`Finish` (size, contract, clock). Time passes between any two of them. The clock
runs finer than milliseconds, so that the rounding of the budget is real.
`ContractHolds` is what `parseResponse` demands of coverage, reasons and issues.

**`FrameQueue`** is what one direction of a session promises: the frames sent, each
at most once and in order. **`Framing`** is how the code keeps it, byte by byte:
`Send` and `Write` put a header and a body into a pipe, `Data` is a `'data'` event
with any part of what is there and all turns of the handler's loop (`Turn`, `Loop`),
`Read` one `read()` of the child, `Answer` a request that is whole. A byte is known by
its frame and its place in it, so that a parser that is out of step is seen to be.
`Crash`, `ParentDies` and `GiveUp` cut a frame short; `Misbehave` writes frames that
`run()` would not. The instances `Replies` and `Requests` of `FrameQueue` state the
refinement. `WorkerClient` takes whole frames as they come, which this justifies.

**`ScopePolicy`** is `createPolicy()`, `narrowPolicy()` and what becomes of a scope:
the schemas of `policy.ts` (`Accepted`), the client's (`ClientTakes`), the cap of a frame
(`FrameFits`), `Scope::new()` (`WorkerTakes`), the room that the reported scope needs in
the response (`ServiceTakes`) and its schema (`ContractTakes`); and `Selected`, the files
that `excluded_path()` and `allows()` leave over a tree at rest. A pattern is the set of
entries it matches, a canonical list has a length in JSON; the rules of the ignore files
are lines, in their order, and `Nearest` is the loop of `allows()` over the directories
above.

**`Contract`** takes one call through every validator: `Execute` (`parseRequest`, the
caps), `Dispatch` (the rest of the deadline, `SearchSchema` with `NarrowSchema`, whose
the ids are, `WorkerRequestSchema`, the cap of a frame, serde, `validate()`), `Match`
and `Read` (the evidence that `search_file()` makes, the excerpt cut before the
character at its cap), `Return` (`validateWorkerResponse`, `parseResponse`), then
`Retell` and `Assert`: the evidence is told with one part changed, and
`assertEvidenceSource()` judges it against a file. A text is its two lengths and what
the checks ask of it; a path or pattern also has what each part between its slashes is,
so that `PathSchema`, a regular expression whose dot stops at U+2028 and U+2029, and
`ValidPath`, which looks at every part, are two different checks; a file is a sequence of
octets.

**`SearchFile`** is `capture()` and the retry in `search_file()`, one system call
at a time (`Inspect`, `Reopen`, `Read`, `Compare`, `Anchor`), against `Write`
(overwrite, append, truncate) and `Replace` (rename over the path, unlink).

**`NativeSearch`** is `search()`: the recursion of `walk()` as a stack, `Visit` one
turn of its loop with every way an entry is excluded, skipped, failed, entered or
searched, `Ended` what `search()` makes of an error, `Verify` one turn of
`verify()`, `Respond` the answer. Reading a file is one step there, which
`SearchFile` justifies. Others edit files and ignore files and remove entries.

`MC...` modules hold values a `.cfg` cannot express and the symmetry sets;
`...Proofs` modules hold the theorems of section 4, one per component.

The models compose by promise: each level assumes of the one below what a
property of that level states. `Registry` lets a worker fail but not hang
(`EveryCallSettles`) and gives it one child (`AtMostOneAlive`); `ExactService`
lets `registry.search()` reject but not hang (`CallsEnd`), with the codes of
`Registry` and `WorkerClient`; `WorkerClient` takes a response as valid that
`NativeSearch` and `Contract` show every success to be (`AcceptedByClient`,
`EvidencePasses`), in frames that `Framing` shows to arrive whole
(`WholeAndInOrder`). `NativeSearch` takes the entries that are ignored as given, and
`ScopePolicy` says which they are.

## 3. Runs

| Run | Instance | Question |
|---|---|---|
| `client_honest` | 1 open, 2 searches, 2 directories, no faults | whatever times out, crashes or restarts, is every success from the pinned root, is nothing left of an interrupted search, is there never a second live process, and is the client a `SerialWorker`? |
| `client_faulty` | 2 cancellable searches, one arbitrary frame | does every promise keep its timer and listener, get its own reason, and none late? |
| `client_live` | 1 open, 1 search, one fault, `FairSpec` | does every call settle, every retirement end, every child of a closed worker die? |
| `framing_bytes` | headers of 2 bytes, cap 3, 2 sessions of up to 2 requests, one fault, `FairSpec` | are frames whole, once and in order, and does nobody refuse or wait without cause? |
| `registry_calls` | 3 registrations, cap 2, 1 search, 3 directories, 3 inode numbers | does the cap hold, does nothing leak, do answers come from the leased directory only? |
| `registry_live` | 1 registration, 2 searches, 2 directories, `FairSpec` | does every call return, and does `close()` let everything go? |
| `service_answers` | 0, 1, 2 or 4 matches, sizes around three budgets, 2 moments per ms | is coverage honest, trimming tight, success punctual, and does every call return? |
| `service_deadline` | as above, one deadline and budget | the finding of section 6 (TLC must find a violation) |
| `file_writers` | 2 files of up to 3 pages, limit 2, 2 changes | are the bytes one revision, and does reading end? |
| `native_changes` | 2 directories, 2 text files and a hidden one; 4 requests; one change | is "complete" complete, are limits proven, is a read all or nothing? |
| `scope_rules` | 3 directories (one reserved), 4 files (one hidden), lists of up to 3 with a limit of 2, 64 sets of ignore files; a list that triples in JSON; frames of 12, budgets of 12 and 6 | are the files seen those of the rules, does narrowing only narrow, what is refused behind the schemas and for what? |
| `contract_evidence` | limits of 3; texts, ranges, budgets and deadlines on both sides of each; files of up to 5 octets; four kinds of ids; narrowings of every kind of pattern | what do later validators refuse of requests, and do they agree on evidence and sources? |

**Why the bounds are enough.** *Client*: every property relates at most two calls
or two children, and three calls give two restarts in a row; a worker serves one
call at a time, so more calls repeat the same states. `client_honest` has no
signals: there an abort does what a timeout does, and `client_faulty` has both.
One faulty frame suffices because the client abandons the child at the first frame it
refuses, and one it does not refuse is as good as an honest one. *Frames*: headers of
two bytes are cut in the middle, a request of four is beyond the cap and a reply of
three at it; two requests give a second search over the same buffer, two sessions
leave bytes of the first behind. *Registry*: three registrations for
two slots let one be refused, one fail and one be published at once; two
directories and a third let the path be replaced and an inode number come back.
*Service*: budgets below, at and above the sizes, and an odd and an even range to
halve. *File*: a capture is spoilt by one change, and the retry by a second; three
pages are the limit and one beyond. *Search*: the tree has a nested and an empty
directory, so that each limit can be hit inside and outside a subdirectory; two
matches per file and rooms of one and two give exactly full, one short, one over.
*Scope*: two kinds of ignore files in two directories with two lines each is where two
rules can disagree in kind, depth or place; full lists of policy and narrowing add up
to twice the limit, and lists that fit one by one do not fit a frame or a budget
together. *Contract*: characters of one to three bytes with a cap of three put
the cut before, inside and after a character; dots come before and behind a separator.

Every property is an invariant or a temporal property of the cfg named in
`PROJECT.json`. Deadlock checking is off where the system really may stop (all
calls made and settled, nothing left to happen); `ExactService`, `SearchFile` and
`NativeSearch` are on, with an explicit `Returned` step at the end.

**Fairness.**

- `WorkerClient`: time passes and Node runs a due timer (`Tick`, `Timeout`); the
  kernel delivers a SIGKILL that was sent, an exit is reported and pipes of a dead
  process end (`Die` of a retired child, `Exit`, `ChildClosed`). Nothing is assumed
  of a child: it may stop for ever. Nobody has to call, abort or close.
- `Registry`: file-system calls return (`Realpath`, `OpenLease`, `Stat`,
  `LeaseClosed`), and a call in flight ends if only by failing (`WorkerFails`),
  which is `EveryCallSettles` of the client.
- `ExactService`: JavaScript runs on (`Step`), and `registry.search()` settles
  (`Answered`), which is `CallsEnd` of the registry.
- `SearchFile`: system calls return (`ReaderStep`). The deadline (`Give`) is not
  assumed: a reader ends because of the limit, not because of the clock.
- `Framing`: some step of the child, of the pipes or of Node's events about them is
  taken as long as there is one (`Progress`). No timer is assumed, nor a caller, so
  `NoSearchWaits` is not owed to the deadline.

All of them are weak; none is put on what a caller or another process does.

## 4. Proofs

Proved by TLAPS for every value of the constants: any number of calls, searches,
registrations, directories, inode numbers, faults, writers and changes; any files,
trees, limits, budgets, deadlines, sizes, patterns and requests.

| Module | Theorem | Statement |
|---|---|---|
| `WorkerClientProofs` | `TypeCorrect` | `Spec => []TypeOK` |
| | `WaitingAlwaysHeld` | `Spec => []WaitingIsHeld` |
| | `ReasonIsAlwaysOwn` | `Spec => []OwnReason` |
| | `NeverTwoAlive` | `Spec => []AtMostOneAlive` |
| | `ClosedIsFinal` | `Spec => []DisposedHoldsNothing` |
| | `RootStaysPinned` | `Spec => RootPinned` |
| | `ImplementsSerial` | `Spec => ClientIsSerial` |
| | `CurrentStreamIsClean` | `Spec => [](faults = 0 => CurrentStreamIsPendings)` |
| | `AnswersComeFromPinnedRoot` | `Spec => [](faults = 0 => AnsweredFromPinnedRoot)` |
| `FramingProofs` | `TypeCorrect` | `Spec => []Shape` |
| | `NoFrameIsLeft` | `Spec => []NoFrameWaits` |
| | `BufferIsBounded` | `Spec => [](Len(input) < H + Cap)` |
| | `InvHolds` | `Spec => []Inv` |
| | `RefusalsEarned` | `Spec => []RefusalsAreEarned` |
| | `FramesArrive` | `Spec => WholeAndInOrder` |
| `RegistryProofs` | `TypeCorrect` | `Spec => []TypeOK` |
| | `CapIsKept` | `Spec => []CapHolds` |
| | `NothingIsLeaked` | `Spec => []NothingLeaks` |
| | `AnsweredFromLease` | `Spec => AnswersComeFromTheLease` |
| `ExactServiceProofs` | `TypeCorrect` | `Spec => []TypeOK` |
| | `CoverageIsHonest` | `Spec => []HonestCoverage` |
| | `TrimmingIsTight` | `Spec => []TrimIsTight` |
| | `ContractIsKept` | `Spec => []OwnContractHolds` |
| | `ReturnsOnTime` | `Spec => OnTime` |
| `NativeSearchProofs` | `TypeCorrect` | `Spec => []TypeOK` |
| | `CompleteMeansComplete` | `Spec => []CompleteIsComplete` |
| | `LimitsAreProven` | `Spec => []LimitIsProven` |
| | `PoliciesAreCurrent` | `Spec => []PolicyIsCurrent` |
| | `ReadsAreWhole` | `Spec => []ReadIsAllOrNothing` |
| | `AnswersAreAccepted` | `Spec => []AcceptedByClient` |
| `SearchFileProofs` | `OneRevision` | `Spec => []SingleRevision` |
| `ScopePolicyProofs` | `SelectionFollowsRules` | `Spec => []SelectionIsReference` |
| | `NeverWidens` | `Spec => []NarrowNeverWidens` |
| | `LateRefusals` | `Spec => []RefusedForItsLists` |
| `ContractProofs` | `RefusalsHaveReasons` | `Spec => []RefusedForAReason` |
| | `LayersAgree` | `Spec => []EvidencePasses` |
| | `AcceptedEvidenceIsTrue` | `Spec => []OnlyTrueEvidence` |

Each states a property that some run checks on a small instance, except
`DisposedHoldsNothing` and `RootPinned`, which stand behind `ClientIsSerial` and
`AnsweredFromPinnedRoot`, `Shape` and `Inv` of the frames, which stand behind the
theorems about them, and `BufferIsBounded`, which follows from `NoFrameWaits`; these are
not run by themselves. The two theorems with
`faults = 0` say more than their run: `client_honest` has no faulty frames at all,
the theorems hold for any bound on them, up to the moment the first one is sent.

*The client.* None of the properties is inductive alone. `AtMostOneAlive` needs to
know where a live process can be when no child is current: the strengthening,
`OneChild` beside `TypeOK`, `Held` and `Owned` in `WorkerClientProofs`, says that a
live process is the current child or a retired one that has not closed, that there is
at most one such retired child, that `retiring` is set while there is, and that a call
which has not been made has spawned nothing. This is what the flag
`retiring` is for: `start()` is reached only when it is off. `OwnReason` needs
`WaitingIsHeld`: a timer or listener belongs to a call in flight, and at most one
is; its half about late answers needs that a clock which has run out stays so, and
that a call is only settled with success while it has time. The proofs go by layers
(types; what is held; reasons; children), one lemma per layer and one step per action.

*The client as a serial server.* `StepRefines` maps every step to a step of
`SerialWorker` or a stutter, with `Held` (the calls that wait are those in flight, at
most one): refusals to `Refuse`, `fail()` to `Settle` of the call in flight or to
`Interrupt`, the steps of children, pipes and processes to stutters. What answers
are made from is `Streams`, an invariant about all bytes on their way at once: before
the hello nothing was asked and nothing else is in the pipes of the current child;
after it there is at most one frame to come, of the call in flight, either as a request
or as its response. An abandoned child may still be written to and write, which is why
it is stated of the current child only. `PinnedAnswers` adds that a child past
its hello has the pinned root open, and so what it serves is from there.

*The frames.* `NoFrameIsLeft` holds whatever a child sends. A turn of the loop takes a
frame, refuses it or has nothing to do, and one that takes a frame takes a header at
least, so as many turns as there are headers in the buffer are enough (`LoopEnds`: were
they not, every turn would have shortened the buffer by `H`, below nothing).
For the other two there is `Flow`, and its core is `Carried`: there are a stream of
bytes, the frames that were written one behind the other, and offsets at which each
ends, such that what is in the buffer and its pipe, put together, is a piece of that
stream which begins where the last frame taken ended, and reaches to the end of it
unless a kill has cut it. Writing adds to the stream, a `read()` or a `'data'` event
moves the cut between buffer and pipe, taking a frame moves the beginning to the next
offset, and a kill drops the end; these are the lemmas `CarriedMore`, `CutInTwo`,
`CarriedTake`, `CarriedCut`. So a header that is there is the header of the next frame
(`CarriedHeader`), never bytes out of the middle, and its body is the body that was
written (`CarriedBody`). `OrderKept` says that what was parsed is a beginning of what was
written, which makes every step one of `FrameQueue` (`StepsMap`). `Turnwise` counts
hello, requests and replies of a child without faults: at most one frame is on its way
(`OneAtATime`), so it is the expected one, the buffer never exceeds the cap
(`OneFrameFits`), and the client has nothing to refuse.

*The registry.* The invariant says, for each await of `register()`, which of entry,
lease and worker is held (`HoldsOK`), that the worker was told the inode number of the
leased directory (`LeaseOK`), and that only a worker in use has a call or a child, the
child on the leased directory (`WorkOK`). `DiskOK` says that inode numbers tell the
directories that exist apart. Together they are the argument for the lease: while it is held
its directory exists, so its inode number is nobody else's, so the check after the
child has started, which compares only numbers, compares directories. `CapHolds` counts:
a slot that is taken is either an entry or a call in progress, and every exit from
`register()`, the finally clause included, frees exactly its own.

*The service.* `Bracket` is the invariant of the binary search: what is below `low`
fits, what is above `high` does not. `Whole` and `Marked` with `Tight` are the
two shapes of a response that is built, and say why its own contract takes it: its
partial coverage and its issues are made of the same codes (`ReasonCodes`). Nothing is
used of the sizes but that they grow.

*The search.* The invariant has a part per question. `WalkOK`: an entry that is still to
come is untouched and in the frame of its own directory, no directory is on the stack
twice, and what has been touched lies below directories that were all walked into.
`AnswerOK` and `ReadOK`: counts, reasons, coverage and matches agree at every step, not
only in the answer. `LimitOK`: LIMIT_REACHED, as an error or as a reason, stands only
while the matches are full and some text has more. `PolicyOK`: each ignore file that was
captured is still to be compared, or is unchanged, or changed after its comparison.
`NothingMissed`: as long as the coverage is complete, every eligible entry of a listed
directory gave all it had or is on the stack. The last carries `CompleteIsComplete`,
and needs `WalkOK` for a directory that is left: nothing of it can still be to come.

*The file.* The invariant `Inv` is `Shape` (types without the bounds that TLC
needs), `StampsArePast` (a change gives a stamp that was never there),
`NowIsRevision` (what the open file holds now is among its revisions), and
`Prefix`: as long as the stat first taken is still the stat of the file, the buffer
is the beginning of the file, and all of it at the last comparison. A writer that
touches the open file falsifies the premise for good, which is why the single
comparison at the end is enough, and why it must come after the last read.

*The scope.* `NeverWidens` rests on the lemma `Narrowing` (one more group of includes
and more excludes leave fewer files) and on `FromPolicy`, which ties an answer to the
policy and the narrowing it was made from; nothing is used of what a glob matches.
`LateRefusals` counts: the elements of two lists are no more than their lengths
added up, and the reported list of includes is one of the two. So the bounds on numbers
never refuse. For bytes it has `BytesFit`: with four lists in a request and five in a
response, whatever they are joined from, plain ones have room in a frame and in the
largest response. A refusal is therefore owed to lists that are not plain, to a
smaller budget, or to a set that globset cannot build and that the caller added to.
`SelectionFollowsRules`
compares the loop of `allows()`, a recursive function, with the order that ranks all
matching lines at once. `ClimbingFinds` shows that the recursion has a solution and that
every solution ends with the deepest file that says anything: the least depth at which it
did not would contradict the step above it. `VerdictIsHighest` ties that to the ranks.

*The contract.* The invariant is `Stages`, what holds of a call at each stage, and
`Judged`, that a verdict is that of the evidence and the file at hand. `Made` says that
evidence comes from a place in a file by a cut between two characters, and the lemma
`MadePasses` that such evidence satisfies every check there is. `AcceptedIsTrue` goes
the other way: from the checks alone, without a word about where the evidence is from,
to what it says of the file. `TakenRequest` compares the validators of a request, layer
by layer, and names what is left for each later one to refuse; it needs that no
character has fewer bytes than units. `NarrowedScope` says that a scope which cannot be
built or sent has a narrowing, for the registration's own was built when it was made.

*Assumptions* are the named `ASSUME`s of the modules. Most give constants their types,
and say that `None` is no call, root, file, code, answer or outcome. The others:

- searches and opens, and the names of the registry's own calls, are disjoint (they
  are different promises); signals belong to searches; there is a root;
- sizes of a response grow with its matches (a match takes bytes);
- a header has at least one byte, no request is empty (JSON never is), and `run()`
  writes hellos and replies within the cap (`write_frame()` looks);
- paths are sequences of names, with an entry all directories above it are entries, and
  nothing is below a file (trees are like that); a request that reads nothing is
  not a path;
- a list of patterns in JSON is no longer than the lists it is joined from. A pattern has
  1024 bytes, which JSON makes at most six times as many, and no more than twice as many
  without control characters: 64 of them take at most `AnyList` = 64 * 6147 bytes, plain
  ones `PlainList` = 64 * 2051. A frame of 1 MiB has room for twice the first and 250 KiB
  besides, where a query takes 48 KiB at most; a response of 1 MiB for five times the
  second and 380 KiB besides (`BytesAssumption`, `AsksAssumption`, and the length of a
  frame without a narrowing in `RequestsAssumption`);
- requests, contexts and ignore files have the fields that their callers and parsers
  give them.

TLC evaluates them in every run.

**Model-checked only.** Liveness (`EveryCallSettles`, `KilledChildrenGo`, `CallsEnd`,
`ClosedReleasesAll`, `Settles`, `ReadEnds`, `NoSearchWaits`, `OrphansEnd`): fairness and
ENABLED are out of the prover's reach. Everything else that a run checks is proved, except
`DeadlineKeepsMatches`, which is false. The two recursive functions of the code, the loop
of `allows()` and that of the `'data'` handler, are reasoned about by their least
counterexample: the library's induction theorems take an operator as a parameter, which
no prover here can instantiate.

## 5. What is abstracted, and what is not modelled

- Callbacks of promises that follow a settlement without any other event in
  between are part of the action that settles.
- In `WorkerClient` a `data` event delivers one whole frame; `Framing` has the bytes.
  A frame that the schemas or `validateWorkerResponse` refuse is one value there, for
  whatever reason; `Contract` has the reasons that concern evidence.
- A child is named by the call that spawned it. A `spawn` that throws because no
  descriptors are left is not modelled (hazard at `client.ts:79`); one that fails later,
  with an `error` event, is.
- An EPIPE of a child that is no longer the current one is ignored (`client.ts:81`), and
  so it is in the model (`StdinError`); no property is about it.
- In `Framing`, `send()` of the request that waited for the hello comes at the end of the
  `'data'` event, not between two turns of its loop. It differs only when a faulty child
  sends more behind its hello in the same event.
- `SearchFile` gives every change a new stamp. A kernel with coarse timestamps
  does not promise that for two changes in one tick (hazard at `main.rs:144`), and the
  code has nothing that could tell.
- `NativeSearch`: a directory is listed in one step and without duplicates; one
  ignore file per directory, as the set of entries it hides, rules of different
  directories add up. A deadline that passes while an entry is opened or captured is found
  at the next entry, or in `Verify`, where the code finds it a check earlier
  (`main.rs:393`, `400`): only the count of entries differs. Matching, hashing, excerpts and field checks are data: the
  matcher may stop after any match for any of its reasons.
- `ScopePolicy`: what one glob or one ignore line matches is given; `snapshot_hash()`
  is a digest of what `verify()` compares. The tree is at rest: `NativeSearch` has the
  walk while it changes.
- `Contract`: matches are any ranges; several hits are judged one by one; the cap on
  the bytes of a response belongs to `NativeSearch` and `ExactService`. A request has
  its ids and patterns as what the checks ask of them, and bears whether its scope can be
  built and how long its frame is; `ScopePolicy` has how they come about. Requests come
  through `ExactService`. A caller of `WorkspaceRegistry.search()` itself can pass a
  path with half a surrogate pair: `PathSchema` takes it, serde does not, and the client
  reports `WORKER_PROTOCOL`.
- `ExactService`: the sizes of a response are arbitrary increasing numbers.
- Not modelled: the schemas of discovery and of the index and the branches of
  `parseRequest` and `parseResponse` for them, which nothing in `src` reaches; the
  re-exports of `index.ts`; scripts, spikes and documentation. The index, discovery,
  MCP and CLI of the documentation have no code.

## 6. Finding

`service_deadline`: `docs/SPEC.md` promises "Hitting a result, byte, or time limit
returns partial execution with an explicit reason." `execute()` returns the error
`DEADLINE`, without the matches it holds, whenever the deadline passes after the
worker's answer. The run shows matches in hand, the clock passing the deadline,
and the error.

Met on the way, and part of the models: `docs/CONTRACTS.md:14` says of paths "excluding
traversal", but the lookahead of `PathSchema` does not see past U+2028 or U+2029, so the
contract takes `a<U+2028>/../b`; the worker's `valid_path()` refuses it. And the contract
takes ids that are no UUIDs and patterns like `/x`, which the registry refuses. These
are among the reasons that `RefusedForAReason` lists.

## 7. Plan

Done, in this order: worker client and its abstract specification; registry; service;
one file; one search; frames and their abstract specification; policy and scope; the
contract. Proofs of all their safety properties, and of the refinements `ClientIsSerial`
and `WholeAndInOrder`.

Next: a composition of registry and client for one root, with the directories of
`Registry` and the children of `WorkerClient`, to discharge the assumption that a worker
is its promise.
