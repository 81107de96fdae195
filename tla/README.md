# Formal model of the code review agent

This directory holds TLA+ modules for the Go program in `src/` (the `ocr`
command: a code review agent with an ensemble of scanners and an arbiter), TLC
configurations that check them on small instances, and proofs that TLAPS checks
for every value of the constants. `PROJECT.json` lists the components, the runs,
the source lines of every definition, the hazards and the theorems.

Paths below are relative to the repository root.

## 1. Inventory

### Review of one provider

| Component | State | Operations | Interacts through |
|---|---|---|---|
| Review agent, `internal/agent/agent.go` (`Run`, `loadDiffs`, filters, `dispatchSubtasks`, `executeSubtask`, `executeReviewFilter`) | parsed diffs, dispatch semaphore, WaitGroup, `subtaskFailed`, `warnings` | load and filter diffs; start one goroutine per diff; review; filter; collect | worker pool and collector (shared), LLM calls, session log |
| Worker pool, `CommentWorkerPool` in `agent.go` | semaphore channel, one WaitGroup shared by all files | `Submit`, `Await` | called by every file's goroutine and by `Run` |
| Comment collector, `internal/tool/comment_collector.go` | one list of comments under a mutex | `Add`, `Comments`, `CommentsForPath`, `RemoveByPathAndIndices` | pool goroutines append, filters remove |
| Review loop, `performLlmCodeReview`, `executeToolCall` | request budget, empty-round counter, flags | ask, execute the reply's calls, decide, append | the conversation, the pool, the tools |
| Memory compression, `addNextMessage`, `partitionMessages`, `runCompression`, the background job | message list per file, **one** `pendingJob` per agent | apply, cancel, trigger, compress | every file's goroutine shares `pendingJob` |
| Tools, `internal/tool` | registry, frozen before use | read, find, search, comment | git commands under the file's context; the collector |
| Diffs, `internal/diff`, and their selection, `internal/agent/preview.go`, `internal/config/rules` | none; the repository changes under them | run git, parse, read the new content; filter; resolve and re-locate comment lines; choose a rule | git subprocesses; the user's editor and index |
| Git runner, `internal/gitcmd` | semaphore channel | acquire with a context, run, stream, release | every goroutine that runs git |
| LLM clients, `internal/llm` | SDK clients | turn a conversation into a request; one call, one answer | external services |
| Endpoint resolution, `internal/llm/resolver*.go` | none | four sources in order; provider entry, global model, override | the configuration file, the environment |
| Session log, `internal/session`; viewer, `internal/viewer` | record numbers, parent chain, buffered JSONL file | write records; load and pair them | goroutines of the run write; the viewer reads later |

### Ensemble

| Component | State | Operations | Interacts through |
|---|---|---|---|
| Orchestrator, `internal/ensemble/orchestrator.go` | result slot and status per scanner | bounded fan-out, merge, fatal or not | a run closure per scanner |
| Review command, `cmd/opencodereview/andorra_review.go` | exhaustive loop state per scanner | loop a scanner, dedup, arbiter, warnings | agent, dedup, arbiter, progress |
| Dedup, `internal/dedup` | none | union-find over similar findings | called in the loop and at the end |
| Arbiter, `internal/arbiter` | none | tool attempt, JSON fallback, apply verdicts | LLM |
| Progress file, `cmd/opencodereview/progress.go` | JSON snapshot file | read, change, write | other processes read it |

### Configuration and the rest

| Component | State | Operations | Interacts through |
|---|---|---|---|
| Configuration file, provider half: `config_cmd.go`, `provider_cmd.go` | `config.json` | load, set a value, apply a dialog's answer, truncate and write | the file |
| Dialogs, `provider_tui.go` | tab, provider, step, typed texts, the key kept aside | one transition per key | the configuration read at the start |
| Configuration file, ensemble half: `internal/configstore`, `internal/webui` | the same file | load the block, set, validate, merge hidden fields, read again, write a temporary file, rename | the file; the page's form |
| Templates, CLI, output, HTTP guards, telemetry, packaging | none that outlives a call | | |

### What is hard

* **Goroutines that share**: all files of a run share one WaitGroup, one
  collector and one `pendingJob`. Comments are removed *by position* from a list
  that other goroutines append to. The pool's `Wait` is called while others
  still `Add`.
* **Snapshots that age**: the filter's snapshot during its LLM call; the
  background compression's snapshot while the conversation grows; `pendingJob`
  tested without the lock that protects it.
* **Partial failure**: some files or scanners or arbiter attempts fail; the
  result must be an error only when everything failed, and never look clean.
* **Ends**: every loop has a budget; every exit path has to release what the
  path acquired.
* **Files**: session records buffered until the end; one configuration file
  with several writers and two ways of writing; a workspace that is read by
  several git commands while its owner goes on working.
* **Counting**: line numbers from hunk headers on two sides; messages cut and
  regrouped between a tool call and its results.

### What makes each component correct

* Run: no comment is lost, none is removed by a filter that was not asked about
  it, a filter is asked about all of its file's own comments, the bounds on
  concurrency hold, the run ends, and it fails only when every file failed.
* Loop: it ends within its budget, hands on every comment, and leaves a warning
  when it stopped early or never started (of a stop for a conversation that stays
  too long the code leaves none, see section 4).
* Compression: a file's conversation stays that file's; no round is kept and
  summarised, or duplicated, or dropped; a cancelled job is never used.
* Ensemble: one verdict per finding group, order-independent merge, an outage
  always visible.
* Session log: what was recorded can be paired again.
* Configuration: a key stays with its provider, the file a dialog saved resolves to
  what was confirmed, the form's save keeps the other half and carries over what
  its merge names, and only the writer that truncates can leave a cut file.
* Repository: every change is reviewed once, by the rule that is shown (section 4
  names the layers where it is not), and a comment points at the lines it quotes; no
  git token is lost.
* Clients: a request never separates a tool call from its results.

## 2. Modules

```
ReviewPromise        what one run promises (abstract)
   ^ implements
ReviewRun            Run, dispatch, pool, collector, filters      MCReviewRun, ReviewRunProofs
   ^ positions in a list
Positions            the numbers of a set in order, the part of a list that a loop
                     keeps; Dedup, Arbiter and DiffLoad use it too

ToolLoop             the review loop of one file                  ToolLoopProofs
MemoryCompression    conversations and the background job         MemoryCompressionProofs
   ^ its messages and requests
ChatEncoding         zones in messages, turns of a request        MCCompression

Grouping             what dedup promises: connected components
   ^ checked against       ^ counted with     EnsemblePromise   what the scanning promises (abstract)
   |                       |                    ^ implements
Dedup    Arbiter          ScannerFanout, the ensemble's scanners  MCScannerFanout, ScannerFanoutProofs
   \      /
   Judging   dedup, arbiter, warnings, filter                     MCJudging, JudgingProofs

SessionView          what the viewer shows of a session file
   ^ read by
SessionLog           session history and its file                 MCSessionLog, SessionLogProofs

ConfigFile           the file's contents and how each program changes them
   ^ read by
Endpoint             which endpoint a command asks
   ^
ProviderDialog       the two dialogs, key by key
   ^
ConfigStore          the programs that read and write the file    MCConfig, ConfigStoreProofs

GitRunner            the semaphore of git commands
FileRules            rule layers, file filter, exclusions
LineNumbers          hunks, quoted code, lines
   \  |  /
   DiffLoad          load, filter, dispatch, tools, comments      MCRepo, DiffLoadProofs
```

The three detailed modules meet at two interfaces. `ReviewRun` sees a file's loop
as "submits up to `MaxCalls` code_comment calls, then completes or fails", which
is what `ToolLoop` does in detail; `ToolLoop` sees `addNextMessage` as "goes on
or stops", which is what `MemoryCompression` does in detail. The ensemble's two
halves meet in the same way: a pass of `ScannerFanout` is one run of `ReviewRun`
seen from outside (comments, or an error and no comments), and `Judging` starts
from the raw findings that `ScannerFanout` aggregates.

### ReviewRun

| Variables | Code |
|---|---|
| `kind` | what `whyExcluded`, `filterDiffs`, `filterLargeDiffs` find about a diff |
| `phase`, `cursor`, `slots`, `wg`, `dispatched`, `failed`, `result` | `Run` and `dispatchSubtasks` on the main goroutine |
| `pc`, `outcome`, `calls`, `snap` | a file's goroutine (`executeSubtask`, `executeReviewFilter`) |
| `taskPc`, `rest`, `poolCount`, `poolSlots` | the pool's goroutines, WaitGroup and semaphore |
| `waiters`, `woken`, `panicked` | callers of `Await` inside `sync.WaitGroup.Wait` |
| `collector` | the collector, one list per path (no operation looks at the order between paths) |
| `found`, `removed` | history, for the properties |

Actions: `Load`, `DispatchSkip`, `Dispatch`, `AllSubtasksDone`, `Collect` (main);
`StartFails`, `StartSkips`, `StartReview`, `Submit`, `LoopFails`, `LoopEnds`,
`FilterStart`, `FilterEnds`, `Finish` (a file); `AwaitReturns`, `AwaitBlocks`,
`AwaitResumes` (whoever awaits); `TaskStarts`, `TaskAdds`, `TaskEnds` (a pool
task). Granularity: a step ends wherever another goroutine can see the state in
between, so a mutex-protected operation is one step and an LLM call separates
two. Adding the comments of one call is one step per comment, because
`Collector.Add` locks per comment.

The pool's WaitGroup is modelled as Go documents and implements it: `Wait`
returns at once at zero, otherwise registers; the `Done` that reaches zero
releases all registered waiters; a released waiter that finds the group in use
again when it runs panics ("WaitGroup is reused before previous Wait has
returned"). This is external code, and the map marks it so.

`ReviewPromise` is what a caller relies on: one verdict per selected diff,
comments dropped only with the verdict of their own diff, one answer, an error
exactly when every selected diff failed. The mapping reads the verdict of a diff
from `kind` and `outcome`.

### ToolLoop

One variable per local variable of `performLlmCodeReview` (`budget` is
`toolReqCount`, `empties` is `consecutiveEmptyRounds`), `todo` for the calls of
the reply being executed, and history variables. A tool call is one of four
kinds: end signal, comment, refused (unknown or unregistered tool, unreadable
arguments; the refusal text is a usable result), or another tool, whose result
may be empty.

### MemoryCompression

A conversation is whose frozen head it has, which rounds its summaries stand for,
and the entries after the head; tokens are weights. `jobs` is the list of every
background compression started, `pending` the agent's `pendingJob`. The unlocked
test of `pendingJob` (`Soft`) and the locked store (`Trigger`) are two steps.
`CompressEnd` does what `partitionMessages` does, including that a conversation
whose rounds all fit the active zone is summarised entirely.

`ChatEncoding` says which messages such a conversation stands for (system, user,
assistant with its tool calls, one tool message per result), repeats the
partition on the messages as the code does it, and folds them into the turns that
`buildAnthropicParams`, `buildBedrockBody` and `buildOpenAIParams` send. It has no
state: `TurnsPaired` holds of every conversation the other module reaches.

### ScannerFanout

| Variables | Code |
|---|---|
| `concurrency`, `serial`, `exhaustive` | the settings of the run, fixed at the start |
| `main`, `launched`, `raw` | `runAndorraReview` and the launch loop of `Execute` |
| `tokens`, `wg` | the semaphore channel and the WaitGroup of `Execute` |
| `at`, `pass`, `kept`, `err` | a scanner's goroutine: the `run` callback and its `allComments` |
| `results` | `ScannerResult` of each scanner |
| `file`, `faults` | the progress file and how many writes of it failed |
| `reported`, `dropped`, `timedOut` | history, for the properties |

Actions: `StartRun`, `Launch`, `Aggregate`, `FailRun`, `ArbiterStarts`,
`ArbiterEnds`, `CompleteRun` (main); `PassBegins`, `PassSucceeds`, `PassFails`,
`CallbackReturns`, `StoreResult`, `Release`, `WgDone` (a scanner). A comment is the
pass it came from and its issue; which issues merge is a relation that need not
be transitive. An update of the progress file holds the reporter's mutex from
read to write and is one step; a write may fail and leave the old or an
unreadable file, and the callers ignore that, as the code does.

`Agent.Run` with given diffs fails only when every file failed (or all were too
large), with no comments and an error that wraps no context error. So the
callback's branch for a deadline has no action; the run `scanner_timeout` is
about what happens instead.

`EnsemblePromise` is what dedup, the arbiter and the report rely on: each scanner
gets one status, when it has found all it finds; comments are thrown away only at
the end of its search and only where they say nothing new; and the one answer,
once every scanner has its status, is a failure exactly when all of them are
errors, and otherwise everything found. The mapping (`Settled`, `Outcome`,
`Harmless`) reads a scanner's status from its stored result and the answer from
where the main goroutine is and the raw comments it aggregated.

### Dedup, Arbiter, Judging

`Dedup` is `Group` step by step: open a bucket, compare the next pair, close the
bucket. The union-find is the code's, path halving included: `find` is a walk of
`Halve` steps, as many as the array has members, of which those after the root
change nothing. Clusters and sources come in the order of their first members
(`Positions`), which is the order in which the code's maps and slices meet them. Raw
findings are records with path, lines, title, `existing_code` and scanner; the
similarity of titles is a constant. Group ids count from 1.

`Arbiter` is `Decide` batch by batch, then the warnings and the filter of the
command. An answer is the set of verdicts in it that parse, possibly for groups
of other batches or for no group at all, and whether tokens were reported; a call
that failed and an answer without usable verdicts are both the empty set.

`Judging` composes them: the arbiter starts when every bucket is closed. The groups
are the one variable both use; it is declared in `Findings`, which both extend.

### SessionLog, SessionView

| Variables | Code |
|---|---|
| `persist`, `log`, `lastUUID` | `jsonlWriter`: whether there is one, the records handed to it, the parent of the next |
| `sessions` | `FileSessions`: how many `TaskRecord`s of each task a file has |
| `failures`, `summary`, `run` | `llmFailures`, what `Finalize` read of it, how far `Run` is |
| `at`, `rec` | each goroutine of the Agent and the `TaskRecord` it works on |

Actions: `GetOrCreateFileSession`, `AppendTaskRecord`, `SetResponse`, `SetError` and
`CountFailure` (one function, two steps: the record, then the counter),
`ExecuteToolCall` (`AddToolResult` when the call worked), `Finalize` and
`WriteSessionEnd` (one function, two locks). A write is one step because the
writer's lock is held over the whole of it; `AppendTaskRecord` is one because the
file session's lock is held over the number and the write.

There is no crash action: `OnDisk` is the set of files that a crash, or a viewer that
opens the session while it runs, may find, and the properties hold of each of
them. `SessionView` folds such a file into cards as `LoadSession` does, and
`PeekSession` reads its first and last record. The field `of` of a record is not in
the file; it only lets the properties say whose answer a card shows.

### ConfigFile, Endpoint, ProviderDialog, ConfigStore

A key, like a URL, is named after the provider it belongs to, so that "the key of
another provider" can be said at all; lists of models are sets; of a scanner the
model keeps whether it is enabled, the settings the form carries over and those it
does not.

| Variables | Code |
|---|---|
| `disk` | `~/.opencodereview/config.json`: missing, empty, cut or whole, with its two halves |
| `job` | each running program: what it will write and how far its save is |
| `ui` | the model of the dialog that is open (`providerTUIModel`, `modelTUIModel`) |
| `starts`, `crashes` | bounds |

Actions: `StartSet` (`ocr config set`), `RunConfigProvider`, `RunConfigModel`,
`Keys` (one key of the open dialog), `DialogEnds`; `Truncate` and `WriteRest`, the
two visible halves of `os.WriteFile`; `StartSetEnsemble`, `HandleEnsembleSubmit`,
`Reload` and `Rename`, the second read and the atomic write of `SaveAndorra`;
`Crash`. A writer whose file another truncated meanwhile may leave a mixture; a
writer whose file was renamed away writes to no file at all, as with an open
descriptor. `Endpoint` has no state; it says what the next command would ask.

### GitRunner, FileRules, LineNumbers, DiffLoad

| Variables | Code |
|---|---|
| `call`, `sem`, `gone` | callers inside `Run`, `Output`, `RunSplit`, `Stream`; the channel; their contexts |
| `mode`, `setup`, `hasHead`, `worktree`, `index` | the kind of review, the rule layers, the repository |
| `at`, `diffs`, `parsed`, `listed` | how far `GetDiff` is and what it has |
| `announced`, `queue`, `calling` | the count printed, the subtasks, the files whose tools may run git |
| `comment` | one comment on its way from `code_comment` to the result |
| `edits`, `failures` | bounds |
| `touched`, `swallowed` | history: files the user changed meanwhile, failures taken for no output |

Actions: the user (`Edit`, `GitAdd`, `GitRmCached`), the load (one action per git
command and per file read), the filters (`DispatchSubtasks`), the tools' git
commands with contexts that end (`ToolRunsGit`, `FileTimesOut`, `GiveUp`), and the
comment (`AddComment`, `PlaceComment`, `ReLocateComment`, `ResolveLineNumbers`).
What git prints is external and computed from contents: one hunk per changed
section with its common prefix and suffix as context, renames, binary files. A
file is two sections of lines around one that never changes, so a diff can have
two hunks and a line can be outside both.

A commit's review is a range to its parent. A glob pattern is the set of paths it
matches. `FileRules` and `LineNumbers` have no state.

## 3. Runs

| Run | Configuration | What it shows |
|---|---|---|
| `review_run` | 3 diffs of every kind, 2 file goroutines, 1 pool worker, 1 call of 1 comment per file | the safety properties, `ImplementsPromise` and `RunEnds` |
| `await_panic` | 2 diffs, 1 call each | **violated**: two files on one WaitGroup can panic the process |
| `tool_loop` | 5 requests, replies of up to 2 calls, 3 empty rounds | the loop ends, hands on every comment, and a stop without `task_done` leaves a warning unless the conversation stayed too long; which warning, and when, follows from the replies |
| `compression` | 2 interchangeable files, 3 rounds each, light and heavy, 2 calls per reply | a job is used once and in time; rounds are summarised or kept, never both; every request pairs its tool calls |
| `isolation` | as `compression` | **violated**: one file's conversation is replaced by another's |
| `scanner_fanout` | 2 scanners, 3 passes, `--concurrency` 1 and 5, one failed progress write | budget kept, no finding lost, progress file truthful and never going back, `KeepsPromise`, the run ends |
| `scanner_timeout` | 1 scanner | **violated**: a scanner whose files all time out fails the run |
| `judging` | up to 3 findings of 5, 3 verdicts, 3 filters | groups are the connected components, one verdict each, its own; nothing hidden without a warning |
| `session_log` | 2 files, 2 pool tasks, 1 background compression, 3 requests | records chained and numbered, an ended session complete, main cards show their own answers, both readers agree |
| `config` | 2 interchangeable programs, 2 starts, 1 kill, 2 presets and 1 other provider, 5 files to start with | keys stay home, the saved file resolves to the confirmed endpoint, the form's merge gives each scanner, the arbiter and dedup their own fields back, only the truncating writers tear |
| `model_precedence` | 1 program, a file as `setup.html` writes it | **violated**: the global model beats the provider's own |
| `repo` | 3 files, 4 contents, 2 edits, 1 failing command, 1 token, 3 setups of rules | each change reviewed once, announced and dispatched files agree, rule shown is rule used where no entry lacks a text, comments point at their code and an unplaced quote without blank lines is not in the file, tokens accounted, the load ends |

Why the bounds are enough. `review_run`: three diffs and two slots make one file
wait for the semaphore; paths are the diffs, so a file can comment on another
file's path while that one's filter is out; one pool worker makes tasks queue.
`await_panic`: one call per file is enough, two files submit and wait on the one
WaitGroup. `tool_loop`: five requests hold a usable reply in between runs of empty
ones and a run of three. `compression`: the weights and limits make a
conversation cross the soft limit after one heavy round and the hard one after
two; two files meet on the job slot. Counters are bounded by `NumDiffs`,
`MaxCalls`, `MaxBatch`, `MaxRounds`, `MaxCallsPerReply`, `MaxPasses`, `MaxFaults`,
`MaxRaw`, `MaxStarts`, `MaxCrashes`, `MaxEdits`; nothing else is cut off. `scanner_fanout`: with budget 1 the second
scanner waits for the first, with budget 5 and `serial` off both run with two files
each; three passes hold a pass with something new between a first and a last one;
the issues hold one that merges with two others and two that merge with none.
The bound `Reports` keeps a pass to three sets of issues. `judging`: three findings
are the least that merge without being pairwise similar; the pool has overlaps at
2/5, 3/5 and 4/5, an unresolved range, shared code, similar titles and two paths.
An answer names at most one group outside its batch, and the arbiter gives three
of the four verdicts: `style_only` is treated like `rejected_fp` everywhere.
`session_log`: three requests let a re-location, a compression and a main request,
or three of one kind, be open at once; files and pool tasks are interchangeable.
`config`: two programs are what it takes to overtake each other between two reads,
between a read and a write and inside a write; the presets share a model, and one
of them has its key in the environment, so that a model or a missing key does not
give a provider away. A dialog is opened only while no other program is at work,
and no program takes a step while it is open: it looks at the file at its start
and at its save only, and its save does interleave; of two programs, one that had
read the file before the dialog opened may as well read it after.
`repo`: two edits (and a start with a staged change) reach every combination of a
staged, an unstaged and a reverted change of one file; one token makes every
two git commands contend; a tool runs one command per file, a file's context ends
only while its command waits or runs (ending between two is seen by the next
one), and the comment is followed after the tools because placing it runs no git.
The contents hold repeated, blank and indented lines and a text that looks like
git's note on binary files; the snippets hold none, one, several, a blank and one
that spans a hunk's edge.

Symmetry is used in `compression` (files), `session_log` (files, pool tasks) and
`config` (programs): they are interchangeable there, and the properties name none.
It is not used in a run with a liveness property.

`CHECK_DEADLOCK FALSE` is set where the system may stop: an ensemble, a judging, a
load or a session ends, and the bounded users and programs of `config` and `repo`
stop too. Elsewhere the end is an explicit stutter and deadlock is checked.

**Fairness.** Weak fairness of each goroutine's steps (`ReviewRun`,
`ScannerFanout`) and of the loop (`ToolLoop`): the Go scheduler runs what can run, and LLM and tool calls
end, by answer or by the client's timeout and the per-file context. No strong
fairness is used; a file that waits for the semaphore is served because whoever
holds it finishes. `repo` has weak fairness of the program as a whole: which of
the goroutines waiting for a token gets it is nobody's promise, and none is needed,
because every other step (edits, tool commands, time-outs) is bounded. The user,
the tools and the clock owe nothing. `compression`, `session_log`, `judging` and
`config` check safety only.

## 4. Findings

The violated properties quote a sentence of the repository and are recorded in
`PROJECT.json` with their lines.

1. `Await` and `Submit` race on one WaitGroup (`agent.go:604`).
2. `pendingJob` belongs to the agent, not to the file (`agent.go:1441`).
3. The branch that keeps a timed-out scanner's findings is never taken
   (`andorra_review.go:511`).
4. The global model beats the model of the provider's entry, contrary to
   `README.md:168` (`andorra_review.go:346`).

Seen while modelling, and not a run of their own; each is in the models as the
code does it, and the properties are stated around it:

*Review.* `incomplete_review` is also recorded when `task_done` came with the last
request, and its text "without signaling task_done" is then false (`agent.go:1030`,
`:1041`); `StopsReported` asks of that warning only that the requests were used up. A
conversation that stays too long is given up without any warning (`agent.go:1024`);
`StopsReported` excepts it by name. Applying a finished compression drops the round that was
appended after its snapshot (`agent.go:1442`; `RoundsAccounted` names the exception).
The viewer gives a tool result to the first call without one, but a call that
failed leaves no record (`store.go:435`). `hasNewFindings` counts groups, so a pass
that joins two earlier groups and adds a new finding counts as nothing new
(`andorra_review.go:807`; the exception is in `NoFindingLost`).

*Clients.* One past assistant message whose tool arguments are not JSON makes
`buildAnthropicParams` fail on every later request of that conversation
(`client.go:601-605`), while Bedrock passes it on.

*Configuration.* `saveConfig` writes a struct without the `ensemble` key, so `config
set` and both dialogs remove the block. Two `config set` at once can leave a
mixture. An empty or cut file locks `config set` out, while an ensemble save takes
an empty file for no configuration. `mergeHiddenFields` misses `exhaustive`,
`timeout` and `serial`, which every save of the form resets, against
`server.go:148-150`; a renamed scanner comes back enabled; without an earlier
block the first threshold of the form switches the dedup guards off
(`server.go:175`, against `:210-214`). `FormSaveCarriesOver` is about the fields the
merge names, in a file that has a block, and so passes with all of these.
`README.md:193` and `:523` call the environment the highest priority, the code asks
the file first (`resolver.go:80-85`); `ConfirmedIsResolved` takes no side, its shell
sets no endpoint. It says nothing of a review with a global model either, which is
finding 4. A custom provider named like a preset is stored in one
section and looked up in the other. An emptied key field never clears a stored key;
the keys j and k do not reach the text fields of the custom provider form
(`provider_tui.go:505-514`).

*Repository.* A failing `git diff HEAD` is taken for an empty one, a failing
`ls-files` for no untracked files (`git.go:269`, `:318`). A change that was staged
and reverted in the worktree is reviewed when nothing else changed. After `git rm
--cached` a file is both deleted and untracked, and `findDiff` takes the deletion.
A changed line with the text "Binary files " drops its file from the review
(`parser.go:54`); an added line "++ /dev/null" marks a file deleted; an untracked
binary file is reviewed as text. `git show` of a merge prints headers the parser
does not know. Quoted code with a blank line between its lines is not found
where the file has it, because only the quote loses its blanks
(`resolver.go:199-207`): the comment stays without lines even when the file has the
quote word for word, and `LinesPointAtTheCode` excepts it. A file edited between git's
diff and the reading of its content may send a comment elsewhere, and is not judged.
`ocr rules check` skips an entry without text where the review stops at it
(`system_rules.go:405`), so that it may print another rule than the one used, against
`README.md:342`; `RuleShownIsRuleUsed` excepts these layers. The comment at
`system_rules.go:250` says "merged … from all layers", the code takes the first
layer that has patterns.

## 5. Proofs

TLAPS proves the following for every value of the constants that meets the named
assumptions; the runs above check the same properties on small instances.

| Theorem | Module | States |
|---|---|---|
| `TypeCorrect` | `ReviewRunProofs` | `Spec => []TypeOK` |
| `ConcurrencyCorrect` | `ReviewRunProofs` | `Spec => []ConcurrencyBounded` |
| `FilterSeesOwnCorrect` | `ReviewRunProofs` | `Spec => []FilterSeesOwnComments` |
| `FilterRemovesCorrect` | `ReviewRunProofs` | `Spec => []FilterRemovesOnlyShown` |
| `NoCommentLostCorrect` | `ReviewRunProofs` | `Spec => []NoCommentLost` |
| `RunKeepsPromise` | `ReviewRunProofs` | `Spec => ImplementsPromise` |
| `RunnerBounded` | `DiffLoadProofs` | `SpecRunner => []TokensAccounted` |
| `LoadTokens` | `DiffLoadProofs` | `Spec => []TokensAccounted` |
| `LoadTyped` | `DiffLoadProofs` | `Spec => []TypeOK` |
| `RulesShown` | `DiffLoadProofs` | `Spec => []RuleShownIsRuleUsed` |
| `ChangesReviewed` | `DiffLoadProofs` | `Spec => []ChangesReviewedOnce` |
| `LinesPoint` | `DiffLoadProofs` | `Spec => []LinesPointAtTheCode` |
| `TypeCorrect` | `ToolLoopProofs` | `Spec => []TypeOK` |
| `CommentsCorrect` | `ToolLoopProofs` | `Spec => []EveryCommentSubmitted` |
| `StopsCorrect` | `ToolLoopProofs` | `Spec => []StopsReported` |
| `TypeCorrect` | `MemoryCompressionProofs` | `Spec => []TypeOK` |
| `JobsCorrect` | `MemoryCompressionProofs` | `Spec => JobUsedInTime` |
| `RoundsCorrect` | `MemoryCompressionProofs` | `Spec => RoundsAccounted` |
| `TurnsCorrect` | `MemoryCompressionProofs` | `Spec => []TurnsPaired` |
| `TypeCorrect` | `ScannerFanoutProofs` | `Spec => []TypeOK` |
| `BudgetCorrect` | `ScannerFanoutProofs` | `Spec => []BudgetKept` |
| `NothingLost` | `ScannerFanoutProofs` | `Spec => []NoFindingLost` |
| `FanoutKeepsPromise` | `ScannerFanoutProofs` | `Spec => KeepsPromise` |
| `ProgressCorrect` | `ScannerFanoutProofs` | `Spec => ProgressTruthful` |
| `Typing` | `JudgingProofs` | `Spec => []TypeOK` |
| `Faithful` | `JudgingProofs` | `Spec => []GroupsFaithful` |
| `FindingsJudgedOnce` | `JudgingProofs` | `Spec => []EveryFindingJudgedOnce` |
| `HidesNothing` | `JudgingProofs` | `Spec => []NothingHiddenSilently` |
| `Typing` | `SessionLogProofs` | `Spec => []TypeOK` |
| `InOrder` | `SessionLogProofs` | `Spec => []RecordsInOrder` |
| `Complete` | `SessionLogProofs` | `Spec => []EndIsComplete` |
| `OwnCards` | `SessionLogProofs` | `Spec => []MainCardsTheirOwn` |
| `PeekAgrees` | `SessionLogProofs` | `Spec => []PeekAgreesWithLoad` |
| `Typing` | `ConfigStoreProofs` | `Spec => []TypeOK` |
| `KeysAtHome` | `ConfigStoreProofs` | `Spec => []KeysStayHome` |
| `Confirmed` | `ConfigStoreProofs` | `Spec => ConfirmedIsResolved` |
| `FormCarriesOver` | `ConfigStoreProofs` | `Spec => FormSaveCarriesOver` |
| `NeverTorn` | `ConfigStoreProofs` | `Spec => SaveNeverTears` |

What is assumed of the constants, and why the code allows it:

| Assumption | Says | Because |
|---|---|---|
| `RunAssumption` | numbers are naturals, semaphores have positive size | `dispatchSubtasks` and `NewCommentWorkerPool` replace a limit that is not positive by a default |
| `RunnerAssumption` | finitely many callers, a positive capacity | callers are goroutines; `gitcmd.New` replaces a capacity that is not positive |
| `LoopAssumption` | a request budget and a limit on empty rounds | `Template.Validate` refuses a budget that is not positive; the limit is a constant of the loop |
| `CompressionAssumption` | some files, positive weights, soft limit below the warning limit | a message has tokens; 60% and 80% of one number |
| `EncodingAssumption` | a reply with tool calls has at least one; the same number in each | a reply without calls is a text message; how many calls there are makes no difference to how they are paired |
| `FanoutAssumption` | some scanners, integer `--concurrency`, finite reports | the ensemble runs only with an enabled scanner (`andorra_review.go:161`); a pass returns a slice |
| `DedupAssumption` | lines are integers, an overlap of 1 to 100 percent, a bound on the findings | the configuration's ratio is refused outside 0 to 1 (`validation.go:75`) and 0 stands for the default |
| `ArbiterAssumption` | verdicts and filters are among the four verdicts, a filter is not empty | `ParseVerdict` drops the rest; a filter that names none becomes `accepted_bug` (`pickVerdictFilter`) |
| `SessionAssumption` | the three task types, finitely many goroutines, background compressions apart from the files and the pool's tasks, a response may carry no call | plan and filter requests are recorded like main ones; each goroutine is a `go` statement of the Agent of its own kind |
| `PresetsAssumption`, `TypedAssumption` | some preset; what is typed is a name of the model | the registry of providers is not empty; a text typed for a name is one of the model's names |
| `DisksAssumption` | the starting file is well formed, each key in its own provider's entry | a file the writers could have left; that they keep it so is the theorem |
| `RulesAssumption` | the embedded rules have a text for every path; a size limit | they end with the default rule, read from a file of the repository; 80% of `max_tokens` |
| `DiffAssumption` | git knows the files in some order, each once; `/dev/null` is none of them; a blank line does not look like git's note on binary files and normalizes to a blank; files and quoted code are made of lines; the layers are rule files | paths are relative to the repository; a rule file that cannot be parsed ends the run before it starts |
| `BoundsAssumption` | bounds are naturals | they only end the model's runs |

### ReviewRun

None of the properties is inductive. The invariant is built in layers,
each preserved by every step with the help of the layers before it:

1. `Types` and `SnapIsPrefix`. That a filter's answer indexes comments at all
   needs its snapshot to be a prefix of the current list: others only append, and
   the list of a path is shortened only by that path's own filter.
2. `Control` ties the goroutines to the loop index, the outcomes and the tasks
   to the calls made; `WaitersWait` says who is registered with the WaitGroup.
3. `RunCounters`, `PoolCounters`: every counter is the cardinality of the set it
   counts (dispatched goroutines, held tokens, pending tasks). Non-negativity
   and the bounds follow, and so does "counter zero means nobody is left", which
   the rest relies on.
4. `Whereabouts`: a comment found is in exactly one of its call's remainder, the
   collector, or the removed set, and nowhere twice. Removal by position is
   lemma `RemoveIndicesKeeps`, over `NthEnumerates`.
5. `OwnCallsDone`, `RemovedWereShown`: after its `Await` a file has no call in the
   pool, and removals come only from the filter of the comment's own path.
6. `Phases`: once `wg` was zero no file is active, and once `Await` returned to
   `Run` nothing is pending, so what `Run` reads is everything.

The refinement adds that `Run` leaves the dispatch loop at its end, so the files
started are the files selected and "failed = dispatched" means all failed.

### GitRunner, DiffLoad

`TokensAccounted` with the types of the Runner's variables is inductive: the
lemmas count the running calls before and after a token is taken, given back, or
neither. `SpecRunner` is the Runner with arbitrary callers; `DiffLoad` composes the
same actions with the code that calls them, and adds one (`ReviewEnds` ends the
contexts of idle callers), which leaves the calls and the channel alone.

`RuleShownIsRuleUsed` is about operators only: `LayerAgrees` compares the two readings
of one layer, the first entry for the path and the first one with a text, and
`ShownIsUsed` the first layer either reading stops at.

`ChangesReviewedOnce` is about the moment the diffs are dispatched, and says nothing
before. What makes it true is `Following`: as soon as the first git command has
answered, each file under review that nobody touched has, if it changed, a diff, or
`ls-files` is still to run and will list it, or it is listed and still to be read;
at most one diff shows it, because what `ls-files` lists is in no tracked diff; and no
diff that shows it is binary. The steps that carry it:

* `GitCompares`: whatever two trees `git diff` is given, its answer shows each file
  that is new or different, once, renames included, and `HunkLines`, `HunksLines` and
  `NotBinary` say that plain texts give hunks without a line that looks like git's note.
* When the tracked diff is empty, `git diff --staged` is asked instead; that no
  untouched file is lost then is `NoneTracked`: in the worktree each of them is what the
  commit has.
* The user's edits change only files that are then touched (`Apart`).
* `DispatchFilters`: three filters in a row are one filter by all conditions
  (`AmongTwice`), and the count the run prints, filtered by size, is the queue.
  `AmongEnumerates` gives each entry that passes one position in what is kept, hence
  "exactly once" (`KeptOnce`).

`Typing` also says of what the diffs, their hunks and their lines are made, and
`Stages` which places each mode passes. `Among` is defined by a function on the prefixes
of a list, so its lemmas are inductions over a number (`UpTo`), which the provers can do.

`LinesPointAtTheCode` needs an invariant of its own, `LinesInv`, which TLC checked on
the same run before it was proved:

* `AllAligned`: in each hunk of each diff, the numbers counted from the header are those
  the lines have in the two files the diff compares. `HunkSides`, `HunkFits` and
  `HunksFit` show it of what git prints, `UntrackedAligned` of the diff made up for a new
  file, whose text ends with blank lines the file need not have; parsing, finalizing and
  filtering keep it.
* `Honest`: a comment with a place has the place that its present quote has in a diff that
  names its file; one without a place still has the quote it came with, and at the end
  the last diff of its file has no place for that quote. Of a quote without blank lines
  that is the whole quote (`WholeQuote`).

What joins them is about operators: `Matched` and `Missed` (a match found in a list of
numbered lines is one, and none is overlooked), `HunkPlaces` (the hunks' new sides are
tried before their old ones), and `Resolved`, which puts hunks and file together. The
invariant says "in a diff that names its file" and not which one: a tool call and the
re-location look up the first such diff, the last round before the report the last one.

### ToolLoop, MemoryCompression

For `ToolLoop` the invariant adds to the properties that requests are counted down
and up together, that what the code remembers of calls is what happened, that each
comment of a reply is handed on or still to execute (a count over the rest of the
reply, hence the lemmas on `Tail`), that the empty rounds counted are the last ones, and
why a loop with requests to spare has ended: `task_done`, a conversation that stayed too
long, or a run of empty rounds (`GivenUp`).

For `MemoryCompression` the invariant has four parts. `FilesOK`: types, and the reply a
goroutine is adding is its file's latest. `JobsOK`: a job can still replace a
conversation only while it runs or is pending; the pending one is neither used nor
retired. `ConvsSound` and `JobsSound`: in every conversation and in every slice a job may
still deliver, no round follows an entry of its own reply or its own summary (`Orderly`),
and every entry is older than the reply being added (`Past`). `Past` is what makes an
appended round new even after a stale or a foreign slice took the conversation's place.
`Grows` and `Compresses` show that appending and compressing keep both.

`TurnsPaired` is about the requests, and holds of every list of entries: of the
invariant it needs only that a conversation is one. `Layout` says where in the list
of messages each entry's messages are (`FlattenJoins` gives the offsets), and the rest is
about these segments:

* `OpenAITakes`: a call's result is in the segment of its message, at the call's place.
* `AnthropicTakes`: `BuildAnthropicParams` goes through one state per message (`Steps`).
  At the end of a segment the state is `Settled`: with the results held flushed, the turns
  so far are accepted. A text keeps it so (`SettlesText`), and calls followed by their
  results do (`SettlesExchange`), although within the segment the turns are not accepted.
* `CutsBetweenRounds`: the rounds that `groupIntoRounds` finds by roles are the segments
  of the round entries (`RoundsSeen`), each weighs what its entry does (`RoundWeighs`), so
  the same rounds are active (`SameActiveZone`: two sums over sets of different things,
  hence `TotalRenamed`) and the cut is at the end of a segment.
* `CutLeaves`: what is after the cut is laid out like the conversation without the
  entries before it, so the same lemmas hold of it.

The folds and sums of the community modules are unrolled without induction over data:
what `FoldLeft` and `MapThenSumSet` compute is a function on the subsets of a finite set,
whose existence is an induction over a number (`FoldingExists`, `SumsExist`).

### ScannerFanout

`Control` says that scanners run only while the main goroutine fans
out; `Counters` that the semaphore and the WaitGroup are cardinalities; `ShareFits` is the
arithmetic of the two divisions. `Findings` says where a scanner's comments are and what
its result says of them, `Answer` what the main goroutine made of the results. On top of
these, `Told` is the progress file's account of each scanner and `Staged` how far its
stage can be: a write that fails leaves the old file, which was true and stays so because
a finished scanner does not change (`FinishedStays`), or an unreadable one, which says
nothing.

`NoFindingLost` has two halves. That kept comments reach dedup is `ReachesDedup`. That a
loop throws away only what it has already is about numbers of groups only: the code
stops when the count does not grow (`Discarded`). `ComponentsReach` turns the components
that the model computes by growing a set into reachability. Then each group of the
kept comments lies in one group of all of them, and `NoMoreGroups` looks at that map:
either it sends two groups to one, which is the exception of the property, or it is
injective into a set that is not larger, hence onto, and every group holds a comment
that was kept.

`KeepsPromise` adds to these what is not there yet (`Pending`: no result before it is
stored, no raw comments before they are aggregated). A pass that succeeds is the
promise's `Find`, its `Discard`, by `NoMoreGroups`, or nothing; `StoreResult` is its
`Settle`; `Aggregate` its `Answer`; every other step changes nothing a caller sees. Both
derivations of a scanner's status, the order of launches and releases and the progress
file disappear in the mapping.

### Judging

The invariant has two halves, as the run has.

*Grouping.* `Built`: a raw finding is in a bucket still to open, in the open bucket or in
one group. `Forest(p, rep, h)`: each member has a representative and a height that rises
from a member to its parent, and only representatives point at themselves. So each step
of `find`'s walk gets higher and one step per member is enough (`FindsRoot`); path
halving keeps the same `rep` and `h`; and `Union` hangs one root under the other with
the heights of one tree raised above the other's. `Joins`: every pair compared so far
that should merge shares a representative, and a set closed under merging is closed under
sharing one, so no tree is too large. At
the end of a bucket all pairs were compared, so its trees are exactly the components of
"should merge" (`Part`), whose growth-by-steps definition in `Grouping` is compared to
the partition by a closure argument as above. `Ascending` enumerates a finite set of
numbers in order (`AscendingEnumerates`), which gives each cluster its members once and
each group its sources once.

*Judging.* Every group is at one place: in one batch still to come, or with one final
verdict (`JudgedOnce`), whatever groups an answer names; the verdicts of the final groups
are those given, or "uncertain" where none was (`Answered`); once the warnings are out
and there is none, no verdict was made up (`Told`). With `Built`, each raw finding is in one final
group, and a report that leaves groups out without a warning leaves out only what the
arbiter gave a filtered verdict.

### SessionLog

The layers are `Domains` and `Chain` (records are numbered in a row); `Working` (who is at
work has a file session, and only background compressions outlive `Run`); `Mentioned` and
`Numbered` (the numbers in memory are the counts of requests in the log, and each
request's number the count up to it); `Answers` (a request without an answer has a
goroutine waiting for it) and `Counted` (`llmFailures` and the goroutines about to count
are the errors of the log; inequalities, as a background compression counts on its own
time); `Quiet` and `Summed` (what `Finalize` read stays true of the log until
`session_end` is written, up to background compressions, because everyone else has
ended); `Closed` (the log up to `session_end` is complete).

The two readers come on top (`VInv`). `AllViewed` says of every part of the log from its
start what the viewer shows of it: on the cards of a file's main requests only answers
and results of their own request, each answer on some card; the start, and no summary
without a `session_end`. A new record leaves the earlier parts alone (`LogAppended`), so
what is to show is that it `Fits` where it is read: the response, the error or the result
finds its own request's card as the last one, still open. `Facing` says so of every
file's goroutine at work, and rests on `Asks`: only that goroutine makes main requests of
its file, so they do not overlap. For the tasks the viewer can mix up (re-location,
compression) there is no such invariant, and the property does not speak of them.
`LoadSession` is a function on the prefixes of a file, so `ReadOn` (one record more, one
`Show` more) is an induction over a number. `DiskFiles` then says which parts of the log
can be on disk: with no `session_end`, or up to the only one; `TornSkipped` that a line cut
short changes nothing.

### ConfigStore

`Where` is the heart: at each step of a dialog, the key that is typed or the masked one
kept aside belongs to the provider that step is about, in each of the tabs, on the way
forward, back and across tabs. So a confirmed answer carries its own provider's key only
(`AnswerOK`). Applying an answer keeps every key at home and leaves an entry that holds
the answer (`Settled`), which the endpoint resolution then finds; of the environment
it only needs a key the user left to it, and without a global model a review is not
promoted and resolves the same endpoint. `JobOK` is what
a program knows between two steps on the file: it was made from one read, and a form's
block is the merge of the form with what was read. The action properties follow step by
step: no step but those of a truncating save turns a whole file into one that is not.

### Only model-checked

Liveness, which needs fairness and ENABLED: `RunEnds`, `LoopEnds`, `FanoutEnds`,
`LoadEnds`. Every other property of the passing runs is the statement of a theorem.

`Confirmed`, `FormCarriesOver`, `NeverTorn`, `JobsCorrect`, `RoundsCorrect` and
`ProgressCorrect` state action properties; the other theorems state invariants, and
`RunKeepsPromise` and `FanoutKeepsPromise` refinements. `NoCommentLostCorrect` states one
half of what `ImplementsPromise` says as an invariant; the run checks it as part of that.

## 6. Not modelled

* Rendering of prompts, text and JSON; token counting (weights instead); what the
  tools read and print; the inside of git, of the SDKs and of HTTP; telemetry; the
  HTTP guards; the command line; packaging, the website and the editor plugins.
  They keep no state that another part of the program reads.
* The plan phase, and the re-location call inside `ReviewRun`, appear there only as
  "may fail, never changes what the run does"; `DiffLoad` models the re-location.
* A panic inside a goroutine ends the process and is not modelled, except the
  WaitGroup's own.
* Of the ensemble: token counts and costs, confidences (of raw findings they are
  never set), the text of warnings, the JSON report, the debug trace, and a poller
  that reads the progress file in the middle of a write. `arbiter_status` of the
  JSON report looks at token usage only and can differ from the status of the
  progress file.
* Of the configuration: `export` (it only reads), headers, timeouts, languages and
  extra bodies, the suffixes of URLs and models, most of `Validate`'s messages, the
  layout of the dialogs. A second dialog open at the same time.
* Of the repository: symbolic links and files outside it, file modes, submodules,
  the syntax of globs and of .gitignore, a merge commit's diff, and a comment that
  comes with its own lines.

## 7. Plan

What would come next: `EnsemblePromise` taken through dedup and the arbiter (every raw
finding ends in one group with one verdict), implemented by `Judging`; and an abstract
specification of the configuration file (each half changes in one step or not at all),
implemented by the renaming writers.
