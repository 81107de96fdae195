------------------------------ MODULE DiffLoad ------------------------------
(***************************************************************************)
(* From the repository to the files under review and back to the lines of  *)
(* their comments: GetDiff's git commands through the shared Runner        *)
(* (internal/diff/git.go, parser.go), the filters of Agent.Run             *)
(* (internal/agent/agent.go), the git commands of the files' tools, and    *)
(* the placing of a comment.                                               *)
(*                                                                         *)
(* The user goes on editing, staging and unstaging while the workspace is  *)
(* read by several commands; nothing is locked.                            *)
(***************************************************************************)
EXTENDS GitRunner, FileRules, LineNumbers, Positions

CONSTANTS
  FileOrder,   \* Files as git sorts them
  Main,        \* the goroutine that loads the diffs
  Committed,   \* the content of each file in the last commit
  Contents,    \* the contents an edit can leave
  IsMarker,    \* lines of text the parser takes for git's "Binary files "
  Starts,      \* worktree and index the user may have left before
  Setups,      \* rule layers and ignored paths a run may find
  Codes,       \* the snippets a comment may quote, none included
  MaxEdits,    \* bound: steps of the user
  MaxFaults    \* bound: git commands that fail

DevNull == "/dev/null"

ASSUME DiffAssumption ==
  /\ Callers = Files \cup {Main} /\ Main \notin Files
  /\ FileOrder \in Seq(Files) /\ Range(FileOrder) = Files
  /\ \A i, j \in DOMAIN FileOrder : FileOrder[i] = FileOrder[j] => i = j
  /\ DevNull \notin Files
  /\ {Gap, ""} \subseteq DOMAIN Norm /\ Norm[""] = "" /\ IsMarker \subseteq DOMAIN Norm \ {""}
  /\ Contents \subseteq [is : {"text", "binary"}, top : Seq(DOMAIN Norm), end : Seq(DOMAIN Norm)]
  /\ Committed \in [Files -> Contents \cup {Absent}]
  /\ Starts \subseteq [worktree : [Files -> Contents \cup {Absent}],
                      index : [Files -> Contents \cup {Absent}]]
  /\ Setups \subseteq [layers : Seq(Layers), ignored : SUBSET Files]
  /\ <<>> \in Codes /\ Codes \subseteq Seq(DOMAIN Norm)
  /\ MaxEdits \in Nat /\ MaxFaults \in Nat

VARIABLES
  mode,      \* "workspace", "range"; a commit is a range to its parent
  setup,     \* the run's rule.json layers, and the paths that are ignored
  hasHead,   \* the repository has a commit
  worktree,  \* content of each file on disk
  index,     \* content of each file in git's index
  edits,     \* steps of the user so far
  touched,   \* history: files the user changed since the load began
  at,        \* where the load is
  swallowed, \* history: git commands whose failure was taken for no output
  failures,  \* git commands that failed so far
  listed,    \* untracked files still to read
  diffs,     \* the diffs, parsed or still to be finalized
  parsed,    \* how many of them are finalized
  announced, \* the diffs counted as "reviewing n"
  queue,     \* the diffs the run keeps, in order; their subtasks start
  calling,   \* files whose tools may still run a git command
  comment    \* one comment of the review

repo   == <<mode, setup, hasHead, worktree, index, edits, touched>>
load   == <<at, swallowed, failures, listed, diffs, parsed, announced, queue, calling>>
vars   == <<runner, repo, load, comment>>

layers    == setup.layers
NoComment == [at |-> "none", path |-> DevNull, code |-> <<>>, asked |-> <<>>, place |-> Unplaced]

------------------------------------------------------------------------------
(* Diffs. ParseDiffText's reading of what git prints for one file: the flags
   come from header lines, and any line with the text "Binary files " makes the
   file binary. *)
IsBinary(old, new, hunks) ==
  \/ "binary" \in {old.is, new.is}
  \/ \E h \in DOMAIN hunks : \E i \in DOMAIN hunks[h].raw : hunks[h].raw[i].text \in IsMarker

ParseKeepsNewPath(oldPath, newPath, old, new, hunks) ==  \* mutant: no /dev/null
  [oldPath |-> oldPath, newPath |-> newPath, isDeleted |-> new = Absent,
   isBinary |-> IsBinary(old, new, hunks), hunks |-> hunks, content |-> <<>>,
   old |-> old, new |-> new]
ParseDiffText(oldPath, newPath, old, new, hunks) ==
  [oldPath   |-> oldPath,
   newPath   |-> IF new = Absent THEN DevNull ELSE newPath,
   isDeleted |-> new = Absent,
   isBinary  |-> IsBinary(old, new, hunks),
   hunks     |-> hunks,
   content   |-> <<>>,
   old       |-> old,
   new       |-> new]

InOrder == [S \in SUBSET Files |-> Among(FileOrder, S)]

(* What git prints (external). --find-renames: a file that went and a file that
   came with its content. *)
Renames(old, new) ==
  {r \in Files \X Files : /\ old[r[1]] # Absent /\ new[r[1]] = Absent
                          /\ old[r[2]] = Absent /\ new[r[2]] = old[r[1]]}

HunksOf == [p \in (Contents \cup {Absent}) \X (Contents \cup {Absent}) |-> GitHunks(p[1], p[2])]

GitDiff(old, new) ==
  LET r       == IF Renames(old, new) = {} THEN <<>> ELSE CHOOSE x \in Renames(old, new) : TRUE
      from(f) == IF r # <<>> /\ f = r[2] THEN r[1] ELSE f
      shown   == {f \in Files : old[f] # new[f]} \ (IF r = <<>> THEN {} ELSE {r[1]})
      diff    == [f \in shown |-> ParseDiffText(from(f), f, old[from(f)], new[f],
                                                HunksOf[<<old[from(f)], new[f]>>])]
      names   == InOrder[shown]
  IN  [i \in DOMAIN names |-> diff[names[i]]]

NoFile  == [f \in Files |-> Absent]
InIndex == {f \in Files : index[f] # Absent}
OnlyIn(tree, S) == [f \in Files |-> IF f \in S THEN tree[f] ELSE Absent]

(* git diff HEAD compares the tracked files of the worktree; --staged the
   index, with nothing when there is no commit. *)
DiffUnstaged == GitDiff(index, OnlyIn(worktree, InIndex))  \* mutant: HEAD is forgotten
DiffHead   == GitDiff(Committed, OnlyIn(worktree, InIndex))
DiffStaged == GitDiff(IF hasHead THEN Committed ELSE NoFile, index)
DiffRange  == GitDiff(Committed, worktree)  \* in range mode, the content at the ref

(* untrackedFileDiffs prints every line as added, whatever the content is; the
   blank lines it ends with are read as two more lines of context. *)
UntrackedDiff(f) ==
  LET c == worktree[f]
      h == Hunk(<<>>, Text(c), 1, 1)
  IN  ParseDiffText(f, f, Absent, [c EXCEPT !.is = "text"],
                    <<[h EXCEPT !.raw = @ \o Marked("", <<"", "">>)]>>)

------------------------------------------------------------------------------
Init ==
  /\ InitRunner
  /\ mode \in {"workspace", "range"}
  /\ setup \in Setups
  /\ hasHead \in BOOLEAN
  /\ mode = "range" => hasHead
  /\ \E s \in Starts : /\ worktree = s.worktree
                     /\ index = (IF hasHead THEN s.index ELSE NoFile)
  /\ edits = 0
  /\ touched = {}
  /\ at = "start"
  /\ swallowed = {}
  /\ failures = 0
  /\ listed = {}
  /\ diffs = <<>>
  /\ parsed = 0
  /\ announced = <<>>
  /\ queue = <<>>
  /\ calling = {}
  /\ comment = NoComment

(* The user. In range mode the edits stand for the commits before the run. *)
UserStep(f) ==
  /\ edits < MaxEdits
  /\ edits' = edits + 1
  /\ touched' = touched \cup {f}
  /\ UNCHANGED <<runner, mode, setup, hasHead, load, comment>>

Loading  == at \in {"base", "diff", "staged", "list", "read", "parse"}
MayTouch == at = "start" \/ (Loading /\ mode = "workspace")

Edit(f) ==
  /\ MayTouch /\ UserStep(f)
  /\ \E c \in (Contents \cup {Absent}) \ {worktree[f]} : worktree' = [worktree EXCEPT ![f] = c]
  /\ UNCHANGED index

GitAdd(f) ==
  /\ MayTouch /\ mode = "workspace" /\ UserStep(f)
  /\ index[f] # worktree[f]
  /\ index' = [index EXCEPT ![f] = worktree[f]]
  /\ UNCHANGED worktree

GitRmCached(f) ==
  /\ MayTouch /\ mode = "workspace" /\ UserStep(f)
  /\ index[f] # Absent
  /\ index' = [index EXCEPT ![f] = Absent]
  /\ UNCHANGED worktree

------------------------------------------------------------------------------
(* The load. Each git command is a call of the Runner. *)
GoTo(place) == at' = place

LoadBegins ==
  /\ at = "start"
  /\ GoTo(IF mode = "workspace" THEN "diff" ELSE "base")
  /\ touched' = {}
  /\ UNCHANGED <<runner, mode, setup, hasHead, worktree, index, edits,
                 swallowed, failures, listed, diffs, parsed, announced, queue, calling, comment>>

Commanding == at \in {"base", "diff", "staged", "list"}
              \/ (at = "parse" /\ mode = "range" /\ parsed < Len(diffs)
                   /\ ~diffs[parsed + 1].isDeleted)

StartGit == Commanding /\ Begin(Main) /\ UNCHANGED <<repo, load, comment>>

GitFails == failures < MaxFaults /\ failures' = failures + 1
GitWorks == UNCHANGED failures

(* computeMergeBase: an error or no base at all ends the load. *)
MergeBase ==
  /\ at = "base" /\ Finish(Main)
  /\ \/ GitWorks /\ GoTo("diff")
     \/ GitFails /\ GoTo("failed")
  /\ UNCHANGED <<repo, swallowed, listed, diffs, parsed, announced, queue, calling, comment>>

RangeDiff ==
  /\ at = "diff" /\ mode = "range" /\ Finish(Main)
  /\ \/ GitWorks /\ GoTo("parse") /\ diffs' = DiffRange
     \/ GitFails /\ GoTo("failed") /\ UNCHANGED diffs
  /\ UNCHANGED <<repo, swallowed, listed, parsed, announced, queue, calling, comment>>

(* workspaceTrackedDiff: an error, as there is one without a commit, and an
   empty answer are the same, and the index is asked instead. *)
TrackedDiff ==
  /\ at = "diff" /\ mode = "workspace" /\ Finish(Main)
  /\ \/ /\ GitWorks /\ hasHead
        /\ diffs' = DiffHead
        /\ GoTo(IF diffs' = <<>> THEN "staged" ELSE "list")
        /\ UNCHANGED swallowed
     \/ /\ IF hasHead THEN GitFails /\ swallowed' = swallowed \cup {"diff"}
                      ELSE GitWorks /\ UNCHANGED swallowed
        /\ GoTo("staged")
        /\ UNCHANGED diffs
  /\ UNCHANGED <<repo, listed, parsed, announced, queue, calling, comment>>

StagedDiff ==
  /\ at = "staged" /\ Finish(Main)
  /\ \/ GitWorks /\ GoTo("list") /\ diffs' = DiffStaged
     \/ GitFails /\ GoTo("failed") /\ UNCHANGED diffs
  /\ UNCHANGED <<repo, swallowed, listed, parsed, announced, queue, calling, comment>>

(* untrackedFilesList: an error is taken for no untracked file. *)
ListUntracked ==
  /\ at = "list" /\ Finish(Main)
  /\ \/ /\ GitWorks /\ UNCHANGED swallowed
        /\ listed' = {f \in Files : /\ worktree[f] # Absent /\ index[f] = Absent
                                    /\ ~IsPathExcluded(setup.ignored, f)}
     \/ /\ GitFails /\ swallowed' = swallowed \cup {"list"}
        /\ UNCHANGED listed
  /\ GoTo("read")
  /\ UNCHANGED <<repo, diffs, parsed, announced, queue, calling, comment>>

(* untrackedFileDiffs: a file that cannot be read any more is left out. *)
ReadUntracked ==
  /\ at = "read"
  /\ \E f \in listed :
       /\ f = FileOrder[Min({i \in DOMAIN FileOrder : FileOrder[i] \in listed})]
       /\ listed' = listed \ {f}
       /\ diffs' = IF worktree[f] = Absent THEN diffs ELSE Append(diffs, UntrackedDiff(f))
  /\ UNCHANGED <<runner, repo, at, swallowed, failures, parsed, announced, queue, calling, comment>>

AllRead ==
  /\ at = "read" /\ listed = {}
  /\ GoTo("parse")
  /\ UNCHANGED <<runner, repo, swallowed, failures, listed, diffs, parsed, announced, queue, calling, comment>>

(* finalizeDiff, diff by diff: the new content is read from the disk, or from
   the ref by one more git command; what cannot be read is empty. *)
Finalize(content) ==
  /\ diffs' = [diffs EXCEPT ![parsed + 1].content = content]
  /\ parsed' = parsed + 1
  /\ UNCHANGED <<repo, at, swallowed, listed, announced, queue, calling, comment>>

Unparsed == at = "parse" /\ parsed < Len(diffs)

SkipDeleted ==
  /\ Unparsed /\ diffs[parsed + 1].isDeleted
  /\ Finalize(<<>>)
  /\ UNCHANGED <<runner, failures>>

ReadFromDisk ==
  /\ Unparsed /\ ~diffs[parsed + 1].isDeleted /\ mode = "workspace"
  /\ Finalize(Text(worktree[diffs[parsed + 1].newPath]))
  /\ UNCHANGED <<runner, failures>>

ReadFromRef ==
  /\ Unparsed /\ ~diffs[parsed + 1].isDeleted /\ mode = "range"
  /\ Finish(Main)
  /\ \/ GitWorks /\ Finalize(Text(worktree[diffs[parsed + 1].newPath]))
     \/ GitFails /\ Finalize(<<>>)

------------------------------------------------------------------------------
(* The filters, in the order the diffs pass them. *)
EffectivePath(d) == IF d.newPath = DevNull THEN d.oldPath ELSE d.newPath

ShouldReview(d) == WhyExcluded(FileFilter(layers), EffectivePath(d), d.isBinary) = ""

Size(d) == FoldFunctionOnSet(LAMBDA h, n : n + Len(h.raw), 0, d.hunks, DOMAIN d.hunks)

TooLarge(d) == Size(d) > MaxDiffLines

(* GetDiff drops the ignored paths, Agent.Run what should not be reviewed, and
   dispatchSubtasks the diffs that are too large. *)
Loaded(ds)   == Among(ds, {d \in Range(ds) : ~IsPathExcluded(setup.ignored, EffectivePath(d))})
Filtered(ds) == Among(ds, {d \in Range(ds) : ShouldReview(d)})
Kept(ds)     == Among(ds, {d \in Range(ds) : ~TooLarge(d)})

(* countReviewable, printed by the run, and `ocr review --preview`. *)
WillReview(ds) == Among(ds, {d \in Range(ds) : ShouldReview(d) /\ ~d.isDeleted})

(* A subtask starts for each diff of a.diffs that is no deletion. *)
DispatchAll(ds) == ds  \* mutant: deletions are dispatched too
DispatchOf(ds) == Among(ds, {d \in Range(ds) : ~d.isDeleted})

PathOf(d) == d.newPath

DispatchSubtasks ==
  /\ at = "parse" /\ parsed = Len(diffs)
  /\ announced' = WillReview(Loaded(diffs))
  /\ diffs' = Kept(Filtered(Loaded(diffs)))
  /\ queue' = DispatchOf(diffs')
  /\ calling' = {PathOf(queue'[i]) : i \in DOMAIN queue'} \ {DevNull}
  /\ \/ diffs' # <<>> /\ GoTo("review")
     \/ diffs' = <<>> /\ Filtered(Loaded(diffs)) = <<>> /\ GoTo("done")  \* nothing to review
     \/ diffs' = <<>> /\ Filtered(Loaded(diffs)) # <<>> /\ GoTo("failed")  \* all are too large
  /\ UNCHANGED <<runner, repo, swallowed, failures, listed, parsed, comment>>

------------------------------------------------------------------------------
(* The review. Tools of a file's subtask (code_search, file_find, file_read at
   a ref) run git under the file's context; bound: one command each. *)
ToolRunsGit(f) ==
  /\ at = "review" /\ f \in calling /\ Begin(f)
  /\ calling' = calling \ {f}
  /\ UNCHANGED <<repo, at, swallowed, failures, listed, diffs, parsed, announced, queue, comment>>

(* A context that ends between two commands does so as well once the next one
   waits. *)
FileTimesOut(f) ==
  /\ at = "review" /\ call[f] # "idle" /\ ContextEnds(f)
  /\ UNCHANGED <<repo, load, comment>>

GetToken(c)     == Acquire(c) /\ UNCHANGED <<repo, load, comment>>
GiveUp(c)       == Cancelled(c) /\ UNCHANGED <<repo, load, comment>>
ToolAnswered(f) == Finish(f) /\ UNCHANGED <<repo, load, comment>>

(* Every subtask has returned; each cancels its context on the way out. *)
ReviewEnds ==
  /\ at = "review" /\ \A c \in Callers : call[c] = "idle"
  /\ GoTo("done")
  /\ calling' = {}
  /\ gone' = [c \in Callers |-> c \in Files]
  /\ UNCHANGED <<call, sem, repo, swallowed, failures, listed, diffs, parsed, announced, queue, comment>>

(* A comment of code_comment is placed by a pool worker. Neither it nor its
   placing touches git, so it is followed after the tools. *)
AddComment(f) ==
  /\ at = "done" /\ queue # <<>> /\ comment.at = "none"
  /\ \E code \in Codes :
       comment' = [at |-> "new", path |-> f, code |-> code, asked |-> code, place |-> Unplaced]
  /\ UNCHANGED <<runner, repo, load>>

Place(c, d, code) ==
  IF code = <<>> THEN c ELSE [c EXCEPT !.place = ResolveComment(d, code)]

(* resolveAndCollect: a diff that does not show the code is searched again for
   what the re-location task quotes. *)
PlaceComment ==
  /\ comment.at = "new"
  /\ LET named == Naming(diffs, comment.path) # {}
         c     == IF named THEN Place(comment, FindDiff(diffs, comment.path), comment.code)
                           ELSE comment
     IN  comment' = [c EXCEPT !.at = IF named /\ c.place = Unplaced THEN "relocating" ELSE "kept"]
  /\ UNCHANGED <<runner, repo, load>>

(* ReLocateComment: the call fails or has no code block, or the new quote is
   found, or the old one is restored. *)
NewQuoteStays(c, code) == [c EXCEPT !.code = code]  \* mutant: the old quote is not restored
Restored(c, code) == c
ReLocateComment ==
  /\ comment.at = "relocating"
  /\ \/ comment' = [comment EXCEPT !.at = "kept"]
     \/ \E code \in Codes \ {<<>>} :
          LET c == Place(comment, FindDiff(diffs, comment.path), code)
          IN  comment' = IF c.place # Unplaced
                           THEN [c EXCEPT !.at = "kept", !.code = code]
                           ELSE [Restored(c, code) EXCEPT !.at = "kept"]
  /\ UNCHANGED <<runner, repo, load>>

(* When the review is over, what has no lines yet is tried once more. *)
ResolveLineNumbers ==
  /\ comment.at = "kept"
  /\ LET c == IF comment.place = Unplaced /\ Naming(diffs, comment.path) # {}
                THEN Place(comment, LastDiff(diffs, comment.path), comment.code)
                ELSE comment
     IN  comment' = [c EXCEPT !.at = "final"]
  /\ UNCHANGED <<runner, repo, load>>

------------------------------------------------------------------------------
UserNext == \E f \in Files : Edit(f) \/ GitAdd(f) \/ GitRmCached(f)

LoadNext ==
  \/ LoadBegins \/ StartGit \/ MergeBase \/ RangeDiff \/ TrackedDiff \/ StagedDiff
  \/ ListUntracked \/ ReadUntracked \/ AllRead \/ SkipDeleted \/ ReadFromDisk
  \/ ReadFromRef \/ DispatchSubtasks

(* The program goes on while it can: its goroutines run, a git command ends,
   and a free token goes to some goroutine that waits for one. *)
ProgramStep ==
  \/ LoadNext \/ ReviewEnds
  \/ \E c \in Callers : GetToken(c) \/ GiveUp(c)
  \/ \E f \in Files : ToolAnswered(f)

CommentStep == (\E f \in Files : AddComment(f)) \/ PlaceComment \/ ReLocateComment \/ ResolveLineNumbers

Next ==
  \/ UserNext \/ ProgramStep \/ CommentStep
  \/ \E f \in Files : ToolRunsGit(f) \/ FileTimesOut(f)

(* Nobody promises that the user stops, a file times out or a tool wants git;
   the steps of all of them are bounded, so fairness of the program as a whole
   is enough, whichever waiting goroutine a token goes to. *)
Fairness == WF_vars(ProgramStep)

Spec == Init /\ [][Next]_vars /\ Fairness

------------------------------------------------------------------------------
(* Every variable has its type, the Runner's included. *)
TypeOK ==
  /\ RunnerTypeOK
  /\ mode \in {"workspace", "range"} /\ setup \in Setups /\ hasHead \in BOOLEAN
  /\ worktree \in [Files -> Contents \cup {Absent}]
  /\ index \in [Files -> Contents \cup {Absent}]
  /\ edits \in 0..MaxEdits /\ touched \subseteq Files
  /\ at \in {"start", "base", "diff", "staged", "list", "read", "parse", "review",
             "done", "failed"}
  /\ swallowed \subseteq {"diff", "list"} /\ failures \in 0..MaxFaults
  /\ listed \subseteq Files /\ calling \subseteq Files
  /\ \A i \in DOMAIN diffs : /\ diffs[i].oldPath \in Files
                            /\ diffs[i].newPath \in Files \cup {DevNull}
                            /\ diffs[i].isDeleted <=> diffs[i].newPath = DevNull
  /\ parsed \in Nat
  /\ comment.at \in {"none", "new", "relocating", "kept", "final"}

(* A file that has text changes the run would review, and that nobody touched
   while it was loading. *)
PlainText(c) == c.is # "binary" /\ \A i \in DOMAIN Text(c) : Text(c)[i] \notin IsMarker

Changed(f) ==
  /\ worktree[f] # Absent
  /\ hasHead /\ (mode = "range" \/ index[f] # Absent) => worktree[f] # Committed[f]

Reviewable(f) ==
  /\ f \notin touched \cup setup.ignored
  /\ \A c \in {worktree[f], index[f], Committed[f]} : PlainText(c)
  /\ WhyExcluded(FileFilter(layers), f, FALSE) = ""

TimesQueued(f) == Cardinality({i \in DOMAIN queue : queue[i].newPath = f})

(* Although the workspace is read by two or three git commands and one read per
   file, with the user at work in between, each changed file the user left
   alone is reviewed exactly once, tracked or not, and an unchanged one is not,
   unless its diff is too large, a command's failure was taken for no output, or
   the index has a change the worktree does not have (git.go:131-145, 267-276).
   The run and the preview announce the files whose subtasks start, and those
   dropped for size (preview.go:73-113, agent.go:779-791). *)
ChangesReviewedOnce ==
  /\ at \in {"review", "done"} /\ swallowed = {} =>
       \A f \in Files : Reviewable(f) =>
         /\ Changed(f) => \/ TimesQueued(f) = 1
                         \/ \E i \in DOMAIN announced : announced[i].newPath = f /\ TooLarge(announced[i])
         /\ TimesQueued(f) > 0 => worktree[f] # Committed[f] \/ index[f] # Committed[f] \/ ~hasHead
         /\ TimesQueued(f) <= 1
  /\ at \in {"review", "done"} => queue = Kept(announced)

(* "Preview which review rule applies to a file path" (README.md:342): what
   `ocr rules check` prints is the rule the review gives the model, in every layer
   order. Not where a layer's first entry for the path has no text: there the two
   walks do differ, the review stops at the entry and the command goes on
   (system_rules.go:383-410), and the property says nothing. *)
FirstEntryEmpty(path) ==
  \E l \in DOMAIN layers : /\ Matching(layers[l].rules, path) # {}
                           /\ MatchRule(layers[l].rules, path) = ""
RuleShownIsRuleUsed ==
  \A path \in Files :
    FirstEntryEmpty(path) \/ ResolveDetail(layers, path).rule = Resolve(layers, path)

(* A place names the lines of the quote, its blank ones left out: in the new file,
   or in the old one when no hunk shows them in the new one. Only the diffs of
   files read as they were when git printed their diff are judged. *)
Steady(d) == d.content = Text(d.new)
Quoted    == SplitAndNormalize(comment.code)
At(text, first) ==
  /\ first + Len(Quoted) - 1 <= Len(text)
  /\ \A j \in DOMAIN Quoted : Norm[text[first + j - 1]] = Quoted[j]
InHunk(h, first) ==
  first >= h.newStart
    /\ first + Len(Quoted) <= h.newStart + Len(Side(h, TRUE))
PlacedIn(d) ==
  /\ comment.place.end = comment.place.start + Len(Quoted) - 1
  /\ \/ At(Text(d.new), comment.place.start)
     \/ /\ At(Text(d.old), comment.place.start)
        /\ \A h \in DOMAIN d.hunks : \A first \in DOMAIN Text(d.new) :
             ~(At(Text(d.new), first) /\ InHunk(d.hunks[h], first))

(* The text has the quote as it stands, line by line, somewhere. *)
HasLines(text, code) ==
  \E first \in DOMAIN text :
    /\ first + Len(code) - 1 <= Len(text)
    /\ \A j \in DOMAIN code : Norm[text[first + j - 1]] = Norm[code[j]]
QuotesBlank(code) == \E j \in DOMAIN code : Norm[code[j]] = ""

(* A comment that got lines points at the code it quotes. One that got none keeps
   the quote it came with; the new file does not have the quote's lines, its blank
   ones left out, in a row, so that a quote without a blank line is not in it
   (resolver.go, relocation.go, and the numbers counted from hunk headers). Two
   exceptions: a quote with a blank line between its lines may be in the file as
   it stands and get no lines, because the code drops the blanks of the quote and
   not those of the file (resolver.go:169-207); and a file that was edited between
   git's diff and its reading may send a comment elsewhere (Steady). *)
LinesPointAtTheCode ==
  comment.at = "final" /\ Naming(diffs, comment.path) # {} =>
    LET named == {diffs[i] : i \in Naming(diffs, comment.path)}
    IN  (\A d \in named : Steady(d)) =>
          /\ comment.place # Unplaced => \E d \in named : PlacedIn(d)
          /\ comment.place = Unplaced =>
               LET text == Text(LastDiff(diffs, comment.path).new)
               IN  /\ comment.code = comment.asked
                   /\ Quoted # <<>> => \A first \in DOMAIN text : ~At(text, first)
                   /\ comment.code # <<>> /\ ~QuotesBlank(comment.code)
                        => ~HasLines(text, comment.code)

(* The load and the review's git commands come to an end: every call of the
   Runner gets its token or its context's error. *)
LoadEnds == <>(at \in {"done", "failed"})
=============================================================================
