# TLA+ models of gitlab-task-hook

`gitlab-task-hook` is a GitLab `pre-receive` hook. Its rules come from a YAML
configuration kept at a Nacos server; a second process, `config-sync`, copies
that configuration to a local cache file, and every push starts a hook process
that reads the file, runs git commands and accepts or refuses the push.

This directory holds TLA+ modules of the parts in which several processes meet
(the cache files, the sync daemon, the judging of overlapping pushes) and of what
lies between them (how a configuration is validated, loaded and reported by), the
TLC configurations that check them on small instances, and proofs, checked by
TLAPS, that the safety properties hold for every value of the constants.

    tlc -workers 2 -config Cache_publish.cfg MCCache     one run (see the table)
    tlapm CacheProofs.tla                                one proof module

Source paths below are relative to the root of the repository; `cache.go` is
`internal/config/cache.go`, `syncer.go` is `internal/nacos/syncer.go`,
`rule.go`, `input.go` and the rules' `validator.go` are in `internal/hook`,
`loader.go`, `compiled.go`, `defaults.go` and the configuration's `validator.go` in
`internal/config`.

## The system

| component | state it keeps | operations | interacts with |
|---|---|---|---|
| local cache (`cache.go`) | cache file, meta file, lock file, one temporary file per name and pid | `AtomicWrite`: validate, flock, write the two files one after the other | written by the syncers, read by the hooks |
| configuration (`loader.go`, `validator.go`, `compiled.go`, `model.go`, `defaults.go`) | none | `Load`, `Validate`, `Compile`, `DefaultConfig` | `AtomicWrite` validates before writing, a hook after reading |
| config sync (`syncer.go`, `client.go`, `sdk_client.go`) | `lastMD5`, the listener registered with the SDK, the context | `SyncOnce`, `Watch`, the change callback, `runPoll` | Nacos server through the SDK, local cache, systemd |
| rule engine (`rule.go`, `validator.go`) | one ref update, the loaded rules, the loop over new commits | `CheckRef`, `checkCommit` | git runner; other pushes through the repository's refs |
| git runner (`internal/git/git.go`) | none | `merge-base`, `rev-list`, `log` | repository |
| push input (`input.go`, `internal/env/env.go`) | none | `ParseStdin`, `env.Load` | git, Gitaly |
| messages (`internal/message/message.go`) | none | one function per violation, `render` | rule engine, templates of the loaded configuration |
| bootstrap, log | none | read at start, open | command line program |
| command line program | none | root bypass, enabled, warn mode, exit codes | everything; **its source is not in the repository** |

What is hard in it, and what makes each part correct:

* *Local cache.* Callbacks of one process share the name of their temporary
  files; several processes share the published names; a hook reads whenever it
  likes; system calls fail, processes die, power goes. Correct means: a reader
  sees one whole validated configuration, what is published survives a power
  loss, nil is returned only for what is in place, a failure blocks nobody.
* *Config sync.* Fetch, lock and write are separate moments; a write may fail
  between the two files; the process restarts. Correct means: once the server
  stops changing, the cache comes to hold its configuration.
* *Rule engine.* Each answer of git is about the refs of its moment, and other
  pushes move them. Correct means: the verdict is the one the documented rules
  give, no commit gets into the repository without a push that answers for it,
  no branch is rewritten.

* *Configuration.* The same fields are read by `Validate` before the cache is
  replaced and by `Validate` and `Compile` in every hook. Correct means: what the
  first accepts the second accepts; a file that cannot be read in full refuses
  the push and never switches a rule off.
* *Push input.* git moves all refs of a push or none. Correct means: every line
  is judged before the hook exits 0.
* *Messages.* Templates come from the configuration and may fail in the middle.
  Correct means: one whole message, about the push and the commit at fault.

`PROJECT.json` lists each hazard at its line with the properties that cover it.

## The modules

| module | models |
|---|---|
| `PublishedConfig` | what the cache promises: two recoverable registers |
| `Cache` | `AtomicWrite` down to its system calls, and hooks that read |
| `ConfigSync` | the daemon, its callbacks, `--once` processes, on the registers of `PublishedConfig` |
| `PushPolicy` | what the rules are about (refs, history, a push, the rules) and what each asks of a push |
| `GuardedRepository` | what the hooks promise: refs that change one lawful push at a time |
| `HookRules` | `CheckRef` for overlapping pushes to one repository |
| `PushGate` | a hook process with a push of several refs, on top of `HookRules` |
| `Messages` | the package `message`: contexts, templates, `render` |
| `HookConfig` | `Validate`, `Compile`, `Load`, the built-in configuration, the hook that loads and reports |
| `MCCache`, `MCConfigSync`, `MCHookRules`, `MCPushGate`, `MCHookConfig` | their instances for TLC |
| `CacheProofs`, `ConfigSyncProofs`, `HookRulesProofs`, `PushGateProofs`, `HookConfigProofs` | theorems and proofs |

`ConfigSync` does not repeat `Cache`: it writes the files with the actions of
`PublishedConfig` (`INSTANCE`, under the name `File`), and `Cache` is proved to
implement `PublishedConfig`. That `ConfigSync` as a whole uses the files as
`PublishedConfig` allows is a property of it, and proved. `HookRules` and
`GuardedRepository` extend `PushPolicy`, and `HookRules` implements
`GuardedRepository`. `PushGate` extends `HookRules`: a hook there is a
line of a push, `PushGate` decides when each line is judged and moved and is
shown to implement `HookRules`. `HookConfig` extends `Messages`; that the file is
replaced in one step, which it takes for granted, is what `Cache` shows, and what
it calls a `CompiledConfig` is what `HookRules` has as a record of rules.

Each module holds, before some action, a *mutant* of it: the action with the
mistake its comment names. No behaviour uses one; they are there to show that
each property fails when the code is wrong in a plausible way.

### PublishedConfig and Cache

`PublishedConfig` has the value of each file (`cur`), the value it has after a
power loss (`durable`) and what each reader holds (`view`). A step replaces the
cache by a valid configuration, makes the meta file describe what the cache
holds then, makes a value durable, or loses some non-durable replacements.

`Cache` has the file system: `link` and `dlink` map the published names to
inodes (now, and on disk), `tmp` the temporary names (one per published name
and pid), `data` and `synced` describe inodes, `lock` is the flock. A goroutine
in `AtomicWrite` is a `pc` that goes through
`lock, open, write, sync, close, rename` for the cache file, `open` to `rename`
again for the meta file when `MetaFile` is set, and `unlock` (the deferred
`releaseLock`).

| action | code |
|---|---|
| `Call` | `AtomicWrite` up to its validation (`cache.go:44-52`) |
| `Lock`, `LockFail` | `acquireLock` (97-107) and its error (54-57) |
| `OpenTmp`, `Write`, `Sync`, `Close`, `Rename` | `atomicWriteFile` (115-143) |
| `Fail` | each of its error returns, with the `os.Remove` that may itself fail |
| `Unlock` | `releaseLock` (109-112) on every return |
| `ReaderOpen`, `ReaderClose` | `os.ReadFile` in `Load` (`loader.go:31`) |
| `Kill`, `Flush`, `PowerLoss` | the kernel and the machine |

Two things that matter are kept: inodes outlive their names while somebody has
them open, so a reader keeps what it opened; and a temporary file left behind
is reused, `O_TRUNC`, by the next writer with that pid. The content of the meta
file is reduced to the configuration whose MD5 it carries. After a power loss a
synced inode has its data, any other may have lost it; a directory entry may or
may not have been written back.

### ConfigSync

`server` is the configuration at Nacos, `cur` and `durable` the local files,
`pc[t]` and `arg[t]` the place of a goroutine and the content in its hand.
Goroutines are the daemon's `Watch`, its callbacks and the `--once` processes.
`PutCache` and `PutMeta` write the content in the goroutine's own hand, as
`BuildMeta` (`cache.go:84-94`) computes the MD5 of the caller's content before the
lock is taken; that the meta file nevertheless describes what the cache holds is
what the lock is for.

| action | code |
|---|---|
| `StartDaemon`, `StartOnce` | the unit file starts `--watch`; `SyncOnce` from the command line |
| `Get`, `GetFail` | `GetConfig` in `SyncOnce` (`syncer.go:37`) and in `runPoll` (106), with the comparison with `lastMD5` (112) and the validation that `applyConfig` starts with |
| `Acquire`, `LockFail`, `PutCache`, `PutMeta`, `WriteFail` | `AtomicWrite` |
| `Finish` | what follows: line 59, 66, 116 (logged) or 118 (`lastMD5 = m`) |
| `Listen`, `ListenFail` | lines 62-75: listening, or falling back to polling |
| `Notify` | the SDK runs the callback, on a goroutine of its own |
| `Tick`, `Exit` | the two cases of `select` (101-105); `<-ctx.Done()` (77) |
| `Stop`, `Die`, `PowerLoss` | SIGTERM, kill -9, power |

The SDK is not in the repository. It is modelled as this code uses it: its base
line (`known`) is what this process fetched or was handed last; when the server
differs, it fetches and calls the callback once. `mode` is `watch` or `poll`
as `watch_enabled` says, and `polling` once `runPoll` runs. Restarting the
process forgets `known` and `lastMD5` and may find another mode in its bootstrap
file.

### HookRules

`refs` is the repository; each hook has its ref update and environment
(`push`), the rules it loaded, the commits that `rev-list` printed (`commits`, as in
`CheckRef`), those of them still to check (`left`), the one at hand (`at`) and its
verdict. One step per git command, in the order of `CheckRef` (rules 1 to 6)
and `checkCommit` (rules 7 to 14); `GitFail` can happen at each place where
`RunsGit` says a command runs. Between the steps other hooks are judged, land
or are refused. `Land` is git's: it moves the ref if it still has its old value.

History is the constant `Reach` (which commits a commit reaches: reflexive,
transitive, antisymmetric) with the number of parents, the email and the
subject of each commit. A regular expression is the set of names it matches,
`{}` when the compiled one is nil. `ToLower` is a constant function; an email
is the sequence of its parts at `@`, a path of its parts at `/`. `merge-base`
answers any best common ancestor, `rev-list new --not --all` exactly what the
refs of that moment do not reach, in any order. The old value that git gives a
hook is a value the ref has had (`Held`), not always its value of the moment.

`GuardedRepository` has `refs` and the set of pushes that moved them, with the
rules of each (`landed`; in `HookRules` the pushes of the hooks that have landed).
Its only action moves a ref from its value of the moment by a push that is `Lawful`
(a deletion, a tag, or neither a rewrite nor a denied protocol, as its rules say),
and each new commit that the push contains must be answered for by that push or
by one that landed before. There are no hooks, no git commands and no verdicts in
it: it is `pre-receive` as an administrator reads the README.

### PushGate

`cmd[p]` is what git and Gitaly tell the hook of push `p` (its lines, the user,
the protocol) with the configuration it loads, `exit[p]` how it exits. `ParseStdin`
and `Update` are the lines that `ParseStdin` loops over and the record it builds of
each (its branches for blank and malformed lines and for a scanner error are not
modelled: a line of the model is a triple); `CheckLine` hands
the next line to `CheckRef` (the actions of `HookRules`, `CheckOn`), if those
before it passed; `ExitOK` and `ExitRefused` end the process, `Move` and `Drop` are
git's. The refs of a push differ and each is asked to change, as git sends them.
The loop and the exit codes belong to the missing command line program; they are
taken from the repository's README ("any violation refuses the push").

### Messages and HookConfig

A template is the sequence of its pieces: a field, a text, or a piece whose
execution fails. `Execute` stops there and leaves what it has written;
`Render` is `render` (`message.go:172-184`), `Context` and `CommitFields` the contexts
that `CheckRef` and `checkCommit` fill in, `DefaultTemplate` the fields of the four
built-in templates in their order, without the wording.

A configuration (`HookConf`) has the fields that `Validate`, `Compile` or the
messages read. A pattern is a string that compiles or not (`Regexps`), a template one
that parses under some names (`ParsesAs`): text/template refuses a text that
defines a template of the name it is parsed under.

| definition | code |
|---|---|
| `Validate`, `Compile`, `Load`, `DefaultConfig` | the functions of these names |
| `Sync` | `AtomicWrite` as far as its validation decides (`cache.go:44-52`) |
| `Edit` | an administrator writes or removes the file |
| `LoadFile`, `ReadFail` | a hook starts: each outcome of `Load` |
| `Violate`, `Pass` | `CheckRef` finds one of the violations its rules can find, with the message, or none |

## What the runs check

| run | instance | properties |
|---|---|---|
| `Cache_publish` | 2 goroutines of one process, 2 valid and 1 invalid content, both files, 1 fault | `TypeOK`, `PublishedIsDurable`, `AckMeansPublished`, `Implements` |
| `Cache_readers` | a goroutine of each of 2 processes, 1 hook, the cache file only, 1 fault | `NoTornRead`, `Returns` |
| `ConfigSync_sync` | the daemon in either mode, 1 callback at a time, 3 publications, 3 faults (fetch, listen, death, power, SIGTERM; polling also lock and cache write) | `TypeOK`, `RemembersCache`, `ListenerKeepsUp`, `NoIdleRewrite`, `SkipsOnlyWhatIsThere`, `Converges`, `StopsWhenAsked` |
| `ConfigSync_race` | daemon, 2 callbacks, a `--once` process, 2 publications, 1 fault | `MetaDescribesCache`, `ImplementsPublishedConfig`, `OnceEnds` |
| `ConfigSync_lost_write` | listening, 1 callback at a time, 1 publication, 1 failing write | `ChangeArrives` is **violated** |
| `ConfigSync_rollback` | polling, 1 failing meta write, 2 publications | `Converges` is **violated** |
| `ConfigSync_stale` | polling daemon, a `--once` process, nothing fails | `Converges` is **violated** |
| `HookRules_gate` | 2 hooks, 6 commits, 2 branches and a tag, 2 protocols, 3 configurations, 1 failing command | `TypeOK`, `Guarded`, `VerdictIsDue`, `NoRewrite`, `ImplementsRepository` |
| `HookRules_allow` | 1 hook, a rule with `allow_protocols` only | `OnlyAllowedProtocols` is **violated** |
| `PushGate_batch` | 2 pushes of 1 or 2 refs, 3 commits, 2 branches, 1 configuration, 1 failing command | `GateTypeOK`, `AllOrNothing`, `ImplementsHookRules` |
| `HookConfig_load` | 1 hook, a full configuration and the ways to spoil it, an empty file, no YAML, 4 templates, 2 pushes | `TypeOK`, `SyncedLoads`, `FailsClosed`, `MessageIsWhole` |
| `HookConfig_accepted` | the same | `EverySyncedLoads` is **violated** |

* `NoTornRead`: what a hook has open is a validated configuration, however
  long it reads.
* `PublishedIsDurable`: what the names are linked to, and may fall back to, is
  valid and fsynced.
* `AckMeansPublished`: nil is returned only while both files hold the content.
* `Implements`: `Cache` refines `PublishedConfig`.
* `Returns`, `OnceEnds`: nobody waits for the flock for ever.
* `RemembersCache`: `lastMD5` is the content of the cache.
* `NoIdleRewrite`: once `runPoll` has applied something, a replacement of the
  cache changes it.
* `SkipsOnlyWhatIsThere`: a tick of `runPoll` that finds the MD5 unchanged leaves
  files that both hold what the server answered.
* `ListenerKeepsUp`: while `Watch` listens and no callback runs, both files hold
  what the SDK fetched last, if it is valid.
* `ImplementsPublishedConfig`: `ConfigSync` changes the files only as
  `PublishedConfig` does.
* `MetaDescribesCache`: without faults the meta file describes the cache.
* `Converges`: if the server ends with a valid configuration, both files do.
* `ChangeArrives`: what a callback is handed reaches both files, unless the server
  has changed again.
* `StopsWhenAsked`: a cancelled `Watch` returns.
* `Guarded`: every commit a ref reaches was there at the start or came by a
  landed push that answers for it (a deletion, a tag, the web bypass, or the
  commit rules of that push).
* `VerdictIsDue`: if no git command failed, a branch update passes exactly when,
  of the rules stated without their order of evaluation, neither the one on rewrites
  nor the one on protocols is against it, and every commit that `rev-list` printed
  obeys the committer and the task id rule (or the web bypass applies). Otherwise the
  verdict is the reason that comes first, for a commit that has it. What `rev-list`
  left out was there at the start or is answered for. So an early return in the
  wrong place (a whitelist before the committer rule: the mutant) is caught, and so is
  a commit passed over.
* `NoRewrite`: a push judged with the non-fast-forward rule on never moves a
  branch to a commit that does not descend from its tip of the moment.
* `ImplementsRepository`: `HookRules` refines `GuardedRepository`.
* `AllOrNothing`: a ref has moved only if every line of its push was let pass.
* `ImplementsHookRules`: `PushGate` refines `HookRules`, line by line.
* `SyncedLoads`: what config-sync wrote a hook loads, if no template defines one
  of its own name; `EverySyncedLoads`: without that condition.
* `FailsClosed`: a hook that judges has each pattern of each enabled rule and
  each custom template compiled.
* `MessageIsWhole`: a message is one template from end to end, the custom one
  unless it fails, and its fields are those of the push and the commit.

**Bounds.** *Faults*: one crash at any point, with every system call failing at
will, already gives a left-over temporary file that is reused and a crash during
the recovery of a failure; the proofs cover any number. *Inodes* (`Ids`): the
largest number in use at once (each name, its entry on disk, a temporary per
process, a reader), so that creation is not what stops a behaviour. *Publications*: three
let the server return to an earlier configuration, which is what a remembered
MD5 can be wrong about. *Hooks*: two are enough for one to act between any two
steps of the other. That commits are brought in by one push, left out of another's
list and the first one's branch is deleted before the second lands takes a third
push: the run does not reach it, `CommitsAreChecked` covers any number.
*Commits*: the six give a fast-forward, a rewrite, an unrelated root, a merge, and each of the ways to fail a rule. In `PushGate_batch` two refs
are enough for a line to pass and another
to fail, three commits for a good and a bad move of each. In `HookConfig_load` every
field that `Validate` or `Compile` looks at is spoilt by itself, and every pattern of
a disabled rule too; hooks share nothing but the file, so one is enough. The two branches,
the tag and the three configurations make each rule decide some push. The
symmetry sets permute contents, and the goroutines of the one process, in
`Cache_publish`, hooks in `HookRules_gate` and pushes in `PushGate_batch`,
where no property is a liveness property.

**Deadlock** is checked in every run. The state in which all pushes are over is
a stuttering step of `HookRules` (`Ended`) and of `PushGate` (`GateEnded`).

**Fairness.** `Cache`: a goroutine in `AtomicWrite` is scheduled (weak), and
the kernel queues the waiters of a flock (strong, `Lock`). `ConfigSync`: the
same, and `GetConfig` returns within its timeout; systemd restarts the daemon
(`Restart=always`); the ticker ticks; the SDK's long poll notices a change;
`select` picks at random among ready cases, so it does not pass over
`ctx.Done` for ever (strong, `Exit`). Nothing is assumed to succeed: faults are
bounded, not unfair, and neither `Publish` nor `StartOnce` must happen.

## What the violated properties say

1. **A rollback can be skipped** (`ConfigSync_rollback`). When the meta file
   fails after the cache file was replaced (`cache.go:69`), the caller is told that
   nothing was written, and `lastMD5` is still the earlier configuration; if the
   operator rolls back to it, line 112 skips it for ever and the withdrawn
   configuration stays in force.
2. **A change can be lost in listen mode** (`ConfigSync_lost_write`). The server
   changes, the SDK hands the change to the callback, its write fails: the callback
   (`syncer.go:65`) logs the error, and nothing tries again until the next change. The
   same holds of a failing initial write (`syncer.go:58`) if `Watch` then listens.
3. **A `--once` run can put an old configuration back** (`ConfigSync_stale`).
   The flock covers the write but not the fetch before it, and the daemon's
   `lastMD5` then hides it. Two concurrent callbacks can do the same.
4. **`allow_protocols` is never read** (`HookRules_allow`). A rule with allowed
   protocols only passes `Validate` and refuses nobody.
5. **config-sync can publish what no hook loads** (`HookConfig_accepted`).
   `Validate` parses a template under the name `""`, `Compile` under its own: for
   `non_fast_forward`, `{{define "non_fast_forward"}}A{{end}}B` is accepted, replaces
   the good configuration, and then every push is refused.

Other disagreements seen in reading, which no run is about: `cache.go:42` says
that the two files are replaced atomically, which holds of each; the first tick of
`runPoll` rewrites an unchanged configuration because `lastMD5` starts empty
(`syncer.go:99`); the callback applies what the SDK hands it where the
requirements (6.3) say the configuration is fetched again; the built-in
configuration enables all the rules where the repository's README says the
force-push rule only (and the comment at `defaults.go:4` says the same); an
enabled rule with an empty `branch_regex` passes `Validate` and applies to no
branch, one with an empty `subject_regex` refuses every commit in its scope; a
comment in `message_test.go` says that a missing field renders as `<no value>`, where
for a struct it is an error, which `render` handles; `case_insensitive: false` and
`check_subject_only: false`
are accepted and have no effect; a commit that came in by a branch out of scope
or by a tag is not looked at again when a protected branch takes it, which
follows from rule 6 and is why `Guarded` is stated as it is.

## What is proved

All theorems are for every value of the constants that satisfies the module's
assumption: any numbers of goroutines, processes, hooks, commits, refs,
configurations, faults.

| module | theorem | property |
|---|---|---|
| `CacheProofs` | `TypeCorrect`, `NoHookReadsATornFile`, `PublishedFilesAreDurable`, `AcknowledgedIsPublished` | `TypeOK`, `NoTornRead`, `PublishedIsDurable`, `AckMeansPublished` |
| | `CacheImplementsPublishedConfig` | `Implements` |
| `ConfigSyncProofs` | `TypeCorrect`, `MetaFileDescribesTheCache` | `TypeOK`, `MetaDescribesCache` |
| | `PollRemembersTheCache` | `RemembersCache`, when the daemon writes alone and no meta write fails (`Alone`) |
| | `UnchangedIsNotRewritten`, `NothingIsSkipped` | `NoIdleRewrite`, `SkipsOnlyWhatIsThere`, likewise |
| | `ListenerMissesNothing` | `ListenerKeepsUp`, when the daemon writes alone, callbacks do not overlap and no lock or write fails while listening (`Serial`) |
| | `SyncersImplementPublishedConfig` | `ImplementsPublishedConfig` |
| `HookRulesProofs` | `TypeCorrect`, `VerdictFollowsTheRules`, `HistoryIsKept`, `CommitsAreChecked` | `TypeOK`, `VerdictIsDue`, `NoRewrite`, `Guarded` |
| | `HooksGuardTheRepository` | `ImplementsRepository` |
| | `NoForeignCommits`, `NoCommitWithoutTask` | (what an administrator may conclude, see below) |
| `PushGateProofs` | `GateTypeCorrect`, `RefusedPushMovesNothing` | `GateTypeOK`, `AllOrNothing` |
| | `PushesImplementHookRules` | `ImplementsHookRules` |
| | `PushesAreGuarded` | `Guarded`, `VerdictIsDue`, `NoRewrite`, `ImplementsRepository` of pushes of several refs |
| `HookConfigProofs` | `TypeCorrect`, `ValidatedIsLoaded`, `LoadFailsClosed`, `MessagesAreWhole` | `TypeOK`, `SyncedLoads`, `FailsClosed`, `MessageIsWhole` |

**Cache.** None of the properties is inductive. `IInv` adds: the goroutine
between `acquireLock` and `releaseLock` is the lock's holder (`LockInv`); how
far it is with its temporary file, whose data is its argument after `write` and
on disk after `sync` (`TmpInv`); no temporary file shares its inode with a
published, durable or open file (`Apart`), which is why truncating a left-over
file harms no reader; whatever others may see is valid and synced (`Sealed`);
how far the holder is with the two files (`Progress`). The refinement follows:
only `Rename` changes a published value, to the holder's valid argument, and
`Progress` makes the second rename describe the first.

**ConfigSync.** `LockInv` ties the lock to the goroutine inside the write, and the
cache to what that goroutine has in hand once it has written it; this is what makes
`PutMeta` a step `PublishMeta` of `PublishedConfig` (`FileStep`), so the refinement
needs no assumption on who writes or what fails.
While there are no faults, the files differ only when some goroutine is between
them (`MetaInv`). A daemon that writes alone changes the cache only between
`PutCache` and `PutMeta`, after which `lastMD5` is updated and both files hold it
(`PollInv`); the runs `ConfigSync_rollback` and `ConfigSync_stale` show what happens
without `Alone`. In listen mode what is to be remembered is the SDK's: `ListenInv`
says that until `Watch` listens nothing has been fetched or it is on its way, and
from then on what was fetched last is in the files or in the hand of the one
callback. `ConfigSync_lost_write` shows that a failing write breaks this, and two
callbacks at once break it by writing in the other order. Together
`SkipsOnlyWhatIsThere` and `ListenerKeepsUp` are the safety part of `Converges`:
where a step decides that nothing is left to be done, nothing is.

**HookRules.** `JudgedAt` says what the steps already taken have established of
a push at each place of `CheckRef` (`Judged`), that of the commits `rev-list` printed
all but the one at hand and those left obey the rules (`Looped`), and hence what its
verdict means (`Due`). `FastForward` proves that comparing `merge-base` with the old
tip is testing whether the new tip reaches it, whichever best ancestor git prints.
`CoverAt` says that each commit of the push that `rev-list` left out has been answered
for: a ref reached it then, so by `Guarded` it is old or admitted, and both last.
`Guarded` is thus proved with `JudgedAt` and `CoverAt` as one invariant (`GuardInv`),
from which `VerdictIsDue` follows: `Due`, with `CoverAt` for what was left out. A push
that passed answers for its commits or others do (`PassedAnswers`), which is what
`Guarded` needs when it lands. `NoRewrite` follows from `JudgedAt` and the comparison
with the old value when the ref is moved. `ImplementsRepository` follows from the
same invariant, step by step: only `Land` changes `refs` or the set of landed pushes
(`LandedStep`); there the comparison with the old value makes the push one for the
ref's value of the moment, `JudgedAt` makes it lawful, and `PassedAnswers` accounts
for its commits (`LandsLawfully`).
`NoForeignCommits` and `NoCommitWithoutTask` draw the conclusions from `Guarded` that
the rules are there for. Their hypotheses are on the configurations, those that an
administrator controls: the rule is on for every branch, nothing is whitelisted, the
web bypass is off (with it on, `CheckRef` returns before the commits). A commit that
a tag has brought is excepted (`CameByBranch`), because rule 2 lets tags pass and
`rev-list --not --all` then leaves the commit out. Each new commit then was in a
landed push to a branch by its own committer, and in one under whose rules its
subject or its parents are in order.

**PushGate.** `GateInv` relates the variables of a push to those of its lines: a
line that has started is the ref update its push was told of, lines move only
after exit 0, and then all of them had passed. `StepSimulation` maps each step to
one of `HookRules` or to none; the old value of a line that waits its turn may go out
of date meanwhile, but stays one the ref has had (`HeldGrows`), which is all that
`HookRules` asks. The corollary then needs no argument of its own.

**HookConfig.** `ConfigInv` adds to the types that what config-sync wrote passed
`Validate`, that what a hook judges by is `Compile`'s result for some configuration, and
that a text is `Render`'s. `ValidatedIsLoaded` is then that `Validate` implies `Compile`
where the name of a template makes no difference; that `DefaultConfig` compiles
(`DefaultCompiles`, from the assumption that its expressions do) is why
`loader.go:34` may drop the error. `RenderWhole` shows that what a failing template has
written is gone from the text.

**Only model-checked.** The liveness properties (`Returns`, `Converges`,
`ChangeArrives`, `StopsWhenAsked`, `OnceEnds`): liveness under fairness is out of the reach of
the prover, as are `ENABLED`, induction over data and `RECURSIVE` operators.
The modules with theorems use none of these.

## What is assumed of the outside

flock, rename and fsync as POSIX and Linux document them, on one machine; git
moves a ref only from the value the hook was given; the hook's exit status
follows `CheckRef`'s results as in enforce mode; git's lines have three fields and
name each ref once; the configuration of a push is loaded once, when it starts; the Nacos server
answers with what was published last.

## What is not modelled

* The command line program, because its source is missing: root bypass,
  `enabled`, warn mode, exit codes.
* What `ParseStdin` warns of (malformed lines, a scanner error): git writes none,
  and who reads the warnings is in the missing program.
* Logging, bootstrap files (required fields and defaults, read once; their
  `watch_enabled` is `Modes`), `parseServerAddr`, the choice of paths, the wording of
  messages, build and deployment scripts: text, input and output, no state that others use. The
  restart policy of the systemd unit is in `ConfigSync` (its start limit is not).

## Plan

Done, in this order: `PublishedConfig` and `Cache` (everything else reads or
writes through them), `ConfigSync` on top, `HookRules`, `PushGate` on top of it,
`Messages` and `HookConfig`; each with its runs, then its proofs.

Left, in the order of what each would add:

1. The callbacks with an order (a sequence number per change), to state which
   orders of delivery the lock does preserve.
2. `HookConfig`'s compiled configurations as the `Configs` of `HookRules`, with
   patterns as the sets they match, so that an enabled rule of the file is a rule of
   the policy in one specification.
3. Warn mode, root bypass and exit codes, when their source is available.
