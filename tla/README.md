# A verification project for clouddeployctl

`clouddeployctl` turns a fresh Ubuntu host with an NVIDIA GPU into a streaming
desktop. It runs a fixed pipeline of phases, records each one in
`/var/lib/clouddeploy/state.json`, reboots the host where drivers or a release
upgrade ask for it, and comes back through a systemd unit. What is hard about it
is what happens between two lines: a power loss while a phase runs, a second
invocation in another terminal, a write that fails and is not looked at, a reboot
that is asked for again and again.

This directory holds TLA+ modules translated from the Go code, TLC runs on small
instances of them, and proofs, checked by TLAPS, that hold for every instance.
File names and line numbers below are those of the repository.

    tlc -workers 2 -config deploy_serial.cfg MCDeploy.tla
    tlapm DeployProofs.tla

## 1. The system

### Components, their state and their operations

| component | source | state | operations |
|---|---|---|---|
| state file | `internal/state/state.go` | `state.json`: a status and details per phase, `reboot_needed`, its target, three reboot counters | Load, Save (temp file, fsync, rename), Mark*, RecoverInterruptedRunningPhases, SetRebootNeeded, RecordRebootRequest |
| commands | `cmd/clouddeployctl/main.go` | the loaded state in memory, flags | apply, resume, phase, state reset, sunshine reset-credentials (state changing); doctor, validate, monitor, collect-logs, state show (read only) |
| phase pipeline | `internal/phase/*.go`, `applyPhases()` | the host | 20 phases, each a `Run` that marks itself running, works and records a result, or asks for a reboot |
| reboot and continuation unit | `internal/reboot/reboot.go` | the unit file, its enablement | Install, Disable, Reboot; the boot that starts `resume` |
| process lock | `internal/state/lock.go`, `signal_unix.go` | `state.lock` with a pid | AcquireWithRecovery, Release |
| apt transaction | `internal/apt` | `policy-rc.d`, its backup, dpkg | waitForLocks, InstallPolicyRcD, RepairIfNeeded, callback, Restore |
| Ubuntu upgrade | `internal/phase/ubuntu_upgrade.go`, `internal/ubuntu` | stage markers in the Details of its phase | start, resume after reboot, retry, anti-loop guard; the release resolver |
| command runner | `internal/runner` | the process group of one command, a pipe, a deadline | Exec: check, start, wait, SIGTERM and SIGKILL to the tree, result |
| CUDA | `internal/cuda`, `internal/phase/cuda.go` | two places for a toolkit, runfiles in `/var/tmp/clouddeploy-cuda`, the history of attempts | selection policy, apt path, runfile path with retries, verification |
| NVIDIA driver | `internal/nvidia`, `internal/phase/nvidia_driver.go` | packages, kernel module, the notice in dmesg and kern.log | gather evidence, choose a family, plan the clean-up, purge and install, verdict, reboot |
| KWin patch and session | `internal/phase/kwin_*.go` | a built KWin, a unit, its socket, the samples of the gate | build, adopt, recover the socket, start, gate poll, late adoption |
| streaming | `internal/phase/milestone5.go`, `internal/sunshine` | user units, credentials | build, configure, start, validate |
| file repairs | `internal/dpkg`, `internal/sudo` | the dpkg journal, sudoers | quarantine, preserve |
| configuration | `internal/config` | none | parse YAML profiles |
| bootstrap, secrets, legacy script | `bootstrap.sh`, `internal/secrets`, `CloudDeploy-wayland.sh` | none kept | sequential scripts and prompts |

### How they interact

* Every mutating command but `state reset` loads `state.json`, *then* takes the
  process lock, and works on its copy until it ends. Memory and disk meet again
  only in `PersistState`, whose error nearly every caller drops.
* The loop of `runPhasesAndBanner` calls the phases in order. A phase returns nil,
  an error, or `ErrRebootRequired`, which goes through `handleRebootRequired`:
  count, check the loop limits, save, install the unit, ask systemd, exit code 2.
* The unit links two invocations across a boot: `resume` is what `apply` becomes.
  Its file is written by `apply` before the first phase (automatic mode) and again
  at each reboot, and removed by whoever reaches the end of the pipeline.
* Phases that install packages run their apt commands as the callback of an apt
  transaction, one at a time because of the process lock.

### What is hard, and what correct means

| component | hard behaviour | what makes it correct |
|---|---|---|
| state file | kill or power loss in a phase; lost saves; a copy that is stale | nothing that was done is done again or forgotten; a reset stays a reset |
| pipeline | reboots in the middle, a later command of another kind, failed phases | a phase runs only after all earlier ones passed |
| reboot loop protection | counters, limits and saves around a crash | every reboot was counted on disk; counts stay within their limits; an automatic deploy ends |
| continuation unit | written in place, removed by the right invocation only | whole and enabled from the first phase of an automatic deploy until it reboots the host |
| process lock | two system calls where one is needed, pids that are reused, double release | one holder; nobody is refused for a lock whose holder is gone |
| apt transaction | crash with the host's helper moved away, failing repair | dpkg only runs behind the helper; the host's helper is never lost and comes back |
| Ubuntu upgrade | interrupted upgrade, recovery that replaces the Details, hops planned afresh after each failure | no upgrade loop; a started upgrade is recognised; dist-upgrade only with clean sources; no reboot into a half-configured system |
| runner | a deadline, the end of the leader and the end of the pipe in any order; children that leave the group | success means exit 0 and whole output; a killed group is dead; a command with a timeout returns |
| NVIDIA driver | a notice that is lost at the reboot, installs that stop halfway, rules that keep and rules that replace | no refused module twice; a working driver is replaced only for cause; done means served |
| CUDA | half toolkits and installers that do nothing, corrupt downloads, a dozen ways to fail | no bytes fail twice; nothing is left staged; the mode decides; done means whole |
| KWin session | the answers of one probe come from several commands, and the compositor restarts between them | what is recorded belongs to one compositor; its socket is not taken from it; the run ends |

`PROJECT.json` lists each hazard at its line with the properties that cover it.

## 2. The modules

| module | models | used by |
|---|---|---|
| `Deploy` | state file, commands, pipeline loop, reboot, unit, kills, power losses, boots | `MCDeploy`, `DeployProofs` |
| `PhaseLedger` | what the pipeline promises of the work it does (abstract) | `Deploy` |
| `PhaseTable` | the order of `applyPhases()` and how each `Run` may end | `MCDeploy` |
| `PhaseLife` | what the pipeline takes for granted of one phase (abstract) | `UbuntuUpgrade`, `NvidiaDriver`, `CudaToolkit`, `KWinSession` |
| `LockService` | what the rest of the program relies on: a lock taken in one step, and who may remove it (abstract) | `ProcessLock`, `Deploy` |
| `ProcessLock` | the lock, system call by system call | `MCProcessLock`, `LockProofs` |
| `AptTransaction` | the apt transaction, file operation by file operation | `AptProofs` |
| `UbuntuPlan` | `internal/ubuntu`: resolver, hops, the plan; the release gate of `apply` | `UbuntuUpgrade` |
| `UbuntuUpgrade` | the `ubuntu_upgrade` phase across failures, crashes and reboots | `MCUbuntuUpgrade`, `UpgradeProofs` |
| `CommandRunner` | one `Runner.Exec` beside the processes of its command | `RunnerProofs` |
| `NvidiaDriver` | the `nvidia_driver` phase over installs, reboots, kills and resets | `DriverProofs` |
| `CudaToolkit` | the `cuda` phase: policy, apt path, runfile loop, verification | `MCCudaToolkit`, `CudaProofs` |
| `KWinSession` | the `kwin_session` phase on the real-VT unit, query by query | `KWinProofs` |
| `MC*` | constants for TLC | the `.cfg` files |
| `*Proofs` | theorems | |

`Deploy` composes state file, commands, pipeline, unit and lock. It sees a phase by
its endings only (`PhaseTable`); the four phases that decide from what an earlier
attempt left behind (`ubuntu_upgrade`, `nvidia_driver`, `cuda`, `kwin_session`) have
modules of their own, with the commands around them reduced to begin, kill, reset
and reboot, and each of the four implements `PhaseLife` with the endings `PhaseTable`
gives for it. All of them rest on the runner: that each of their steps ends is what
`CommandRunner` shows. `LockService` is where the lock meets the rest: `ProcessLock`
implements it (`ImplementsLockService`), and the commands of `Deploy` use the lock as it
says (`UsesLockService`).

### Deploy

A process is an invocation of the binary; `pc` names the places of `main.go`
between which something else can happen.

| variable | in the code |
|---|---|
| `disk`, `present` | content and existence of `state.json` |
| `mem[p]` | `deps.State` |
| `job[p]` | the command, the loop index, automatic or not, started by the unit or not |
| `unit` | the unit file (`"torn"` between truncation and writing), enablement, the `--auto-reboot` of its ExecStart |
| `lock` | `state.lock` (here one step; `ProcessLock` takes it apart) |
| `host` | up, shutting down, down |
| `seen` | history only: reboots asked for, the last result, phases an operator reset |

| action | code |
|---|---|
| `Start`, `Load`, `Acquire` | `loadDeps`, in its order: state first, lock second |
| `Recover`, `Gate`, `Preflight`, `Clear` | the head of `runApply` and `runResume` |
| `UnitOpen`, `UnitWrite`, `UnitEnable` | `Service.Install`, from the head of apply (`early`) and from `handleRebootRequired` |
| `Skip`, `Begin`, `EndEarly`, `Finish`, `AskReboot` | one turn of the loop with the `Run` of a phase |
| `Record`, `Reboot` | `handleRebootRequired` |
| `EndOfPipeline`, `Disable`, `Remove`, `Release` | the end of the loop, `disableContinuationIfPresent`, the explicit release and the deferred one (at `again` when it is the second) |
| `StateReset`, `ResetCredentials` | the two small commands |
| `Kill`, `PowerLoss`, `Shutdown`, `Boot` | the environment |

A save may fail where the constant `SaveMayFail` allows it, with the caller's own
reaction: most go on, `Record` and `Recover` do not. What a phase does to the host
is reduced to how it ends, and `PhaseTable` reads these endings off each `Run`.

### PhaseLedger

Three sets of phases and no commands, statuses, counters, units or locks: `done`, what
state.json records as done; `known`, the same and what the invocation that is alive has
done since; `doing`, the phase whose work is under way. Work is begun on a phase that is
not known to be done, completed, or left; what was not written down is lost when the
invocation stops; an operator may have a phase forgotten. `Deploy` maps its statuses to it
(`Ledger`), and while invocations do not overlap it does nothing else.

### PhaseLife

The status of one phase, to whoever is alive (`status`) and on disk (`saved`), and where
its `Run` is (`at`). A phase that is due is entered and marked running (`Enter`), or ends
before that in one of the ways `Early` (`EndEarly`); from inside it ends in one of the ways
`Body` (`End`) or asks for a reboot (`AskReboot`). A save may be lost, a process that dies
takes its memory along (`Leave`), and only recovery of an interrupted phase or a reset makes
it pending again (`Again`). `Body` and `Early` are the endings in `PhaseTable`. `Resets`
is false for the upgrade and the session, whose modules have no reset: there done is for
good. In each module `LifeAt` and `LifeStatus` say which control point and status the
phase is at, and `LivesAsTabled` is the claim. The modules of the driver, of CUDA and of
the session keep one status for memory and disk, so only the upgrade says something about
lost saves.

### ProcessLock

One action per system call of `AcquireWithRecovery`: exclusive creation, writing
the pid, reading it, asking the kernel whether the pid is alive, removing. A lock
file remembers who made it (`by`, history) because the code does not. Processes
get ids from a small set that other programs use too, so that an id can be taken
again. `Releases` says how often the commands call `Release`: 0 (`phase` through
`os.Exit`), 1, or 2 (`apply` and `resume`, explicitly and by `defer`).

### AptTransaction

One action per file operation on `policy-rc.d` and per dpkg or apt command, with
the error paths of each; the deferred `Restore` runs on every path after the guard
is in place. `sound` is a property of the host: its file operations
succeed, and no crash falls between emptying a file and filling it. `dpkg` has three states because `RepairIfNeeded` has two tools: what
`dpkg --configure -a` mends and what needs `apt-get -f install`. Another program
may take the dpkg lock at any time, as nothing keeps it out.

### UbuntuPlan and UbuntuUpgrade

`UbuntuPlan` holds the pure decisions. A release is the number that `versionInt`
gives it, so that 24.04 is 2404 and the order of releases is that of numbers.

`UbuntuUpgrade` follows one phase through any number of invocations.

| variable | in the code |
|---|---|
| `given` | what is fixed: profile, first release, firmware, whether a write of `state.json` may fail |
| `release`, `packages`, `dpkg` | `VERSION_ID`, the packages a dist-upgrade moves last, what `dpkg --audit` would say |
| `sources`, `foreign` | the release each official apt source names; third-party sources that are active |
| `guards` | nouveau boot guards: none, for an older kernel, for the installed one |
| `mem`, `disk` | the phase's status, the two Details that are read again (`pre_version`, `stage`), the reboot count |
| `run` | locals of `Run` and `runDirectCodenameRewrite` |
| `stuck` | history only: releases to which a reboot asked for by this phase came back |

| action | code |
|---|---|
| `Operator`, `Boot` | apply, resume or `phase ubuntu-upgrade`; the resume of the unit: recovery of interrupted phases, gate, unit |
| `Skip`, `RefuseToLoop`, `AlreadyThere`, `Refuse`, `Begin` | the branches of `Run` |
| `Quarantine`, `Quarantined`, `Guard` | `runDirectCodenameRewrite` up to the transaction, file by file |
| `Transaction`, `Rewrite`, `Rewritten`, `NothingToRewrite`, `Update` | the callback up to dist-upgrade |
| `Unpack`, `NothingUnpacked`, `DistUpgrade`, `Recovery`, `EfiPurge` | `runHardenedDistUpgrade` and `runDpkgRecovery` |
| `Gate`, `EndTransaction`, `Reboot` | audit, check and boot guards; the end of `apt.Run`; `handleRebootRequired` |
| `Crash`, `OperatorReboots`, `AddSource` | the environment |

dist-upgrade is two steps, because packages are unpacked before it ends and
base-files, which carries `VERSION_ID`, may be among them. It may fail or exit 0
wherever it stands, also without effect; apt does not go back to an older release
by itself. The apt transaction is reduced to its outcomes, the lock and the rest of
the pipeline to the commands that start the phase. Left out: stopping
the background apt units and waiting for their locks, the grub preseed (all best
effort), dry runs, an unreadable os-release, and the package probe, which main.go
never sets.

### LockService

| variable | means |
|---|---|
| `lock` | free, left behind (`Left`), or the invocation that has it |
| `works` | invocations that go on as if they had it |
| `clearing` | invocations that do not have it and are about to remove it |

An invocation takes a lock that nobody has (`Take`) and gives it back (`Give`);
invocations end with it (`End`). A member of `clearing` removes the lock whoever has it
(`Clear`): it waited and found the holder dead (`Suspect`), or it already gave the lock
back and calls `Release` again. `Exclusive`, that whoever works has the lock, is only ever
lost to `Clear`; from then on a robbed invocation may in turn give back another's.

`ProcessLock` maps `lock` to the maker of the file if that one relies on it (`Holder`),
`works` to whoever created a file and has not begun to release it, and `clearing` to
whoever is at `steal` or has a second `Release` ahead. `Deploy` maps `works` to every
invocation between `Acquire` and its first `Release`, and `clearing` to those at `again`.
Both hold also after a lock was taken away from its holder.

### CommandRunner

| variable | in the code |
|---|---|
| `spec` | the fields of `CommandSpec` that decide something, and what the host makes of it (root, program found) |
| `pc`, `result` | the caller in `Exec` and `runCommandWithTreeTimeout`; `torn` when a buffer is read while the copy goes on |
| `tree`, `code` | the processes of the command: alive, in its group, holding the pipe, deaf to SIGTERM; exit code of the leader |
| `reaped`, `copying`, `wait` | `Process.Wait`, the copying goroutine, what `cmd.Wait` sent to `waitCh` |
| `expired`, `killed` | the deadline; history: SIGKILL was sent to the group |

| action | code |
|---|---|
| `Check`, `Start` | refusals, dry runs, `cmd.Start` in a process group of its own |
| `Terminate`, `ForceKill`, `GiveUp`, `TakeWait` | `runCommandWithTreeTimeout` after and before the deadline |
| `Reap`, `CopyEnds`, `WaitReturns` | the goroutines of `os/exec` |
| `Command` | the processes: fork, setsid, close, catch, exit |

The leader is reaped as soon as it ends, and from then on `Getpgid` finds no group to
signal. Both streams are one pipe. The only deadline is the timeout, as every caller
passes a background context.

### NvidiaDriver

| variable | in the code |
|---|---|
| `host` | fixed: the GPU and what it accepts, lspci, the archive, the hints of the profile, whether kern.log survives |
| `installed`, `module`, `smi`, `notice` | families dpkg has as installed, the loaded module, `nvidia-smi -L`, the NVRM line in dmesg and in kern.log |
| `status`, `recorded` | the phase in state.json and its `package_family` |
| `pc`, `ev`, `plan` | `Run`, the evidence it decides from, its `CleanupPlan` |
| `runs`, `reboots`, `wrong` | commands so far, `SamePhaseRebootCount`, history: verdicts "wrong flavor" |

`Begin` gathers the evidence, `Decide` selects and plans from it, `Purge`, `Install`
and `AptFails` are the apt transaction, which may stop with any part of it done, and
`Verify` gathers again. `Boot` loads a module of what is installed or none, and forgets
dmesg; `Kill` and `Reset` are the environment. `refuses` says that a GPU does not work
with the closed module: no table of the code tells for every GPU, which is why the
notice matters.

### CudaToolkit

| variable | in the code |
|---|---|
| `profile` | mode, method, runfile and pinned hash, selection policy, package name, archive fallback |
| `canon`, `arch` | the toolkit below `/usr/local/cuda` and that of Ubuntu: the major of its nvcc, and whether headers and libraries are there |
| `files` | runfiles in the staging directory |
| `status`, `pc` | the phase in state.json, `Run` |
| `source`, `package`, `archiveOnly` | what verification takes as the kind of install |
| `attempt`, `attempts`, `file`, `sha` | the loop, the history of the `RetryDecider`, what curl left, its hash |

| action | code |
|---|---|
| `Begin`, `SkipUnwanted`, `AlreadyInstalled`, `ChooseMethod` | `Run` |
| `AptCandidate`, `AptInstall` | `runAptPath` |
| `Stage`, `Download`, `Judge`, `Check`, `InstallRunfile` | `runRunfilePath` |
| `Verify` | `verifyAndFinish` |

An installer may do its work, do nothing and exit 0, or fail with half of it done
(`Outcomes`). A download may differ each time, be too small, break, or lose its hash.
Which candidate apt offers is open, so the order of the ladder, which prefers the
major of the driver, does not matter to the model and is left out.

### KWinSession

| variable | in the code |
|---|---|
| `kwin`, `file`, `fatals` | the compositor of the unit, the socket, generations with a fatal line in the journal |
| `status`, `pc` | the phase in state.json, `Run` |
| `todo`, `sample` | the queries of a probe that are still ahead, the answers so far |
| `gate` | `kwinHealthProbeState` and the turns until the deadline |
| `by`, `seen` | history: the path that succeeded, the compositor that was up when the run set out to make room for its own |

A generation is both the MainPID and the InvocationID of a compositor. Each query of a
probe is a step, and the compositor may bind, print, die or be started by another
between any two. A failed query has the answer the code gives it (a pid of 0, a clean
journal). `Adopt`, `Judge`, `StopUnit` and `Unlink` are the head of `Run`, `WriteUnit` to
`StartUnit` the launch, `GatePoll` a turn of `awaitKWinHealthy`, `Late` to `LateVerify`
late adoption.

## 3. The runs

Bounds are named in the modules: `MaxStarts` commands by the operator, `MaxCrashes`
kills and unasked restarts; control points for crashes are `KillAt` and `LossAt`.

| run | instance | shows |
|---|---|---|
| `deploy_serial` | one process, two phases (`nvidia_driver`, which reboots, and `tailscale`, which reopens), every command, automatic or not, three starts, two crashes anywhere, any save failing; about a million states | reboot counters, order, resets, unit and completion; the deploy implements `PhaseLedger` |
| `deploy_auto` | one automatic `apply`, the three kinds of phases that reboot or pend, two unasked restarts, fairness | the deploy ends (`AutoDeploySettles`) |
| `deploy_two` | two processes, two rebooting phases, every command but `reset-credentials`, two starts, a crash in a phase; about 860 000 states | no command goes on without the lock, nobody frees another's but by a second `Release` (`UsesLockService`) |
| `lock_excl` | three processes, four pids, kills, lost writes, symmetry | exclusion unless a lock was taken away; a dead holder keeps nobody out unless its pid was taken again; the lock implements `LockService`, robberies included |
| `apt_crash` | hosts with and without a sound file system, every first state of helper and dpkg, three crashes | dpkg guarded whatever fails; the callback never starts on a broken dpkg; the host's helper survives but in one case; restored unless a crash came in between; ours never stays |
| `ubuntu_upgrade` | ten combinations of profile, host release, firmware and full disk: one hop, two hops, forced, and every refusal; two source files, one third-party repository, two commands, one crash; fairness | sources clean when dist-upgrade runs, no reboot on half-configured packages, one hop at a time, done means settled, each step brings an invocation nearer to its end, reboots are counted, the phase comes to rest |
| `runner` | a leader and two more processes, each free to leave the group, close its output, catch SIGTERM, fork or end; every kind of `CommandSpec`; a log that may fail; fairness | success is whole, a killed group is dead, Exec returns |
| `nvidia_driver` | every GPU, hint and rotation of kern.log, three archives, five sets of families found there, two commands, two reboots, kills and resets at any step | no wrong flavor twice, every change of packages justified, done means served |
| `cuda_toolkit` | 18 profiles, six first disks, three contents one of which is corrupt, four attempts, two commands, a kill; about 760 000 states | retries, staging, mode, and what done means |
| `kwin_session` | two compositors, any query may fail, a stability of two samples, two turns of each window and one extension; fairness | one compositor behind each success, its socket kept, each step brings the run nearer to its end, the run ends |

Why these bounds are enough to see the interesting cases. The loop looks at one
phase at a time and remembers of the others only whether they passed, so two or
three phases show every relation between an earlier and a later one; the pairs
are chosen to hold the kinds of endings (reboot, skip that reopens, non-fatal,
pending, early return). Three commands allow any command between two others; two
crashes allow one during the recovery of the other. With `MaxReboots = 2`
two phases that reboot in turn are ended by the limit on the total; with 3, one phase
that reboots again and again is ended by the limit of two in a row. Three invocations are needed for a thief that is robbed in turn;
four pids leave one to be reused. In `apt_crash` the third crash falls into
a transaction that already found the remains of two. In `ubuntu_upgrade` two source
files let a kill fall between two rewrites, one third-party file can come back
before a retry, and two commands with one crash and the boots of two hops give each
attempt a predecessor that ended in any way; profiles differ in what `UbuntuPlan`
distinguishes, so each branch of `PlanUpgrade` and of the resolver is taken on some
host. In `runner` two processes beside the leader give every pair of in the group or
out of it, holding the pipe or not, deaf or not, and one that forks the other between
the two signals. `nvidia_driver` has archives with everything, with closed families
only and with one open family only, and hosts with none, one or two families; two
commands let the second meet any half of the first one's work, two reboots are the
limit of main.go:2207 for one phase. In `cuda_toolkit` four attempts make the rule of
three failures bite before the limit does, which with the default of three it never
would; of three contents one fails its check always, and of the others one is the
pinned one; the profiles are those that differ in what the phase reads. In
`kwin_session` a second compositor is the restart between two queries of one probe.
A stability of two samples is the least that can be broken in the middle.

`CHECK_DEADLOCK FALSE` stands where the operator's commands are bounded: after the
last one the host rests, as it should.

Symmetry is used in `lock_excl` only: all invocations run the same code and pids are
opaque. What is checked there are an invariant, an action property and a refinement
without liveness, and none of them names an invocation or a pid: the mapping and the
actions of `LockService` treat all alike.

The type invariant of every module with a specification is proved (section 4), so the
runs do not repeat it. What survives two overlapping invocations is proved for any number
of them: the order in which apply and resume run phases (`PipelineOrder`), the limits on
the recorded reboots (`CountersBounded`), who removes the unit
(`UnitRemovedOnlyWhenPassed`), and the one way in which two come to work at the same time
(`ExclusionLostOnlyToSecondRelease`).

### Fairness

`FairSpec` assumes weak fairness of `Step(p)` (a runnable process runs; its
children have timeouts or end), `Shutdown` (an accepted `systemctl reboot` takes
place) and `Boot` (a host that is down comes up). Nothing is assumed of the
operator, of kills, or of the choice of how a phase ends: a phase that asks for a reboot each time
is a fair behaviour, and it is the loop protection that ends it. The unasked
restarts of `deploy_auto` spare the moment in which the unit file is empty
(`NotInsideUnitWrite`), after which nothing is started at boot. `FairSpec` of
`UbuntuUpgrade` is weak fairness of the phase's steps, each a command with a timeout
or a file operation, and of `Boot`. How each command ends is left open, so a
dist-upgrade that fails or does nothing each time is a fair behaviour, and the loop protection
of `handleRebootRequired` is what ends it: without the count the phase reboots for
ever (the mutant of `UpgradeSettles`).

`CommandRunner` assumes weak fairness of each goroutine and of the timer, and nothing
of the processes: they may run, fork and hold the pipe for ever, and `ExecReturns`
then rests on the two waits after the deadline. It is claimed of commands with a
timeout only; one without may run for ever. `KWinSession` assumes weak fairness of the
phase, each step of which is a command that ends or a pause, and nothing of the
compositor, systemd or logind.

### What the repository says and the code does not do

Each of these runs checks one sentence of a document, and TLC finds a behaviour of
the code that breaks it.

| run | sentence | what happens |
|---|---|---|
| `stale_load` | ARCHITECTURE.md:214, state.go:14 | state is read before the lock is taken; a second apply that gets the lock just after the first one ended works on the old copy and erases its results |
| `upgrade_loop` | V2-V3-PARITY.md:42 | the phase asks for its reboot while `running`, so the resume takes it for interrupted and wipes the marker of the anti-loop guard before the guard reads it; a reboot without effect is followed by another one, until the reboot counters end it |

Further ones are defined beside the properties, each with the sentence it translates,
and TLC finds a counterexample when it is given as an invariant or property:

| definition | sentence | what happens |
|---|---|---|
| `Deploy.ResetSticks`, with two processes | main.go:2292 | `state reset` takes no lock; a running apply saves its own copy over it |
| `ProcessLock.MutualExclusion` | state.go:14 | the lock file has no pid for a moment, and is then taken for stale |
| `ProcessLock.ReleaseKeepsOthersLock` | lock.go:115 | the second `Release` removes somebody else's lock |
| `UbuntuUpgrade.StartedUpgradeRetried` | ubuntu_upgrade.go:39 | dist-upgrade dies after base-files moved `VERSION_ID`; the next run plans a no-op and marks the phase done on half of the packages |
| `CommandRunner.TimedOutTreeIsDead` | runner.go:228 | the leader ends, a child keeps the pipe; at the deadline the group of the reaped leader is not found, nothing is signalled, and the child outlives the command |
| `NvidiaDriver.WorkingFamilyPreserved` | family.go:15 | on a GPU that needs open modules a working open family is replaced by the other open one, which comes first |
| `CudaToolkit.ArchiveAnswersItself` | V3-DEPLOYMENT-READINESS.md:61 | beside half a toolkit in `/usr/local/cuda` its nvcc answers for Ubuntu's (cuda.go:905) |
| `KWinSession.LateJournalIsScoped` | kwin_session.go:1106 | the scoped scan comes only after the unscoped one found nothing, so a healthy compositor is rejected for what its predecessor printed |
| `KWinSession.StabilityIsTime` | kwin_session_prep.go:1084 | the sample after an extension follows without a pause and counts as two seconds |

Seen while modelling and stated here only:

* Deploy. `reset-credentials` takes the lock (main.go:121), so it is refused during
  the deploy that main.go:533 offers it for. `apply` instead of `resume` after a
  requested reboot removes the unit with `reboot_needed` set, which main.go:567 rules
  out. Power lost while the enabled unit file is rewritten in place
  (reboot.go:249), or before any save when `ConditionPathExists` (reboot.go:97)
  finds no `state.json`, keeps the next boot from resuming (main.go:671).
* Lock. Two invocations that saw the same dead holder can rob one another
  (lock.go:92), a second way to break `MutualExclusion`. After a reboot the pid in a lock
  file may belong to any program, or to the `resume` that reads it (signal_unix.go:15),
  which is then refused for a lock that nobody has; `RefusedOnlyInCompany` says that this is
  the only such refusal.
* Apt. `waitForLocks` polls, so "Run holds the dpkg lock" (transaction.go:89) is
  true of nobody, which is why `OtherProgram` may step between any two commands.
  The host's policy helper can be lost: a crash between opening and writing leaves an
  empty helper of ours, which the next transaction renames over the backup
  (policy_rc_d.go:147). `OriginalKept` says that nothing else loses it. After a crash in a
  transaction that had backed up the host's helper, the next one adopts ours, and
  its `Restore` removes it without putting the host's back (policy_rc_d.go:176),
  against policy_rc_d.go:109; `AsFoundUnlessCrashed` is what remains of it.
* Upgrade. A refusal on a fresh record with candidates or a selection policy writes
  into a nil map (ubuntu_upgrade.go:304, 312, 321) and panics before the result is saved
  (`Refuse`). The stage markers never reach the code that would skip a step:
  `MarkRunning` replaces the Details before ubuntu_upgrade.go:353 reads them, so the
  quarantine is always done again, and it has to be: the mutant that keeps them
  runs dist-upgrade with a repository that was added in between. A first hop from 22.04 cut
  off after `VERSION_ID` moved is planned on as 24.04 to 25.10, so that part of
  the packages makes the jump upgrade.go:210 avoids. `RecoverySucceeded`
  is not "exit 0 and a clean audit" (ubuntu_upgrade.go:1162): after the EFI purge a
  clean audit is enough. The waypoint 24.04 need not lead to the target: "the
  deploy's reboot+resume loop naturally chains these" (upgrade.go:300), but from 22.04 under policy `auto`
  a host that is to reach 24.10 or 25.04 gets to 24.04 and is refused there on its next run
  (`HopsChain` says which targets go on). Policy `force` also plans downgrades, which apt then
  does not carry out. A `dpkg --audit` that cannot be run prints nothing and counts as clean
  (ubuntu_upgrade.go:1420); `RebootSound` exempts these runs by name.
* Runner. A write error of the log ends the copy, and a command that succeeded is then
  reported as failed (`copy`). A result of `timeout` may read the buffers while they are
  written (`torn`).
* NVIDIA. No command sets `Repair`, and the flag cleanup.go:42 advises does not exist
  in `cmd/`: a host with two families of drivers is refused on every run. Non-server
  families are purged by a list of majors without 595, which the profiles ask for
  (`MajorListed = FALSE`). A package that is half configured counts as not installed.
  Without kern.log, or once it is rotated, the notice is lost at the reboot, and
  `WrongFlavorOnce` says so in its premise.
* CUDA. No staging directory, or a driver meta-package as `package_name`, fails the
  deploy of an optional profile too, against internal/cuda/cuda.go:18. An optional
  profile never goes from apt to the runfile, although its rationale promises "apt +
  runfile fallback" (internal/cuda/cuda.go:104), and no profile goes from the runfile to apt. V2-V3-PARITY.md:63
  "Refuses to redownload the same SHA": it downloads once more, and then refuses what
  it got. A file whose hash cannot be computed passes the pinned hash. With no NVIDIA
  repository and the archive accepted, a package of NVIDIA's that apt still offers
  installs well and fails its verification. A kill leaves its runfile in place, and no
  later run removes it.
* KWin. A compositor that starts after `Run` asked whether there is one, and before it
  removes the sockets (kwin_session.go:937), loses the socket it has just bound.
  Late adoption does not ask for the seat, and early adoption reads a journal that is not
  scoped. A `journalctl` that fails counts as a clean journal.

## 4. What is proved

The theorems hold for every pipeline, table of endings, archive, profile, set of
contents and processes, for every limit, and for any number of invocations, kills and
power losses. The assumptions (`DeployAssumption`, `LockAssumption`, `AptAssumption`,
`UpgradeAssumption`, `RunnerAssumption`, `DriverAssumption`, `CudaAssumption`,
`KWinAssumption`) only give the constants their types; that of the upgrade also says that
a host has finitely many source files, that of the session that the gate wants at least
one stable sample and that there is a compositor to speak of.

| theorem | further assumption | says |
|---|---|---|
| `TypeCorrect` | none | `Spec => []TypeOK` of `Deploy` |
| `CountersWithinLimits` | none | `[]CountersBounded` |
| `PhasesInOrder` | none | `[]PipelineOrder` |
| `RebootsCounted` | one invocation at a time | `[]EveryRebootCounted` |
| `RebootsBounded` | one invocation at a time | no host is told to reboot more often than `MaxReboots` |
| `DeployKeepsLedger` | one invocation at a time | `ImplementsLedger`: the deploy implements `PhaseLedger` |
| `DoneIsKept` | one invocation at a time | `CompletedStaysCompleted` |
| `ResetsStick` | one invocation at a time | `[]ResetSticks` |
| `UnitOutlivesPipeline` | none | `UnitRemovedOnlyWhenPassed` |
| `ArmedThroughout` | one invocation at a time | `[]ArmedWhilePhasesRun`: from the first phase to the reboot request |
| `RebootsAreSurvived` | one invocation at a time | `RebootSurvivable` |
| `DeployUsesLockService` | none | `UsesLockService`: the commands use the lock as `LockService` allows |
| `OnlySecondReleaseRobs` | none | `ExclusionLostOnlyToSecondRelease`: what makes two invocations work at the same time |
| `LockTypeCorrect` | none | `[]TypeOK` of `ProcessLock`, at most two attempts included |
| `Exclusion` | none | `[]ExclusiveUnlessRobbed` |
| `LockImplementsService` | none | `ImplementsLockService`: the lock file implements `LockService`, robberies included |
| `OnlyCompanyRefuses` | none | `RefusedOnlyInCompany` |
| `Guarded` | none | `[]GuardedWhileDpkgRuns` |
| `HelperKept` | none | `OriginalKept` |
| `AptTypeCorrect` | none | `[]TypeOK` of `AptTransaction` |
| `CallbackIsSound` | none | `CallbackOnSoundDpkg` |
| `FoundAsLeft` | none (`AsFoundUnlessCrashed` is about sound hosts) | `[]AsFoundUnlessCrashed` |
| `NoneLeft` | none (`NothingLeftBehind` is about sound hosts without a helper) | `[]NothingLeftBehind` |
| `UpgradeTypeCorrect` | none | `[]TypeOK` of `UbuntuUpgrade`, one recovery per invocation included |
| `SourcesClean` | none | `[]CleanSources` |
| `HopsAreOrdered` | none | `HopByHop` |
| `DoneMeansSettled` | none | `[]DoneIsSettled` |
| `RebootsAreSound` | none | `[]RebootSound` |
| `ResolverPicksFirst` | none | what the resolver returns for a list of candidates of any length |
| `HopsChain` | none | where a planned hop leads, and what is planned from there |
| `AutoMovesUp` | none | policy `auto` never plans a downgrade |
| `InvocationsAreBounded` | none | `InvocationIsBounded` |
| `RebootsStayCounted` | none | `RebootsAreCounted` |
| `UpgradeLivesAsTabled` | none | `LivesAsTabled`: `UbuntuUpgrade` implements `PhaseLife` |
| `RunnerTypeCorrect` | none | `[]TypeOK` of `CommandRunner`, a pid forgotten only after its process included |
| `SuccessIsReal` | none | `[]SuccessIsWhole` |
| `KillIsComplete` | none | `[]KilledTreeIsDead` |
| `SelectionSound` | none | what `SelectFamily` returns for every evidence |
| `DriverTypeCorrect` | none | `[]TypeOK` of `NvidiaDriver`, the bound on reboots included |
| `WrongFlavorOnlyOnce` | none (`WrongFlavorOnce` itself is about hosts that keep kern.log) | `[]WrongFlavorOnce` |
| `InstallsJustified` | none | `InstallsAreJustified` |
| `DoneServed` | none | `DoneIsServed` |
| `DriverLivesAsTabled` | none | `LivesAsTabled`: `NvidiaDriver` implements `PhaseLife` |
| `CudaTypeCorrect` | none | `[]TypeOK` of `CudaToolkit` |
| `BadBytesFailOnce` | none | `[]BadBytesOnce` |
| `StagingIsClean` | none | `[]NothingStaged` |
| `ModeDecides` | none | `ModeHonoured` |
| `DoneVouches` | none | `DoneIsWhole` |
| `CudaLivesAsTabled` | none | `LivesAsTabled`: `CudaToolkit` implements `PhaseLife` |
| `SessionTypeCorrect` | none | `[]TypeOK` of `KWinSession` |
| `OneCompositorSampled` | none | `[]DoneSawOneCompositor` |
| `SocketIsKept` | none | `SocketKept` |
| `RunsAreBounded` | none | `RunIsBounded` |
| `SessionLivesAsTabled` | none | `LivesAsTabled`: `KWinSession` implements `PhaseLife` |

How they go:

* `CountersBounded` is about the disk, but a save writes memory, and memory is
  over the limit for a moment: `Record` increments before it compares. `BoundedInv`
  adds that the memory of every process *that can still save* is bounded; a process
  whose `Record` failed only releases its lock.
* `EveryRebootCounted` needs that memory and disk have the same count whenever the
  process can still save (`InStep`) and that a process at `reboot` is one ahead of
  what was issued (`GrantedCounted`). With two invocations
  both fail, because a stale copy brings an old count back (`stale_load`), which is
  why the theorem assumes `OneInvocation`.
* `PipelineOrder` speaks of a phase's body; its invariant `PassedBefore` says the
  same at every control point of the loop, the unit installation included.
* `RebootsBounded` is `EveryRebootCounted` and `CountersBounded` together: asked for no
  more often than counted, counted no more often than allowed.
* What becomes of a status rests on `PhaseInv` and `StatusInv`. A phase's body has its own
  entry running in memory, and memory is private, so this needs no further assumption
  (`InPhase`). With one invocation, memory is never behind the disk (`StatusKnown`): what
  the disk calls done memory calls done, what was reset is pending in both, and `state
  reset` works on what it just read. So a save only adds to what is recorded, and
  `MustRun` only starts what neither copy has as done. `DeployKeepsLedger` takes each
  action to a step of the ledger or a stutter with the same invariant; the cases that are not a
  stutter are the turn of the loop, the reset, and whatever ends an invocation.
* `UnitOutlivesPipeline`: whoever is about to remove the unit came through the end of the
  loop (`Route`), where `PassedBefore` says that every phase passed. It holds for any number of
  invocations, because it is about the memory of the one that removes.
* `ArmedThroughout` and `RebootsAreSurvived` share `UnitReady`, which follows the unit
  file from its truncation to `reboot`: the file is whole before it is enabled, enabled
  before a phase runs or the reboot is asked for, and the disk is the memory that asked.
  The moment between emptying and writing at the second `Install` is the one exception:
  there only the enablement is kept.
* `Exclusion` rests on `HolderOwnsFile`: unless somebody was robbed, the file on
  disk was made by whoever holds the lock. Two holders would have made one file.
* `LockImplementsService` maps each system call. An exclusive creation is `Take`, for
  nobody has the lock when there is no file; a first `Release` is `Give`, and a second one
  or a theft `Clear`; a waiter that reads a dead pid is `Suspect`; a death is `End`; the
  rest stutters. The invariant of exclusion is not needed, for `LockService` also says what
  goes on after a robbery.
* `DeployUsesLockService` does the same for the commands, with `HolderInside`: whoever the
  lock names is between `Acquire` and its last `Release`. `OnlySecondReleaseRobs` follows
  from the service: only `Clear` takes the lock from one who works, and in `Deploy` only
  `Release` frees a lock that names a living invocation (`OnlyReleaseFrees`), at `again`.
* `OnlyCompanyRefuses`: pids of the living are apart and any two of them have met
  (`Apart`), so a pid in the lock file that is in use belongs to a living invocation other
  than the reader, to the reader, or to another program, and the last two are what the
  property grants. A second failed attempt means that somebody made a file after the theft
  (`SecondAttempt`), and that one was company.
* `Guarded` adds the point of the audit to the places where the helper is ours.
* `HelperKept`: `KeptInv` says which file is in place at each control point, on any
  host. What a transaction removes is ours, what `PutBack` renames the backup over is ours
  or nothing, and what `Rename` puts over the backup is the host's helper or an empty one
  (`LostOnlyToEmpty`).
* The other four of the transaction share `AptInv`. `apt-get -f install` is only reached
  with all packages configured (`Repaired`), and the helper about to be put aside is not ours
  (`NotOurs`). Before any crash the host's helper is in one of the two places, and the
  control point says in which (`Undisturbed`). A host that had none never has anything
  but ours (`Bare`), however often the process died, so removing it is always right.
* `SourcesClean`, `HopsAreOrdered` and `DoneMeansSettled` rest on `HopInv`, which
  relates releases and sources: a source names the release of the host or the hop
  planned from it (`SourcesKnown`), because each retry plans afresh and from the same
  release the same hop; near dist-upgrade they all name the hop (`HopOffered`). So the
  release can only move to the hop, and when it is the final one the sources name
  nothing else (`FinalOffered`). `DirectHop` says once what the planner promises.
  `ForeignInv` adds that the quarantine is always due, which is true because
  `MarkRunning` empties the Details.
* `ResolverPicksFirst` takes the first acceptable position of the list, which
  `FirstExists` gets from the least element of a set of naturals: the resolver is written
  with a choice of that position, so no induction over the list is needed. `HopsChain`
  and `AutoMovesUp` are case analyses of `PlanUpgrade`.
* `InvocationsAreBounded` and `RunsAreBounded` give every control point a natural number
  that each step lowers: files still to be moved or rewritten and the one
  recovery (`Again`) for the upgrade, places, queries and turns of the window with its one extension
  for the session. They are the safety half of `UpgradeSettles` and `RunEnds`, what remains
  of which is that steps are taken at all. The number is natural because of the type
  invariant, and falls because of `HopInv` (a file is rewritten once) and of the finite
  sets of files. `RebootsStayCounted` bounds the number of invocations in the same way: the count
  of memory and disk agree when the reboot is asked for (`CountLoaded`).
* `DoneInv` follows the status from disk to memory and back: once the phase has work
  to do, neither copy says done, whatever saves are lost.
* `RebootsAreSound` (`Audited`): what the last gate established still holds when the reboot is asked
  for, as nothing after it touches packages or boot artifacts. When the audit could
  not be run (`run.blind`) nothing is claimed about dpkg.
* `SuccessIsReal` and `KillIsComplete` share `RunnerInv`. A process gets the pipe or the
  group only from a parent that has it, so once nobody writes nobody ever will again
  (`OutputEnded`) and a group that is dead stays dead. `WaitIsTrue` says what each value
  sent to `waitCh` vouches for. `StruckEffect` reduces a signal to what it may change.
* The driver: `SelectionSound` is proved of the operator alone, through `FirstIsFirst`
  and the orders of preference. `DriverInv` says that the evidence is the host's until
  the decision (`AsFound`), that whoever touches packages has a family and a reason
  (`Chosen`), and that a refusal is in kern.log and from then on in all evidence
  (`Logged`, `Remembered`); a second wrong flavor would have to be decided from evidence
  without it.
* CUDA: `Fresh` says that before the first success all attempts of a run failed and that
  a hash about to be checked is not among them; with `RecordSound` that bounds the history by three. `Staged` says
  that the file in hand is the only one a kill did not leave. `Sourced` ties what is
  verified to an install of the same run. The two action properties are proved step by
  step beside the invariant (`Good`).
* The session: `Known` says that generations only grow, that what is asked later was
  answered by the same compositor or a later one, and that what has not been asked yet is blank. A
  journal that names a pid sampled before and after it therefore belongs to that pid.
  `OldOne` and `Steady` do the same for the two answers that speak of a while instead of a
  moment, the age of the process and the run of stable samples; an
  extension counts for a sample without a pause (`Debt`). `Spared` says
  at each query of the clean-up who can no longer be there when sockets are removed; it
  starts with the compositor that was up when the run asked for one, so all that is left
  out is the time between that query and the removal (kwin_session.go:937).
* The four `LivesAsTabled`: a step of `Run` works on with the status as it was, asks for
  the reboot, or ends with a status of the table (`WorksOn`, `Asks`, `EndsRun`; for the
  upgrade `Fails`), so it is a stutter, a save or an ending of `PhaseLife`. What is left is
  who may begin (the type invariant, for the guards name the statuses that may and `Due`
  those that may not) and what a death leaves. The upgrade also needs that a host that is
  down runs nothing (`DownIdle`), because its status is read from memory while an
  invocation is alive and from disk otherwise. No run lists these four; TLC finds no error
  either when `LivesAsTabled` is added to the properties of `ubuntu_upgrade`,
  `nvidia_driver`, `cuda_toolkit` and `kwin_session`.

Only model-checked: liveness (`AutoDeploySettles`, `UpgradeSettles`, `ExecReturns`,
`RunEnds`), because fairness and ENABLED are beyond the prover. Of three of them the safety
half is proved: `RebootsBounded`, `InvocationsAreBounded` with `RebootsStayCounted`, and
`RunsAreBounded`.

## 5. Assumptions and what is not modelled

* In `Deploy` the lock is one atomic step, so its runs show what remains wrong with
  a perfect `AcquireWithRecovery`; what is wrong with the lock itself is
  `ProcessLock`'s.
* `Save` is durable once it returned. The code does not fsync the directory after
  the rename.
* `daemon-reload` and the optional environment file of the unit are part of the
  step before the enablement.
* A phase's Details are left out of `Deploy`. Those that `ubuntu_upgrade` reads again
  are in its module.
* Flags other than `--auto-reboot` and `--unattended` change which phases run,
  not how the pipeline behaves.
* Where a module looks at one phase, the reboot counters, the lock and the unit around
  it are those of `Deploy`; only what that phase meets again is repeated
  (`MaxReboots` in `NvidiaDriver` is the limit on reboots of the same phase).
* `KWinSession`: the real-VT unit only; the headless user was recorded before; the
  choice of the DRM card, the SubState and the diagnostics after the gate are left out.
* Dry runs, and profiles that do not parse, are left out of all phases.
* The streaming phases (`milestone5.go`) are long sequences of idempotent
  configuration steps. Their endings are in `PhaseTable`, their order in `Deploy`; what
  each writes into a user's home is data.
* The file repairs of `internal/dpkg` and `internal/sudo` move a file aside and check
  again: one step each, without state of their own.
* Parsing and layout (profiles, EDID bytes, evidence), prompts, downloads, the read
  only commands and the legacy script are data or sequential glue without state
  that outlives them.

## 6. What could follow

1. `StreamValidate`: the pending status between two runs, over units that restart.
2. `PhaseLife` as what `Deploy` itself is shown to use, phase by phase, so that both
   sides of `PhaseTable` meet in one specification as those of the lock do.
3. A `Save` with a directory entry that may be lost.
