----------------------------- MODULE CudaToolkit -----------------------------
(***************************************************************************)
(* The cuda phase (internal/phase/cuda.go) and the policy it follows       *)
(* (internal/cuda): what is installed already, the apt path with its       *)
(* ladder of packages, the runfile path with its retries, and the check    *)
(* after either, on a disk that may hold half of a toolkit or two of them. *)
(***************************************************************************)
EXTENDS Naturals, Sequences, FiniteSets

CONSTANTS
  Profiles,      \* the profiles considered
  Bytes,         \* contents a download may have, 1 GiB or more
  Corrupt,       \* those whose --check always fails
  NoSHA,         \* a hash that was not pinned or not computed
  MaxAttempts,   \* ResolveRunfileMaxAttempts
  MaxRuns,       \* bound: invocations of the phase
  MaxKills       \* bound: kills of it

Majors == {12, 13}    \* CUDA majors there are
ArchiveMajor == 12    \* the one of Ubuntu's nvidia-cuda-toolkit

(* Package names; 0 where the name fixes no major.  "cuda-drivers" is any   *)
(* driver meta-package, which only cuda.package_name can ask for.           *)
Named(n, m) == [name |-> n, major |-> m]
Archive == Named("nvidia-cuda-toolkit", 0)
Drivers == Named("cuda-drivers", 0)
Latest == Named("cuda-toolkit", 0)
NoPackage == Named("none", 0)
Packages == {Archive, Drivers, Latest, NoPackage} \cup {Named("cuda-toolkit", m) : m \in Majors}

Profile == [mode : {"none", "optional", "required"}, method : {"auto", "apt", "runfile", "none"},
            url : BOOLEAN, sha : Bytes \cup {NoSHA}, policy : {"exact-major", "min-major", "any"},
            major : Majors \cup {0}, explicit : Packages, fallback : BOOLEAN]

ASSUME CudaAssumption ==
  /\ Profiles \subseteq Profile /\ Corrupt \subseteq Bytes /\ NoSHA \notin Bytes
  /\ Bytes \cap {"none", "partial", "too small"} = {}
  /\ MaxAttempts \in Nat \ {0} /\ MaxRuns \in Nat /\ MaxKills \in Nat
-----------------------------------------------------------------------------
(* Selection.  major is expected_major or min_major; for "any", which also  *)
(* stands for latest-compatible, min_major is a floor when it is set.       *)

SatisfiesNvcc(p, m) ==
  /\ m # 0
  /\ p.policy = "exact-major" => m = p.major
  /\ p.policy = "min-major" => p.major # 0
  /\ m >= p.major

ArchiveAllowedByPolicy(p) ==
  /\ p.policy = "exact-major" => p.major = ArchiveMajor
  /\ p.policy = "min-major" => p.major <= ArchiveMajor

MajorsForPolicy(p) ==
  {m \in Majors : /\ p.policy = "exact-major" => m = p.major
                  /\ p.policy = "min-major" => m >= p.major}

(* The names CandidateLadder tries.  Their order only says which of those   *)
(* that apt offers is taken, and apt may offer any one alone.               *)
CandidateLadder(p) ==
  IF p.explicit # NoPackage THEN {p.explicit}
  ELSE {Named("cuda-toolkit", m) : m \in MajorsForPolicy(p)}
       \cup (IF p.policy = "exact-major" THEN {} ELSE {Latest})
       \cup (IF p.fallback /\ ArchiveAllowedByPolicy(p) THEN {Archive} ELSE {})

(* A toolkit on disk: the major its nvcc reports, 0 without nvcc, and       *)
(* whether headers and libraries are there.                                 *)
Toolkit == [nvcc : Majors \cup {0}, rest : BOOLEAN]
Whole(t) == t.nvcc # 0 /\ t.rest
WholeOf(m) == [nvcc |-> m, rest |-> TRUE]

(* What sha256 and the size say of former attempts.  One set of bytes has   *)
(* one size.                                                                *)
Attempt == [sha : Bytes \cup {NoSHA}, ok : BOOLEAN]

(* Mutant: only the attempt before is compared. *)
ShouldRetry_LastOnly(attempts, sha) ==
  /\ sha # NoSHA /\ attempts # <<>> =>
       ~(attempts[Len(attempts)].sha = sha /\ ~attempts[Len(attempts)].ok)
  /\ ~(Len(attempts) >= 3 /\ \A i \in Len(attempts) - 2 .. Len(attempts) : ~attempts[i].ok)

ShouldRetry(attempts, sha) ==
  /\ sha # NoSHA => ~\E i \in DOMAIN attempts : attempts[i].sha = sha /\ ~attempts[i].ok
  /\ ~(Len(attempts) >= 3 /\ \A i \in Len(attempts) - 2 .. Len(attempts) : ~attempts[i].ok)
-----------------------------------------------------------------------------
VARIABLES
  profile,    \* fixed
  canon,      \* /usr/local/cuda
  arch,       \* /usr/bin/nvcc and what belongs to it
  files,      \* runfiles in /var/tmp/clouddeploy-cuda
  status,     \* of the phase in state.json
  pc,         \* where Run is
  source,     \* how this run installed, once it did or is about to
  package,    \* its package
  archiveOnly, \* no NVIDIA repository, Ubuntu's archive accepted
  attempt,    \* number of the runfile attempt
  attempts,   \* the history of the RetryDecider
  file,       \* what curl left: bytes, or why there are none
  sha,        \* actualSHA
  runs,       \* invocations so far
  kills       \* kills so far

vars == <<profile, canon, arch, files, status, pc, source, package, archiveOnly,
          attempt, attempts, file, sha, runs, kills>>

Disk == <<canon, arch>>
Choice == <<source, package, archiveOnly>>
Retry == <<attempt, attempts, file, sha>>
Bounds == <<profile, runs, kills>>

Init ==
  /\ profile \in Profiles
  /\ canon \in {[nvcc |-> 0, rest |-> FALSE], [nvcc |-> 13, rest |-> FALSE], WholeOf(12)}
  /\ arch \in {[nvcc |-> 0, rest |-> FALSE], WholeOf(ArchiveMajor)}
  /\ files = 0 /\ status = "pending" /\ pc = "idle"
  /\ source = "none" /\ package = NoPackage /\ archiveOnly = FALSE
  /\ attempt = 0 /\ attempts = <<>> /\ file = "none" /\ sha = NoSHA
  /\ runs = 0 /\ kills = 0

(* Mutant: nvcc alone makes a layout. *)
DetectCudaLayout_NvccOnly ==
  IF canon.nvcc # 0 THEN "nvidia-canonical"
  ELSE IF arch.nvcc # 0 THEN "ubuntu-archive" ELSE "missing"

DetectCudaLayout ==
  IF Whole(canon) THEN "nvidia-canonical"
  ELSE IF Whole(arch) THEN "ubuntu-archive" ELSE "missing"

(* The nvcc below /usr/local/cuda is run if it is there, else that of PATH. *)
Nvcc == IF canon.nvcc # 0 THEN canon.nvcc ELSE arch.nvcc

(* nvcc --version fails or times out, or answers. *)
NvccRelease == {0, Nvcc}

LayoutFromInstallSource ==
  IF source = "apt" /\ (archiveOnly \/ package = Archive) THEN "ubuntu-archive"
                                                          ELSE "nvidia-canonical"

(* MarkFailed with fatal, whatever the mode. *)
Fail == status' = "failed" /\ pc' = "idle"
SkipNonfatal == status' = "skipped" /\ pc' = "idle"
MarkDone == status' = "done" /\ pc' = "idle"

(* Mutant: the mode is not looked at. *)
GiveUp_Skips == SkipNonfatal

(* Nearly every error ends here: plan.FailsDeployOnError. *)
GiveUp == IF profile.mode = "required" THEN Fail ELSE SkipNonfatal

(* The smoke test compiles and runs, or it is off; or it fails. *)
SmokeAndFinish == MarkDone \/ GiveUp
-----------------------------------------------------------------------------
Begin ==
  /\ pc = "idle" /\ status \notin {"done", "skipped"} /\ runs < MaxRuns
  /\ runs' = runs + 1
  /\ source' = "none" /\ package' = NoPackage /\ archiveOnly' = FALSE
  /\ attempt' = 0 /\ attempts' = <<>> /\ file' = "none" /\ sha' = NoSHA
  /\ status' = "running" /\ pc' = "probe"
  /\ UNCHANGED <<profile, files, kills>> /\ UNCHANGED Disk

(* The profile wants no toolkit; the phase was marked running before that   *)
(* is looked at.                                                            *)
Unwanted == profile.mode = "none" \/ profile.method = "none"
SkipUnwanted ==
  /\ pc = "probe" /\ Unwanted /\ SkipNonfatal
  /\ UNCHANGED files /\ UNCHANGED <<Disk, Choice, Retry, Bounds>>

(* A toolkit that is there and satisfies the policy only has its smoke test. *)
AlreadyInstalled ==
  /\ pc = "probe" /\ ~Unwanted
  /\ \E rel \in NvccRelease : DetectCudaLayout # "missing" /\ SatisfiesNvcc(profile, rel)
  /\ SmokeAndFinish
  /\ UNCHANGED files /\ UNCHANGED <<Disk, Choice, Retry, Bounds>>

(* Otherwise the method; auto takes apt if a repository answers. *)
ChooseMethod ==
  /\ pc = "probe" /\ ~Unwanted
  /\ \E rel \in NvccRelease : DetectCudaLayout = "missing" \/ ~SatisfiesNvcc(profile, rel)
  /\ \E repo \in BOOLEAN :
       IF profile.method = "runfile" \/ (profile.method = "auto" /\ ~repo)
       THEN pc' = "stage" /\ UNCHANGED <<status, archiveOnly>>
       ELSE IF repo \/ profile.fallback
       THEN pc' = "apt" /\ archiveOnly' = ~repo /\ UNCHANGED status
       ELSE GiveUp /\ UNCHANGED archiveOnly
  /\ UNCHANGED <<files, source, package>> /\ UNCHANGED <<Disk, Retry, Bounds>>

(* ensureCudaAptRepo may fail, and apt may offer any of the candidates. *)
AptCandidate ==
  /\ pc = "apt"
  /\ \/ ~archiveOnly /\ GiveUp /\ UNCHANGED <<source, package>>
     \/ \E pkg \in CandidateLadder(profile) :
          /\ package' = pkg
          /\ IF pkg = Drivers THEN Fail /\ UNCHANGED source
             ELSE pc' = "apt install" /\ source' = "apt" /\ UNCHANGED status
     \/ /\ IF profile.mode = "required" /\ profile.url
           THEN pc' = "stage" /\ UNCHANGED status
           ELSE GiveUp
        /\ UNCHANGED <<source, package>>
  /\ UNCHANGED <<files, archiveOnly>> /\ UNCHANGED <<Disk, Retry, Bounds>>

MajorsOf(pkg) ==
  IF pkg = Archive THEN {ArchiveMajor} ELSE IF pkg.major = 0 THEN Majors ELSE {pkg.major}

(* What an installer may leave: it did it, it had nothing to do or did      *)
(* nothing, or, when it fails, any half of it.                              *)
Outcomes(old, new) == {old, new, [old EXCEPT !.nvcc = new.nvcc], [old EXCEPT !.rest = FALSE]}

AptInstall ==
  /\ pc = "apt install"
  /\ \E m \in MajorsOf(package), ok \in BOOLEAN :
       /\ IF package = Archive
          THEN /\ arch' \in IF ok THEN {arch, WholeOf(m)} ELSE Outcomes(arch, WholeOf(m))
               /\ UNCHANGED canon
          ELSE /\ canon' \in IF ok THEN {canon, WholeOf(m)} ELSE Outcomes(canon, WholeOf(m))
               /\ UNCHANGED arch
       /\ IF ok THEN pc' = "verify" /\ UNCHANGED status ELSE GiveUp
  /\ UNCHANGED files /\ UNCHANGED <<Choice, Retry, Bounds>>
-----------------------------------------------------------------------------
(* The runfile path.  Its directory is made whatever the mode. *)
Stage ==
  /\ pc = "stage"
  /\ \/ ~profile.url /\ GiveUp /\ UNCHANGED attempt
     \/ profile.url /\ Fail /\ UNCHANGED attempt
     \/ profile.url /\ pc' = "download" /\ attempt' = 1 /\ UNCHANGED status
  /\ UNCHANGED <<files, attempts, file, sha>> /\ UNCHANGED <<Disk, Choice, Bounds>>

(* curl ends with a file or an error, and an error may leave a file too.    *)
Download ==
  /\ pc = "download"
  /\ \/ file' = "none" /\ UNCHANGED files
     \/ file' \in {"partial", "too small"} \cup Bytes /\ files' = files + 1
  /\ pc' = "judge"
  /\ UNCHANGED <<status, attempt, attempts, sha>> /\ UNCHANGED <<Disk, Choice, Bounds>>

(* The file is removed, and the loop goes on or ends.  Nothing is staged    *)
(* when curl left nothing.                                                  *)
Remove == files' = IF file = "none" THEN files ELSE files - 1
Continue ==
  IF attempt < MaxAttempts THEN pc' = "download" /\ attempt' = attempt + 1 /\ UNCHANGED status
  ELSE GiveUp /\ UNCHANGED attempt
Record(ok, hash) == attempts' = Append(attempts, [sha |-> hash, ok |-> ok])

(* Size, hash, history and the pinned hash, in this order. *)
Judge ==
  /\ pc = "judge"
  /\ IF file \notin Bytes THEN Remove /\ Continue /\ UNCHANGED <<attempts, sha>>
     ELSE \E hash \in {file, NoSHA} :
       /\ sha' = hash
       /\ IF ~ShouldRetry(attempts, hash)
          THEN Remove /\ GiveUp /\ UNCHANGED <<attempt, attempts>>
          ELSE IF NoSHA \notin {profile.sha, hash} /\ hash # profile.sha
          THEN Record(FALSE, hash) /\ Remove /\ Continue
          ELSE pc' = "check" /\ UNCHANGED <<status, files, attempt, attempts>>
  /\ UNCHANGED file /\ UNCHANGED <<Disk, Choice, Bounds>>

Check ==
  /\ pc = "check"
  /\ \E ok \in {FALSE, file \notin Corrupt} :
       /\ Record(ok, sha)
       /\ IF ok THEN pc' = "install" /\ UNCHANGED <<status, files, attempt>>
          ELSE Remove /\ Continue
  /\ UNCHANGED <<file, sha>> /\ UNCHANGED <<Disk, Choice, Bounds>>

(* Mutant: the failed install returns before the file is removed. *)
InstallRunfile_Leaves ==
  /\ pc = "install"
  /\ \E m \in Majors, ok \in BOOLEAN :
       /\ canon' \in IF ok THEN {canon, WholeOf(m)} ELSE Outcomes(canon, WholeOf(m))
       /\ IF ok THEN pc' = "verify" /\ source' = "runfile" /\ Remove /\ UNCHANGED status
          ELSE GiveUp /\ UNCHANGED <<source, files>>
  /\ UNCHANGED <<arch, package, archiveOnly>> /\ UNCHANGED <<Retry, Bounds>>

InstallRunfile ==
  /\ pc = "install"
  /\ \E m \in Majors, ok \in BOOLEAN :
       /\ canon' \in IF ok THEN {canon, WholeOf(m)} ELSE Outcomes(canon, WholeOf(m))
       /\ IF ok THEN pc' = "verify" /\ source' = "runfile" /\ UNCHANGED status
          ELSE GiveUp /\ UNCHANGED source
  /\ Remove
  /\ UNCHANGED <<arch, package, archiveOnly>> /\ UNCHANGED <<Retry, Bounds>>

(* verifyAndFinish. *)
Verify ==
  /\ pc = "verify"
  /\ \E rel \in NvccRelease :
       IF DetectCudaLayout = LayoutFromInstallSource /\ SatisfiesNvcc(profile, rel)
       THEN SmokeAndFinish ELSE GiveUp
  /\ UNCHANGED files /\ UNCHANGED <<Disk, Choice, Retry, Bounds>>

Run == \/ SkipUnwanted \/ AlreadyInstalled \/ ChooseMethod \/ AptCandidate \/ AptInstall \/ Stage
       \/ Download \/ Judge \/ Check \/ InstallRunfile \/ Verify

(* The process dies; its file stays.  clouddeployctl state reset cuda. *)
Kill ==
  /\ pc # "idle" /\ kills < MaxKills
  /\ pc' = "idle" /\ kills' = kills + 1
  /\ UNCHANGED <<profile, files, status, runs>> /\ UNCHANGED <<Disk, Choice, Retry>>

Reset ==
  /\ pc = "idle" /\ status # "pending" /\ runs < MaxRuns
  /\ status' = "pending"
  /\ UNCHANGED <<files, pc>> /\ UNCHANGED <<Disk, Choice, Retry, Bounds>>

Next == Begin \/ Run \/ Kill \/ Reset

Spec == Init /\ [][Next]_vars
-----------------------------------------------------------------------------
(* What the pipeline sees of the phase. *)
Table == INSTANCE PhaseTable

LifeAt == IF pc = "idle" THEN "out" ELSE "in"

LifeStatus == IF status = "failed" THEN "failed_fatal" ELSE status

Life == INSTANCE PhaseLife WITH
  Body <- Table!Cuda, Early <- {}, Resets <- TRUE,
  status <- LifeStatus, saved <- LifeStatus, at <- LifeAt

(* shouldSkip, MarkRunning and the endings that PhaseTable lists: the phase *)
(* is what the pipeline takes it for, through kills and resets.             *)
LivesAsTabled == Life!Spec

-----------------------------------------------------------------------------
TypeOK ==
  /\ profile \in Profiles
  /\ canon \in Toolkit /\ arch \in Toolkit
  /\ files \in Nat
  /\ status \in {"pending", "running", "done", "skipped", "failed"}
  /\ pc \in {"idle", "probe", "apt", "apt install", "stage", "download", "judge",
             "check", "install", "verify"}
  /\ source \in {"none", "apt", "runfile"} /\ package \in Packages
  /\ archiveOnly \in BOOLEAN
  /\ attempt \in 0..MaxAttempts /\ attempts \in Seq(Attempt)
  /\ file \in {"none", "partial", "too small"} \cup Bytes /\ sha \in Bytes \cup {NoSHA}
  /\ runs \in 0..MaxRuns /\ kills \in 0..MaxKills

(* cuda.go:161 and V2-V3-PARITY.md:63, "refuses to redownload the same SHA  *)
(* after a failed --check": no bytes fail twice in one run, a third failure *)
(* in a row is the last one however many attempts the profile allows, and   *)
(* what is installed never failed before.                                   *)
BadBytesOnce ==
  /\ \A i, j \in DOMAIN attempts :
       i < j /\ attempts[i].sha = attempts[j].sha /\ attempts[i].sha # NoSHA => attempts[i].ok
  /\ Len(attempts) <= 3

(* Every way out of the loop removes the file of several GiB it staged      *)
(* (cuda.go:590 to 663); only a kill leaves one behind.                     *)
NothingStaged == pc = "idle" => files <= kills

(* internal/cuda/cuda.go:18: an optional toolkit never ends as required,    *)
(* nor a required one as optional, on any of the ways to fail.  Two ways    *)
(* are fatal whatever the mode: no staging directory, and a driver          *)
(* meta-package.                                                            *)
ModeHonoured ==
  [][ status' # status =>
        /\ status' = "skipped" => profile.mode # "required" \/ profile.method = "none"
        /\ status' = "failed" =>
             profile.mode = "required" \/ pc = "stage" \/ profile.explicit = Drivers ]_vars

(* cuda.go:829: after an install of NVIDIA's toolkit, done means that all   *)
(* of it is below /usr/local/cuda and is of a major the profile asks for,   *)
(* even when the installer did nothing and another toolkit is there; after  *)
(* one of Ubuntu's, that all of that one is there.                          *)
DoneIsWhole ==
  [][ status' = "done" /\ status # "done" /\ pc = "verify" =>
        IF source = "runfile" \/ ~(archiveOnly \/ package = Archive)
        THEN Whole(canon) /\ SatisfiesNvcc(profile, canon.nvcc)
        ELSE Whole(arch) ]_vars
-----------------------------------------------------------------------------
(* V3-DEPLOYMENT-READINESS.md:61: "Ubuntu archive installs validated        *)
(* against /usr/bin/nvcc".  The nvcc of half a toolkit below                *)
(* /usr/local/cuda answers in its place (cuda.go:905).                      *)
ArchiveAnswersItself ==
  [][ status' = "done" /\ status # "done" /\ DetectCudaLayout = "ubuntu-archive" =>
        canon.nvcc = 0 ]_vars
=============================================================================
