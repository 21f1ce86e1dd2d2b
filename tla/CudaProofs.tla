----------------------------- MODULE CudaProofs -----------------------------
(***************************************************************************)
(* What the cuda phase keeps for every profile, any set of contents a      *)
(* download may have, and any number of attempts, runs and kills.          *)
(***************************************************************************)
EXTENDS CudaToolkit, TLAPS

Retrying == {"download", "judge", "check"}
Holding == {"judge", "check", "install"}

(* Before an attempt succeeds all of them failed; a hash that is about to   *)
(* be checked is new to the history.                                        *)
Fresh ==
  /\ pc \in Retrying => \A i \in DOMAIN attempts : ~attempts[i].ok
  /\ pc = "check" => ShouldRetry(attempts, sha)

(* The file in hand is the only one a kill did not leave behind. *)
Staged ==
  /\ pc \notin Holding => files <= kills
  /\ pc \in Holding /\ file = "none" => files <= kills
  /\ pc \in Holding /\ file # "none" => files <= kills + 1 /\ files >= 1
  /\ pc \in {"check", "install"} => file # "none"

(* The history starts empty, and what is verified was installed by this run. *)
Sourced ==
  /\ pc \in {"probe", "apt", "stage"} => attempts = <<>>
  /\ pc = "verify" => source # "none"
  /\ pc = "apt install" => source = "apt"

CudaInv == TypeOK /\ BadBytesOnce /\ Fresh /\ Staged /\ Sourced

Honoured ==
  status' # status =>
    /\ status' = "skipped" => profile.mode # "required" \/ profile.method = "none"
    /\ status' = "failed" =>
         profile.mode = "required" \/ pc = "stage" \/ profile.explicit = Drivers

IsWhole ==
  status' = "done" /\ status # "done" /\ pc = "verify" =>
    IF source = "runfile" \/ ~(archiveOnly \/ package = Archive)
    THEN Whole(canon) /\ SatisfiesNvcc(profile, canon.nvcc)
    ELSE Whole(arch)

Good == CudaInv' /\ Honoured /\ IsWhole
-----------------------------------------------------------------------------
LEMMA LadderSound ==
  ASSUME NEW p \in Profile, NEW pkg \in CandidateLadder(p)
  PROVE  pkg \in Packages /\ (pkg = Drivers => p.explicit = Drivers)
<1>1. CASE p.explicit # NoPackage
  BY <1>1 DEF CandidateLadder, Profile
<1>2. CASE p.explicit = NoPackage
  <2>1. \/ \E m \in MajorsForPolicy(p) : pkg = Named("cuda-toolkit", m)
        \/ pkg = Latest
        \/ pkg = Archive
    BY <1>2 DEF CandidateLadder
  <2>2. MajorsForPolicy(p) \subseteq Majors
    BY DEF MajorsForPolicy
  <2> QED
    BY <2>1, <2>2 DEF Packages, Named, Latest, Archive, Drivers
<1> QED
  BY <1>1, <1>2

(* A hash that ShouldRetry lets pass extends a history of failures soundly. *)
LEMMA RecordSound ==
  ASSUME attempts \in Seq(Attempt), NEW hash \in Bytes \cup {NoSHA}, NEW ok \in BOOLEAN,
         \A i \in DOMAIN attempts : ~attempts[i].ok,
         BadBytesOnce, ShouldRetry(attempts, hash), Record(ok, hash)
  PROVE  /\ attempts' \in Seq(Attempt) /\ BadBytesOnce'
         /\ ~ok => \A i \in DOMAIN attempts' : ~attempts'[i].ok
<1> DEFINE last == [sha |-> hash, ok |-> ok]
<1>1. last \in Attempt /\ last.sha = hash /\ last.ok = ok
  BY DEF Attempt
<1>2. /\ attempts' \in Seq(Attempt) /\ Len(attempts') = Len(attempts) + 1 /\ Len(attempts) \in Nat
      /\ DOMAIN attempts' = 1..(Len(attempts) + 1) /\ DOMAIN attempts = 1..Len(attempts)
      /\ attempts'[Len(attempts) + 1] = last
      /\ \A i \in DOMAIN attempts : attempts'[i] = attempts[i]
  BY <1>1 DEF Record
<1> HIDE DEF last
<1>3. Len(attempts) < 3
  <2>1. SUFFICES ASSUME Len(attempts) >= 3 PROVE FALSE
    BY <1>2
  <2>2. \A i \in Len(attempts) - 2 .. Len(attempts) : ~attempts[i].ok
    BY <1>2, <2>1
  <2> QED
    BY <2>1, <2>2 DEF ShouldRetry
<1>4. hash # NoSHA => \A i \in DOMAIN attempts : attempts[i].sha # hash
  BY DEF ShouldRetry
<1>5. ASSUME NEW i \in DOMAIN attempts', NEW j \in DOMAIN attempts',
             i < j, attempts'[i].sha = attempts'[j].sha, attempts'[i].sha # NoSHA
      PROVE  attempts'[i].ok
  <2>1. i \in DOMAIN attempts /\ attempts'[i] = attempts[i]
    BY <1>2, <1>5
  <2>2. CASE j \in DOMAIN attempts
    BY <1>2, <1>5, <2>1, <2>2 DEF BadBytesOnce
  <2>3. CASE j = Len(attempts) + 1
    BY <1>1, <1>2, <1>4, <1>5, <2>1, <2>3
  <2> QED
    BY <1>2, <2>2, <2>3
<1>6. ~ok => \A i \in DOMAIN attempts' : ~attempts'[i].ok
  BY <1>1, <1>2
<1> QED
  BY <1>2, <1>3, <1>5, <1>6 DEF BadBytesOnce

LEMMA BoundsAreNat == MaxRuns \in Nat /\ MaxKills \in Nat /\ MaxAttempts \in Nat
  BY CudaAssumption, Zenon

LEMMA Numbers ==
  ASSUME CudaInv
  PROVE  /\ files \in Nat /\ kills \in Nat /\ kills <= MaxKills
         /\ runs \in Nat /\ runs <= MaxRuns
         /\ attempt \in Nat /\ attempt <= MaxAttempts
<1>1. files \in Nat /\ kills \in 0..MaxKills /\ runs \in 0..MaxRuns
      /\ attempt \in 0..MaxAttempts
  BY Zenon DEF CudaInv, TypeOK
<1> QED
  BY <1>1, BoundsAreNat

(* Removing the file in hand brings the count back below the kills. *)
LEMMA RemoveSound ==
  ASSUME CudaInv, pc \in Holding, Remove
  PROVE  files' \in Nat /\ files' <= kills
<1>1. files \in Nat /\ kills \in Nat
  BY Numbers
<1>2. CASE file = "none"
  BY <1>1, <1>2 DEF Remove, CudaInv, Staged
<1>3. CASE file # "none"
  BY <1>1, <1>3 DEF Remove, CudaInv, Staged
<1> QED
  BY <1>2, <1>3

LEMMA CudaInit == Init => CudaInv
<1> SUFFICES ASSUME Init PROVE CudaInv
  OBVIOUS
<1>1. canon \in Toolkit /\ arch \in Toolkit
  <2>1. /\ canon \in {[nvcc |-> 0, rest |-> FALSE], [nvcc |-> 13, rest |-> FALSE], WholeOf(12)}
        /\ arch \in {[nvcc |-> 0, rest |-> FALSE], WholeOf(ArchiveMajor)}
    BY Zenon DEF Init
  <2>2. /\ [nvcc |-> 0, rest |-> FALSE] \in Toolkit
        /\ [nvcc |-> 13, rest |-> FALSE] \in Toolkit
    BY DEF Toolkit, Majors
  <2>3. WholeOf(12) \in Toolkit /\ WholeOf(ArchiveMajor) \in Toolkit
    BY DEF Toolkit, Majors, WholeOf, ArchiveMajor
  <2> QED
    BY <2>1, <2>2, <2>3, Zenon
<1>3. attempts \in Seq(Attempt) /\ package \in Packages
  BY DEF Init, Packages
<1>4. attempt \in 0..MaxAttempts /\ runs \in 0..MaxRuns /\ kills \in 0..MaxKills
      /\ files \in Nat
  <2>1. attempt = 0 /\ runs = 0 /\ kills = 0 /\ files = 0
    BY Zenon DEF Init
  <2> QED
    BY <2>1, BoundsAreNat
<1>5. TypeOK
  BY <1>1, <1>3, <1>4, Zenon DEF Init, TypeOK
<1>2. BadBytesOnce /\ Fresh /\ Staged /\ Sourced
  BY DEF Init, BadBytesOnce, Fresh, Staged, Sourced, Retrying, Holding
<1> QED
  BY <1>2, <1>5 DEF CudaInv
-----------------------------------------------------------------------------
(* How a run ends, by the mode. *)
LEMMA GivingUp ==
  ASSUME CudaInv, GiveUp
  PROVE  /\ status' \in {"skipped", "failed"} /\ pc' = "idle"
         /\ status' = "skipped" => profile.mode # "required"
         /\ status' = "failed" => profile.mode = "required"
  BY DEF GiveUp, Fail, SkipNonfatal

LEMMA BeginStep == CudaInv /\ Begin => Good
<1> SUFFICES ASSUME CudaInv, Begin PROVE Good
  OBVIOUS
<1>1. runs' \in 0..MaxRuns
  <2>1. runs < MaxRuns /\ runs' = runs + 1
    BY DEF Begin
  <2> QED
    BY <2>1, Numbers, BoundsAreNat
<1>2. /\ status' = "running" /\ pc' = "probe"
      /\ source' = "none" /\ package' = NoPackage /\ archiveOnly' = FALSE
      /\ attempt' = 0 /\ attempts' = <<>> /\ file' = "none" /\ sha' = NoSHA
      /\ pc = "idle"
      /\ UNCHANGED <<profile, files, kills, canon, arch>>
  BY DEF Begin, SkipNonfatal, Disk
<1>3. attempts' \in Seq(Attempt) /\ DOMAIN attempts' = {} /\ Len(attempts') = 0
  BY <1>2
<1>5. attempt' \in 0..MaxAttempts /\ package' \in Packages
  BY <1>2, BoundsAreNat DEF Packages
<1>4. TypeOK'
  BY <1>1, <1>2, <1>3, <1>5, Zenon DEF CudaInv, TypeOK
<1>6. Fresh' /\ Sourced'
  BY <1>2, Zenon DEF Fresh, Sourced, Retrying
<1>9. BadBytesOnce'
  BY <1>3 DEF BadBytesOnce
<1>7. Staged'
  BY <1>2 DEF Staged, Holding, CudaInv
<1>8. Honoured /\ IsWhole
  BY <1>2 DEF Honoured, IsWhole
<1> QED
  BY <1>4, <1>6, <1>7, <1>8, <1>9 DEF CudaInv, Good

(* A step outside the loop, which leaves the history and the staged files   *)
(* alone.                                                                   *)
LEMMA PlainStep ==
  ASSUME CudaInv, pc \notin Holding,
         UNCHANGED <<files, attempts, file, sha, profile, runs, kills>>,
         canon' \in Toolkit, arch' \in Toolkit, attempt' \in 0..MaxAttempts,
         source' \in {"none", "apt", "runfile"}, package' \in Packages,
         archiveOnly' \in BOOLEAN,
         status' \in {"pending", "running", "done", "skipped", "failed"},
         pc' \in {"idle", "probe", "apt", "apt install", "stage", "verify"}, Sourced'
  PROVE  CudaInv'
<1>1. TypeOK'
  BY DEF CudaInv, TypeOK
<1> QED
  BY <1>1 DEF CudaInv, BadBytesOnce, Fresh, Staged, Retrying, Holding

(* In the loop, what Remove and Continue leave is sound whatever was        *)
(* recorded, as long as the history is.                                     *)
LEMMA LoopStep ==
  ASSUME CudaInv, pc \in {"judge", "check"}, Remove, Continue \/ (GiveUp /\ UNCHANGED attempt),
         UNCHANGED <<canon, arch, source, package, archiveOnly, file, profile, runs, kills>>,
         sha' \in Bytes \cup {NoSHA}, attempts' \in Seq(Attempt), BadBytesOnce',
         \A i \in DOMAIN attempts' : ~attempts'[i].ok
  PROVE  Good
<1>1. files' \in Nat /\ files' <= kills'
  BY RemoveSound DEF Holding
<1>2. /\ attempt' \in 0..MaxAttempts
      /\ \/ pc' = "download" /\ UNCHANGED status
         \/ /\ status' \in {"skipped", "failed"} /\ pc' = "idle"
            /\ status' = "skipped" => profile.mode # "required"
            /\ status' = "failed" => profile.mode = "required"
  <2>1. CASE attempt < MaxAttempts /\ Continue
    BY <2>1, Numbers, BoundsAreNat DEF Continue
  <2>2. CASE GiveUp /\ UNCHANGED attempt
    <3>1. attempt' \in 0..MaxAttempts
      BY <2>2, Numbers, BoundsAreNat
    <3> QED
      BY <2>2, <3>1, GivingUp, Zenon
  <2> QED
    BY <2>1, <2>2 DEF Continue
<1>3. status' \in {"pending", "running", "done", "skipped", "failed"}
  BY <1>2, Zenon DEF CudaInv, TypeOK
<1>4. TypeOK'
  BY <1>1, <1>2, <1>3, Zenon DEF CudaInv, TypeOK
<1>5. Fresh' /\ Staged' /\ Sourced'
  BY <1>1, <1>2 DEF Fresh, Staged, Sourced, Retrying, Holding
<1>6. Honoured /\ IsWhole
  BY <1>2 DEF Honoured, IsWhole
<1> QED
  BY <1>4, <1>5, <1>6 DEF Good, CudaInv
-----------------------------------------------------------------------------
LEMMA ProbeStep == CudaInv /\ (SkipUnwanted \/ AlreadyInstalled \/ ChooseMethod) => Good
<1> SUFFICES ASSUME CudaInv, SkipUnwanted \/ AlreadyInstalled \/ ChooseMethod PROVE Good
  OBVIOUS
<1>1. /\ pc = "probe"
      /\ UNCHANGED <<files, canon, arch, attempts, file, sha, profile, runs, kills,
                     attempt, source, package>>
  BY DEF SkipUnwanted, AlreadyInstalled, ChooseMethod, Disk, Choice, Retry, Bounds
<1>2. archiveOnly' \in BOOLEAN
  BY Zenon DEF SkipUnwanted, AlreadyInstalled, ChooseMethod, Choice, CudaInv, TypeOK
<1>3. /\ status' \in {status, "done", "skipped", "failed"}
      /\ pc' \in {"idle", "stage", "apt"}
      /\ status' = "skipped" /\ status # "skipped" =>
           profile.mode # "required" \/ profile.method = "none"
      /\ status' = "failed" /\ status # "failed" => profile.mode = "required"
  <2>1. CASE GiveUp
    BY <2>1, GivingUp
  <2>2. CASE ~GiveUp
    BY <2>2 DEF SkipUnwanted, Unwanted, SkipNonfatal, AlreadyInstalled, ChooseMethod, SmokeAndFinish, MarkDone
  <2> QED
    BY <2>1, <2>2
<1>4. CudaInv'
  <2>1. /\ canon \in Toolkit /\ arch \in Toolkit /\ attempt \in 0..MaxAttempts
        /\ source \in {"none", "apt", "runfile"} /\ package \in Packages
        /\ status \in {"pending", "running", "done", "skipped", "failed"}
    BY Zenon DEF CudaInv, TypeOK
  <2>2. pc \notin Holding /\ Sourced'
    BY <1>1, <1>3 DEF Holding, Sourced, CudaInv
  <2> QED
    BY <1>1, <1>2, <1>3, <2>1, <2>2, PlainStep
<1> QED
  BY <1>1, <1>3, <1>4 DEF Good, Honoured, IsWhole

(* The parts of the type invariant that a step which leaves them alone keeps. *)
LEMMA Kept ==
  ASSUME CudaInv
  PROVE  /\ canon \in Toolkit /\ arch \in Toolkit /\ attempt \in 0..MaxAttempts
         /\ source \in {"none", "apt", "runfile"} /\ package \in Packages
         /\ archiveOnly \in BOOLEAN /\ profile \in Profile
         /\ status \in {"pending", "running", "done", "skipped", "failed"}
         /\ attempts \in Seq(Attempt) /\ sha \in Bytes \cup {NoSHA}
         /\ file \in {"none", "partial", "too small"} \cup Bytes
  BY CudaAssumption, Zenon DEF CudaInv, TypeOK

LEMMA AptCandidateStep == CudaInv /\ AptCandidate => Good
<1> SUFFICES ASSUME CudaInv, AptCandidate PROVE Good
  OBVIOUS
<1>1. /\ pc = "apt"
      /\ UNCHANGED <<files, canon, arch, attempts, file, sha, profile, runs, kills,
                     attempt, archiveOnly>>
  BY DEF AptCandidate, Disk, Retry, Bounds
<1>2. /\ source' \in {"none", "apt", "runfile"} /\ package' \in Packages
      /\ status' \in {status, "skipped", "failed"}
      /\ pc' \in {"idle", "stage", "apt install"}
      /\ pc' = "apt install" => source' = "apt"
      /\ status' = "skipped" /\ status # "skipped" => profile.mode # "required"
      /\ status' = "failed" /\ status # "failed" =>
           profile.mode = "required" \/ profile.explicit = Drivers
  <2>1. CASE GiveUp /\ UNCHANGED <<source, package>>
    BY <2>1, GivingUp, Kept, Zenon
  <2>2. CASE pc' = "stage" /\ UNCHANGED <<status, source, package>>
    BY <2>2, Kept, Zenon
  <2>3. ASSUME NEW pkg \in CandidateLadder(profile), package' = pkg,
               IF pkg = Drivers THEN Fail /\ UNCHANGED source
               ELSE pc' = "apt install" /\ source' = "apt" /\ UNCHANGED status
        PROVE  /\ source' \in {"none", "apt", "runfile"} /\ package' \in Packages
               /\ status' \in {status, "skipped", "failed"}
               /\ pc' \in {"idle", "stage", "apt install"}
               /\ pc' = "apt install" => source' = "apt"
               /\ status' = "skipped" /\ status # "skipped" => profile.mode # "required"
               /\ status' = "failed" /\ status # "failed" =>
                    profile.mode = "required" \/ profile.explicit = Drivers
    <3>1. pkg \in Packages /\ (pkg = Drivers => profile.explicit = Drivers)
      BY Kept, LadderSound
    <3> QED
      BY <2>3, <3>1, Kept, Zenon DEF Fail
  <2> QED
    BY <2>1, <2>2, <2>3, Zenon DEF AptCandidate
<1>3. pc \notin Holding /\ Sourced'
  BY <1>1, <1>2 DEF Holding, Sourced, CudaInv
<1>4. status' \in {"pending", "running", "done", "skipped", "failed"}
  BY <1>2, Kept
<1>5. CudaInv'
  BY <1>1, <1>2, <1>3, <1>4, Kept, PlainStep
<1> QED
  BY <1>1, <1>2, <1>5 DEF Good, Honoured, IsWhole

LEMMA OutcomesTyped ==
  ASSUME NEW t \in Toolkit, NEW m \in Majors
  PROVE  WholeOf(m) \in Toolkit /\ Outcomes(t, WholeOf(m)) \subseteq Toolkit
<1> DEFINE w == WholeOf(m)
<1>1. w \in Toolkit /\ w.nvcc = m
  BY DEF WholeOf, Toolkit
<1>2. [t EXCEPT !.nvcc = m] \in Toolkit /\ [t EXCEPT !.rest = FALSE] \in Toolkit
  BY DEF Toolkit
<1> HIDE DEF w
<1>3. Outcomes(t, w) = {t, w, [t EXCEPT !.nvcc = m], [t EXCEPT !.rest = FALSE]}
  BY <1>1, Zenon DEF Outcomes
<1>4. Outcomes(t, w) \subseteq Toolkit
  BY <1>1, <1>2, <1>3, Zenon
<1> QED
  BY <1>1, <1>4 DEF w

LEMMA InstalledTyped ==
  ASSUME NEW t \in Toolkit, NEW m \in Majors, NEW ok \in BOOLEAN,
         NEW new \in IF ok THEN {t, WholeOf(m)} ELSE Outcomes(t, WholeOf(m))
  PROVE  new \in Toolkit
  BY OutcomesTyped, Zenon

LEMMA AptInstallStep == CudaInv /\ AptInstall => Good
<1> SUFFICES ASSUME CudaInv, AptInstall PROVE Good
  OBVIOUS
<1>1. /\ pc = "apt install"
      /\ UNCHANGED <<files, attempts, file, sha, profile, runs, kills, attempt,
                     source, package, archiveOnly>>
  BY DEF AptInstall, Choice, Retry, Bounds
<1>2. PICK m \in MajorsOf(package), ok \in BOOLEAN :
        /\ IF package = Archive
           THEN /\ arch' \in IF ok THEN {arch, WholeOf(m)} ELSE Outcomes(arch, WholeOf(m))
                /\ UNCHANGED canon
           ELSE /\ canon' \in IF ok THEN {canon, WholeOf(m)} ELSE Outcomes(canon, WholeOf(m))
                /\ UNCHANGED arch
        /\ IF ok THEN pc' = "verify" /\ UNCHANGED status ELSE GiveUp
  BY Zenon DEF AptInstall
<1>3. m \in Majors
  <2>1. package.major \in Majors \cup {0}
    <3>1. \/ package = Named("none", 0) \/ package = Named("cuda-toolkit", 0)
          \/ package = Named("cuda-drivers", 0) \/ package = Named("nvidia-cuda-toolkit", 0)
          \/ \E n \in Majors : package = Named("cuda-toolkit", n)
      BY Kept, Zenon DEF Packages, Archive, Drivers, Latest, NoPackage
    <3>2. \A a, n : Named(a, n).major = n
      BY DEF Named
    <3> QED
      BY <3>1, <3>2, Zenon
  <2> QED
    BY <2>1 DEF MajorsOf, ArchiveMajor, Majors
<1>4. canon' \in Toolkit /\ arch' \in Toolkit
  <2>1. CASE package = Archive
    BY <1>2, <1>3, <2>1, Kept, InstalledTyped, Zenon
  <2>2. CASE package # Archive
    BY <1>2, <1>3, <2>2, Kept, InstalledTyped, Zenon
  <2> QED
    BY <2>1, <2>2
<1>5. /\ status' \in {status, "skipped", "failed"} /\ pc' \in {"idle", "verify"}
      /\ status' = "skipped" /\ status # "skipped" => profile.mode # "required"
      /\ status' = "failed" /\ status # "failed" => profile.mode = "required"
  <2>1. CASE GiveUp
    BY <2>1, GivingUp, Zenon
  <2>2. CASE pc' = "verify" /\ UNCHANGED status
    BY <2>2
  <2> QED
    BY <1>2, <2>1, <2>2, Zenon
<1>6. pc \notin Holding /\ Sourced'
  BY <1>1, <1>5 DEF Holding, Sourced, CudaInv
<1>7. status' \in {"pending", "running", "done", "skipped", "failed"}
  BY <1>5, Kept
<1>8. CudaInv'
  BY <1>1, <1>4, <1>5, <1>6, <1>7, Kept, PlainStep
<1> QED
  BY <1>1, <1>5, <1>8 DEF Good, Honoured, IsWhole

LEMMA VerifyStep == CudaInv /\ Verify => Good
<1> SUFFICES ASSUME CudaInv, Verify PROVE Good
  OBVIOUS
<1>1. /\ pc = "verify"
      /\ UNCHANGED <<files, canon, arch, attempts, file, sha, profile, runs, kills, attempt,
                     source, package, archiveOnly>>
  BY DEF Verify, Disk, Choice, Retry, Bounds
<1>2. PICK rel \in NvccRelease :
        IF DetectCudaLayout = LayoutFromInstallSource /\ SatisfiesNvcc(profile, rel)
        THEN SmokeAndFinish ELSE GiveUp
  BY Zenon DEF Verify
<1>3. /\ status' \in {"done", "skipped", "failed"} /\ pc' = "idle"
      /\ status' = "skipped" => profile.mode # "required"
      /\ status' = "failed" => profile.mode = "required"
      /\ status' = "done" => /\ DetectCudaLayout = LayoutFromInstallSource
                            /\ SatisfiesNvcc(profile, rel)
  <2>1. CASE GiveUp
    BY <2>1, GivingUp
  <2>2. CASE ~GiveUp
    BY <1>2, <2>2, Zenon DEF SmokeAndFinish, MarkDone
  <2> QED
    BY <2>1, <2>2
<1>4. IsWhole
  <2> SUFFICES ASSUME status' = "done"
               PROVE  IF source = "runfile" \/ ~(archiveOnly \/ package = Archive)
                      THEN Whole(canon) /\ SatisfiesNvcc(profile, canon.nvcc)
                      ELSE Whole(arch)
    BY DEF IsWhole
  <2>1. rel # 0 => rel = Nvcc
    BY DEF NvccRelease
  <2>2. SatisfiesNvcc(profile, Nvcc)
    BY <1>3, <2>1 DEF SatisfiesNvcc
  <2>3. CASE source = "runfile" \/ ~(archiveOnly \/ package = Archive)
    <3>1. DetectCudaLayout = "nvidia-canonical"
      BY <1>3, <2>3 DEF LayoutFromInstallSource
    <3>2. Whole(canon)
      BY <3>1 DEF DetectCudaLayout
    <3>3. Nvcc = canon.nvcc
      BY <3>2 DEF Nvcc, Whole
    <3> QED
      BY <2>2, <2>3, <3>2, <3>3
  <2>4. CASE ~(source = "runfile" \/ ~(archiveOnly \/ package = Archive))
    <3>1. Whole(canon) \/ Whole(arch)
      BY <1>3 DEF DetectCudaLayout, LayoutFromInstallSource
    <3>2. source = "apt" => DetectCudaLayout = "ubuntu-archive"
      BY <1>3, <2>4 DEF LayoutFromInstallSource
    <3>3. source = "apt"
      BY <1>1, <2>4, Kept, Zenon DEF CudaInv, Sourced
    <3> QED
      BY <2>4, <3>2, <3>3 DEF DetectCudaLayout
  <2> QED
    BY <2>3, <2>4
<1>5. pc \notin Holding /\ Sourced'
  BY <1>1, <1>3 DEF Holding, Sourced, CudaInv
<1>6. CudaInv'
  BY <1>1, <1>3, <1>5, Kept, PlainStep
<1> QED
  BY <1>1, <1>3, <1>4, <1>6 DEF Good, Honoured

LEMMA StageStep == CudaInv /\ Stage => Good
<1> SUFFICES ASSUME CudaInv, Stage PROVE Good
  OBVIOUS
<1>1. /\ pc = "stage"
      /\ UNCHANGED <<files, canon, arch, attempts, file, sha, profile, runs, kills,
                     source, package, archiveOnly>>
  BY DEF Stage, Disk, Choice, Bounds
<1>2. /\ \/ pc' = "download" /\ attempt' = 1 /\ UNCHANGED status
         \/ /\ pc' = "idle" /\ UNCHANGED attempt /\ status' \in {"skipped", "failed"}
            /\ status' = "skipped" => profile.mode # "required"
  <2>1. CASE GiveUp /\ UNCHANGED attempt
    BY <2>1, GivingUp, Zenon
  <2>2. CASE ~(GiveUp /\ UNCHANGED attempt)
    BY <2>2 DEF Stage, Fail
  <2> QED
    BY <2>1, <2>2
<1>3. attempt' \in 0..MaxAttempts
  <2>1. 1 <= MaxAttempts /\ MaxAttempts \in Nat
    <3>1. MaxAttempts # 0
      BY CudaAssumption, Zenon
    <3> QED
      BY <3>1, BoundsAreNat
  <2> QED
    BY <1>2, <2>1, Numbers
<1>4. TypeOK'
  BY <1>1, <1>2, <1>3, Zenon DEF CudaInv, TypeOK
<1>5. DOMAIN attempts' = {} /\ Len(attempts') = 0
  BY <1>1 DEF CudaInv, Sourced
<1>6. BadBytesOnce'
  BY <1>5 DEF BadBytesOnce
<1>7. Fresh' /\ Sourced'
  BY <1>2, <1>5, Zenon DEF Fresh, Sourced, Retrying
<1>8. Staged'
  BY <1>1, <1>2, Numbers DEF Staged, Holding, CudaInv
<1>9. Honoured /\ IsWhole
  BY <1>1, <1>2 DEF Honoured, IsWhole
<1> QED
  BY <1>4, <1>6, <1>7, <1>8, <1>9 DEF CudaInv, Good

LEMMA DownloadStep == CudaInv /\ Download => Good
<1> SUFFICES ASSUME CudaInv, Download PROVE Good
  OBVIOUS
<1>1. /\ pc = "download" /\ pc' = "judge"
      /\ UNCHANGED <<canon, arch, attempt, attempts, sha, profile, runs, kills,
                     source, package, archiveOnly, status>>
  BY DEF Download, Disk, Choice, Bounds
<1>2. \/ file' = "none" /\ files' = files
      \/ file' \in {"partial", "too small"} \cup Bytes /\ files' = files + 1
  BY DEF Download
<1>3. file' \in {"none", "partial", "too small"} \cup Bytes /\ files' \in Nat
  <2>1. file' \in {"none", "partial", "too small"} \cup Bytes
    BY <1>2, Zenon
  <2>2. files' \in Nat
    <3>1. files' = files \/ files' = files + 1
      BY <1>2, Zenon
    <3> QED
      BY <3>1, Numbers
  <2> QED
    BY <2>1, <2>2
<1>4. TypeOK'
  BY <1>1, <1>3, Zenon DEF CudaInv, TypeOK
<1>5. Staged'
  <2>1. files <= kills
    BY <1>1 DEF CudaInv, Staged, Holding
  <2>2. CASE file' = "none"
    <3>1. files' = files
      BY <1>2, <2>2, CudaAssumption, Zenon
    <3> QED
      BY <1>1, <2>1, <2>2, <3>1 DEF Staged, Holding
  <2>3. CASE file' # "none"
    <3>1. files' = files + 1
      BY <1>2, <2>3, Zenon
    <3> QED
      BY <1>1, <2>1, <2>3, <3>1, Numbers DEF Staged, Holding
  <2> QED
    BY <2>2, <2>3
<1>6. BadBytesOnce' /\ Fresh' /\ Sourced' /\ Honoured /\ IsWhole
  BY <1>1 DEF CudaInv, BadBytesOnce, Fresh, Sourced, Retrying, Honoured, IsWhole
<1> QED
  BY <1>4, <1>5, <1>6 DEF CudaInv, Good

LEMMA JudgeStep == CudaInv /\ Judge => Good
<1> SUFFICES ASSUME CudaInv, Judge PROVE Good
  OBVIOUS
<1>1. /\ pc = "judge"
      /\ UNCHANGED <<canon, arch, file, profile, runs, kills, source, package, archiveOnly>>
  BY DEF Judge, Disk, Choice, Bounds
<1>2. /\ \A i \in DOMAIN attempts : ~attempts[i].ok
      /\ BadBytesOnce
  BY <1>1 DEF CudaInv, Fresh, Retrying
<1>3. CASE file \notin Bytes
  <2>1. Remove /\ Continue /\ UNCHANGED <<attempts, sha>>
    BY <1>3, Zenon DEF Judge
  <2>2. BadBytesOnce' /\ \A i \in DOMAIN attempts' : ~attempts'[i].ok
    BY <1>2, <2>1 DEF BadBytesOnce
  <2>3. sha' \in Bytes \cup {NoSHA} /\ attempts' \in Seq(Attempt)
    BY <2>1, Kept, Zenon
  <2> QED
    BY <1>1, <2>1, <2>2, <2>3, LoopStep
<1>4. CASE file \in Bytes
  <2>1. PICK hash \in {file, NoSHA} :
          /\ sha' = hash
          /\ IF ~ShouldRetry(attempts, hash)
             THEN Remove /\ GiveUp /\ UNCHANGED <<attempt, attempts>>
             ELSE IF NoSHA \notin {profile.sha, hash} /\ hash # profile.sha
             THEN Record(FALSE, hash) /\ Remove /\ Continue
             ELSE pc' = "check" /\ UNCHANGED <<status, files, attempt, attempts>>
    BY <1>4, Zenon DEF Judge
  <2>2. hash \in Bytes \cup {NoSHA} /\ sha' \in Bytes \cup {NoSHA}
    BY <1>4, <2>1, Zenon
  <2>3. CASE Remove /\ GiveUp /\ UNCHANGED <<attempt, attempts>>
    <3>1. BadBytesOnce' /\ \A i \in DOMAIN attempts' : ~attempts'[i].ok
      BY <1>2, <2>3 DEF BadBytesOnce
    <3>2. attempts' \in Seq(Attempt)
      BY <2>3, Kept, Zenon
    <3> QED
      BY <1>1, <2>2, <2>3, <3>1, <3>2, LoopStep
  <2>4. CASE ShouldRetry(attempts, hash) /\ Record(FALSE, hash) /\ Remove /\ Continue
    <3>2. /\ attempts' \in Seq(Attempt) /\ BadBytesOnce'
          /\ \A i \in DOMAIN attempts' : ~attempts'[i].ok
      BY <1>2, <2>2, <2>4, Kept, RecordSound, Zenon
    <3> QED
      BY <1>1, <2>2, <2>4, <3>2, LoopStep
  <2>5. CASE /\ ShouldRetry(attempts, hash)
             /\ pc' = "check" /\ UNCHANGED <<status, files, attempt, attempts>>
    <3>1. TypeOK'
      BY <1>1, <2>2, <2>5, Zenon DEF CudaInv, TypeOK
    <3>2. file # "none"
      BY <1>4, CudaAssumption, Zenon
    <3>3. Staged'
      BY <1>1, <2>5, <3>2 DEF CudaInv, Staged, Holding
    <3>4. Fresh'
      BY <1>2, <2>1, <2>5, Zenon DEF Fresh, Retrying
    <3>5. BadBytesOnce' /\ Sourced' /\ Honoured /\ IsWhole
      BY <1>1, <1>2, <2>5 DEF BadBytesOnce, Sourced, Honoured, IsWhole
    <3> QED
      BY <3>1, <3>3, <3>4, <3>5 DEF CudaInv, Good
  <2> QED
    BY <2>1, <2>3, <2>4, <2>5, Zenon
<1> QED
  BY <1>3, <1>4

LEMMA CheckStep == CudaInv /\ Check => Good
<1> SUFFICES ASSUME CudaInv, Check PROVE Good
  OBVIOUS
<1>1. /\ pc = "check"
      /\ UNCHANGED <<canon, arch, file, sha, profile, runs, kills, source, package,
                     archiveOnly>>
  BY DEF Check, Disk, Choice, Bounds
<1>2. /\ \A i \in DOMAIN attempts : ~attempts[i].ok
      /\ BadBytesOnce /\ ShouldRetry(attempts, sha)
  BY <1>1 DEF CudaInv, Fresh, Retrying
<1>3. PICK ok \in {FALSE, file \notin Corrupt} :
        /\ Record(ok, sha)
        /\ IF ok THEN pc' = "install" /\ UNCHANGED <<status, files, attempt>>
           ELSE Remove /\ Continue
  BY Zenon DEF Check
<1>4. ok \in BOOLEAN
  BY <1>3, Zenon
<1>6. /\ attempts' \in Seq(Attempt) /\ BadBytesOnce'
      /\ ~ok => \A i \in DOMAIN attempts' : ~attempts'[i].ok
  BY <1>2, <1>3, <1>4, Kept, RecordSound, Zenon
<1>7. CASE ok
  <2>1. pc' = "install" /\ UNCHANGED <<status, files, attempt>>
    BY <1>3, <1>7, Zenon
  <2>2. TypeOK'
    BY <1>1, <1>6, <2>1, Zenon DEF CudaInv, TypeOK
  <2>3. Fresh' /\ Sourced' /\ Honoured /\ IsWhole
    BY <2>1, Zenon DEF Fresh, Sourced, Retrying, Honoured, IsWhole
  <2>4. Staged'
    BY <1>1, <2>1 DEF CudaInv, Staged, Holding
  <2> QED
    BY <1>6, <2>2, <2>3, <2>4 DEF CudaInv, Good
<1>8. CASE ~ok
  <2>1. Remove /\ Continue
    BY <1>3, <1>8, Zenon
  <2>2. sha' \in Bytes \cup {NoSHA}
    BY <1>1, Kept, Zenon
  <2> QED
    BY <1>1, <1>6, <1>8, <2>1, <2>2, LoopStep
<1> QED
  BY <1>7, <1>8

LEMMA InstallStep == CudaInv /\ InstallRunfile => Good
<1> SUFFICES ASSUME CudaInv, InstallRunfile PROVE Good
  OBVIOUS
<1>1. /\ pc = "install" /\ Remove
      /\ UNCHANGED <<arch, package, archiveOnly, attempt, attempts, file, sha, profile,
                     runs, kills>>
  BY DEF InstallRunfile, Retry, Bounds
<1>2. PICK m \in Majors, ok \in BOOLEAN :
        /\ canon' \in IF ok THEN {canon, WholeOf(m)} ELSE Outcomes(canon, WholeOf(m))
        /\ IF ok THEN pc' = "verify" /\ source' = "runfile" /\ UNCHANGED status
           ELSE GiveUp /\ UNCHANGED source
  BY Zenon DEF InstallRunfile
<1>3. canon' \in Toolkit
  BY <1>2, Kept, InstalledTyped, Zenon
<1>4. files' \in Nat /\ files' <= kills
  BY <1>1, RemoveSound DEF Holding
<1>5. \/ pc' = "verify" /\ source' = "runfile" /\ UNCHANGED status
      \/ /\ pc' = "idle" /\ UNCHANGED source /\ status' \in {"skipped", "failed"}
         /\ status' = "skipped" => profile.mode # "required"
         /\ status' = "failed" => profile.mode = "required"
  BY <1>2, GivingUp, Zenon
<1>6. TypeOK'
  BY <1>1, <1>3, <1>4, <1>5, Zenon DEF CudaInv, TypeOK
<1>7. Staged'
  BY <1>1, <1>4, <1>5 DEF Staged, Holding
<1>8. BadBytesOnce' /\ Fresh' /\ Sourced'
  BY <1>1, <1>5 DEF CudaInv, BadBytesOnce, Fresh, Sourced, Retrying
<1>9. Honoured /\ IsWhole
  BY <1>1, <1>5 DEF Honoured, IsWhole
<1> QED
  BY <1>6, <1>7, <1>8, <1>9 DEF CudaInv, Good

LEMMA KillStep == CudaInv /\ Kill => Good
<1> SUFFICES ASSUME CudaInv, Kill PROVE Good
  OBVIOUS
<1>1. /\ pc' = "idle" /\ kills' = kills + 1 /\ kills < MaxKills
      /\ UNCHANGED <<canon, arch, package, archiveOnly, source, attempt, attempts, file, sha,
                     profile, files, status, runs>>
  BY DEF Kill, Disk, Choice, Retry
<1>2. kills' \in 0..MaxKills
  BY <1>1, Numbers, BoundsAreNat
<1>3. TypeOK'
  BY <1>1, <1>2, Zenon DEF CudaInv, TypeOK
<1>4. files <= kills + 1
  BY Numbers DEF CudaInv, Staged
<1>5. Staged'
  BY <1>1, <1>4 DEF Staged, Holding
<1>6. BadBytesOnce' /\ Fresh' /\ Sourced' /\ Honoured /\ IsWhole
  BY <1>1 DEF CudaInv, BadBytesOnce, Fresh, Sourced, Retrying, Honoured, IsWhole
<1> QED
  BY <1>3, <1>5, <1>6 DEF CudaInv, Good

LEMMA ResetStep == CudaInv /\ Reset => Good
<1> SUFFICES ASSUME CudaInv, Reset PROVE Good
  OBVIOUS
<1>1. /\ pc = "idle" /\ status' = "pending"
      /\ UNCHANGED <<canon, arch, package, archiveOnly, source, attempt, attempts, file, sha,
                     profile, files, pc, runs, kills>>
  BY DEF Reset, Disk, Choice, Retry, Bounds
<1>2. TypeOK'
  BY <1>1, Zenon DEF CudaInv, TypeOK
<1>3. Staged'
  BY <1>1 DEF CudaInv, Staged, Holding
<1>4. BadBytesOnce' /\ Fresh' /\ Sourced' /\ Honoured /\ IsWhole
  BY <1>1 DEF CudaInv, BadBytesOnce, Fresh, Sourced, Retrying, Honoured, IsWhole
<1> QED
  BY <1>2, <1>3, <1>4 DEF CudaInv, Good

LEMMA CudaStep == CudaInv /\ [Next]_vars => CudaInv' /\ (Good \/ UNCHANGED vars)
<1> SUFFICES ASSUME CudaInv, [Next]_vars PROVE CudaInv' /\ (Good \/ UNCHANGED vars)
  OBVIOUS
<1>1. CASE Next
  BY <1>1, BeginStep, ProbeStep, AptCandidateStep, AptInstallStep, StageStep, DownloadStep,
     JudgeStep, CheckStep, InstallStep, VerifyStep, KillStep, ResetStep, Zenon
     DEF Next, Run, Good
<1>2. CASE UNCHANGED vars
  <2>1. TypeOK'
    BY <1>2, Zenon DEF vars, CudaInv, TypeOK
  <2> QED
    BY <1>2, <2>1 DEF vars, CudaInv, BadBytesOnce, Fresh, Staged, Sourced
<1> QED
  BY <1>1, <1>2
-----------------------------------------------------------------------------
LEMMA CudaInvariant == Spec => []CudaInv
<1>1. CudaInv /\ [Next]_vars => CudaInv'
  BY CudaStep
<1> QED
  BY <1>1, CudaInit, PTL DEF Spec

(* Types, for every profile and any bounds. *)
THEOREM CudaTypeCorrect == Spec => []TypeOK
<1>1. CudaInv => TypeOK
  BY DEF CudaInv
<1> QED
  BY <1>1, CudaInvariant, PTL

(* No bytes fail twice in a run and three failures end it, for any number   *)
(* of contents and of attempts the profile allows (cuda.go:170).            *)
THEOREM BadBytesFailOnce == Spec => []BadBytesOnce
<1>1. CudaInv => BadBytesOnce
  BY DEF CudaInv
<1> QED
  BY <1>1, CudaInvariant, PTL

(* Only kills leave runfiles behind, at most one each (cuda.go:590 to 663). *)
THEOREM StagingIsClean == Spec => []NothingStaged
<1>1. CudaInv => NothingStaged
  BY DEF CudaInv, Staged, NothingStaged, Holding
<1> QED
  BY <1>1, CudaInvariant, PTL

(* The mode decides how a failure ends, wherever it is (internal/cuda/       *)
(* cuda.go:18).                                                             *)
THEOREM ModeDecides == Spec => ModeHonoured
<1>1. CudaInv /\ [Next]_vars => [Honoured]_vars
  BY CudaStep DEF Good
<1>2. Spec => [][Honoured]_vars
  BY <1>1, CudaInvariant, PTL DEF Spec
<1> QED
  BY <1>2 DEF ModeHonoured, Honoured

(* Done after an install vouches for all of the toolkit that was asked for, *)
(* whatever else is on the disk (cuda.go:829).                              *)
THEOREM DoneVouches == Spec => DoneIsWhole
<1>1. CudaInv /\ [Next]_vars => [IsWhole]_vars
  BY CudaStep DEF Good
<1>2. Spec => [][IsWhole]_vars
  BY <1>1, CudaInvariant, PTL DEF Spec
<1> QED
  BY <1>2 DEF DoneIsWhole, IsWhole
-----------------------------------------------------------------------------
(* The phase as the pipeline sees it: it works on, or ends as the table     *)
(* says.                                                                    *)
WorksOn == pc' # "idle" /\ status' = status
EndsRun == pc' = "idle" /\ status' \in {"done", "skipped", "failed"}

LEMMA RunGoesOn == Run => pc # "idle" /\ (WorksOn \/ EndsRun)
<1>1. GiveUp => EndsRun
  BY DEF GiveUp, Fail, SkipNonfatal, EndsRun
<1>2. Fail => EndsRun
  BY DEF Fail, EndsRun
<1>3. SkipUnwanted \/ AlreadyInstalled \/ Verify => pc # "idle" /\ EndsRun
  BY <1>1 DEF SkipUnwanted, SkipNonfatal, AlreadyInstalled, Verify, SmokeAndFinish, MarkDone, EndsRun
<1>4. ChooseMethod => pc # "idle" /\ (WorksOn \/ EndsRun)
  BY <1>1 DEF ChooseMethod, WorksOn
<1>5. AptCandidate => pc # "idle" /\ (WorksOn \/ EndsRun)
  BY <1>1, <1>2 DEF AptCandidate, WorksOn
<1>6. AptInstall => pc # "idle" /\ (WorksOn \/ EndsRun)
  BY <1>1 DEF AptInstall, WorksOn
<1>7. Stage \/ Download => pc # "idle" /\ (WorksOn \/ EndsRun)
  BY <1>1, <1>2 DEF Stage, Download, WorksOn
<1>8. Continue => WorksOn \/ EndsRun
  BY <1>1 DEF Continue, WorksOn
<1>9. Judge \/ Check => pc # "idle" /\ (WorksOn \/ EndsRun)
  BY <1>1, <1>8 DEF Judge, Check, WorksOn
<1>10. InstallRunfile => pc # "idle" /\ (WorksOn \/ EndsRun)
  BY <1>1 DEF InstallRunfile, WorksOn
<1> QED
  BY <1>3, <1>4, <1>5, <1>6, <1>7, <1>9, <1>10 DEF Run

LEMMA LifeStep == [Next]_vars => [Life!Next]_(Life!lifeVars)
<1> USE DEF LifeAt, LifeStatus, Life!lifeVars
<1>1. ASSUME Begin PROVE Life!Enter
  BY <1>1 DEF Begin, Life!Enter, Life!Due
<1>2. ASSUME Run PROVE Life!End \/ UNCHANGED Life!lifeVars
  <2>1. CASE WorksOn
    BY <1>2, <2>1, RunGoesOn DEF WorksOn
  <2>2. CASE EndsRun
    <3>1. LifeStatus' \in Table!Cuda \ {"reboot"}
      BY <2>2 DEF EndsRun, Table!Cuda, Table!CudaPlan, Table!DoneOrFatal, Table!failPhase
    <3>2. LifeAt = "in" /\ LifeAt' = "out"
      BY <1>2, <2>2, RunGoesOn DEF EndsRun
    <3> QED
      BY <3>1, <3>2 DEF Life!End, Life!Record
  <2> QED
    BY <1>2, <2>1, <2>2, RunGoesOn
<1>3. ASSUME Kill PROVE Life!Leave
  BY <1>3 DEF Kill, Life!Leave, Life!Record
<1>4. ASSUME Reset PROVE Life!Again
  BY <1>4 DEF Reset, Life!Again, Life!Record
<1>5. ASSUME UNCHANGED vars PROVE UNCHANGED Life!lifeVars
  BY <1>5 DEF vars
<1> QED
  BY <1>1, <1>2, <1>3, <1>4, <1>5 DEF Next, Life!Next

(* The toolkit phase is what Deploy takes it for: begun when it is due,     *)
(* marked running first, ended as PhaseTable has it, on every path.         *)
THEOREM CudaLivesAsTabled == Spec => LivesAsTabled
<1>1. Init => Life!Init
  BY DEF Init, Life!Init, LifeAt, LifeStatus
<1> QED
  BY <1>1, LifeStep, PTL DEF Spec, LivesAsTabled, Life!Spec
=============================================================================
