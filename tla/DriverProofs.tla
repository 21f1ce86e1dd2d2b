---------------------------- MODULE DriverProofs ----------------------------
(***************************************************************************)
(* Theorems about NvidiaDriver: what SelectFamily promises for all         *)
(* evidence, and what the phase keeps for every archive, every set of      *)
(* families found at first and any number of runs and reboots.             *)
(***************************************************************************)
EXTENDS NvidiaDriver, TLAPS
-----------------------------------------------------------------------------
(* The selection. *)

Order == {s \in Seq(Families) : Len(s) \in 1..4}

LEMMA OrdersAreOrders ==
  ASSUME NEW e
  PROVE  OpenOnlyOrderFor(e) \in Order /\ PreferenceOrder(e) \in Order
BY DEF Order, OpenOnlyOrderFor, PreferenceOrder, OpenFirstOrder, ServerFirstOrder,
       DefaultOrder, Families

(* The first entry that is available; Unknown only if none is. *)
LEMMA FirstIsFirst ==
  ASSUME NEW e, NEW order \in Order
  PROVE  \/ /\ FirstAvailable(e, order) = Unknown
            /\ \A i \in DOMAIN order : ~IsAvailable(e, order[i])
         \/ \E i \in DOMAIN order :
              /\ FirstAvailable(e, order) = order[i]
              /\ IsAvailable(e, order[i])
              /\ \A j \in DOMAIN order : IsAvailable(e, order[j]) => i <= j
<1> DEFINE ok == {i \in DOMAIN order : IsAvailable(e, order[i])}
<1>1. CASE ok = {}
  BY <1>1 DEF FirstAvailable
<1>2. CASE ok # {}
  <2>1. DOMAIN order = 1..Len(order) /\ Len(order) \in 1..4
    BY DEF Order
  <2>2. ok \subseteq 1..4
    BY <2>1
  <2>3. \E i \in ok : \A j \in ok : i <= j
    <3> HIDE DEF ok
    <3>1. CASE 1 \in ok
      BY <2>2, <3>1
    <3>2. CASE 1 \notin ok /\ 2 \in ok
      BY <2>2, <3>2
    <3>3. CASE 1 \notin ok /\ 2 \notin ok /\ 3 \in ok
      BY <2>2, <3>3
    <3>4. CASE 1 \notin ok /\ 2 \notin ok /\ 3 \notin ok
      <4>1. \A j \in ok : j = 4
        BY <2>2, <3>4
      <4>2. PICK j \in ok : TRUE
        BY <1>2
      <4> QED
        BY <4>1, <4>2
    <3> QED
      BY <3>1, <3>2, <3>3, <3>4
  <2>4. FirstAvailable(e, order) = order[CHOOSE i \in ok : \A j \in ok : i <= j]
    BY <1>2 DEF FirstAvailable
  <2>5. PICK m \in ok : FirstAvailable(e, order) = order[m] /\ \A j \in ok : m <= j
    <3> HIDE DEF ok
    <3> QED
      BY <2>3, <2>4
  <2> QED
    BY <2>5
<1> QED
  BY <1>1, <1>2

(* Each order of preference names all four families, the open-only orders   *)
(* both open ones and nothing else.                                         *)
LEMMA OrdersAreComplete ==
  ASSUME NEW e
  PROVE  /\ \A f \in Families : \E i \in DOMAIN PreferenceOrder(e) :
                                  PreferenceOrder(e)[i] = f
         /\ \A f \in Families : IsOpen(f) =>
              \E i \in DOMAIN OpenOnlyOrderFor(e) : OpenOnlyOrderFor(e)[i] = f
         /\ \A i \in DOMAIN OpenOnlyOrderFor(e) : IsOpen(OpenOnlyOrderFor(e)[i])
<1>1. \A o \in {OpenFirstOrder, ServerFirstOrder, DefaultOrder} :
        /\ DOMAIN o = 1..4
        /\ \A f \in Families : f = o[1] \/ f = o[2] \/ f = o[3] \/ f = o[4]
  BY DEF OpenFirstOrder, ServerFirstOrder, DefaultOrder, Families
<1>2. PreferenceOrder(e) \in {OpenFirstOrder, ServerFirstOrder, DefaultOrder}
  BY DEF PreferenceOrder
<1>3. /\ DOMAIN OpenOnlyOrderFor(e) = 1..2
      /\ {OpenOnlyOrderFor(e)[1], OpenOnlyOrderFor(e)[2]} = {"server-open", "non-server-open"}
  BY DEF OpenOnlyOrderFor
<1>4. 1 \in 1..4 /\ 2 \in 1..4 /\ 3 \in 1..4 /\ 4 \in 1..4 /\ 1..2 = {1, 2}
  OBVIOUS
<1> QED
  BY <1>1, <1>2, <1>3, <1>4 DEF IsOpen

(* SelectFamily (family.go:298): what it selects is open where the GPU      *)
(* needs it and can be installed, or it is the one family that works        *)
(* already; it refuses only when apt has nothing acceptable, so that a hint *)
(* of the profile never decides whether a host can be deployed.             *)
SelectionIsRight(e) ==
  LET f == SelectFamily(e)
  IN  /\ f \in Families \cup {Unknown}
      /\ f # Unknown /\ RequiresOpenKernelModule(e) => IsOpen(f)
      /\ f # Unknown =>
           \/ IsAvailable(e, f)
           \/ SingleWorking(e) /\ ~RequiresOpenKernelModule(e)
      /\ SingleWorking(e) /\ ~RequiresOpenKernelModule(e) => f = AlreadyInstalled(e)
      /\ f = Unknown =>
           \A g \in Families : IsAvailable(e, g) =>
              RequiresOpenKernelModule(e) /\ ~IsOpen(g)

LEMMA InstalledIsFamily ==
  ASSUME NEW e PROVE AlreadyInstalled(e) \in Families \cup {Unknown}
BY DEF AlreadyInstalled

LEMMA UnknownIsNone == Unknown \notin Families
BY DEF Unknown, Families

(* Preference never decides feasibility, and a hard requirement always      *)
(* does: SelectionIsRight for all evidence (nvidia/family.go:259-352).      *)
THEOREM SelectionSound == \A e \in Evidence : SelectionIsRight(e)
<1> SUFFICES ASSUME NEW e \in Evidence PROVE SelectionIsRight(e)
  OBVIOUS
<1>0. /\ \A i \in DOMAIN PreferenceOrder(e) : PreferenceOrder(e)[i] \in Families
      /\ \A i \in DOMAIN OpenOnlyOrderFor(e) : OpenOnlyOrderFor(e)[i] \in Families
  BY OrdersAreOrders DEF Order
<1>1. CASE RequiresOpenKernelModule(e)
  <2>1. SelectFamily(e) = FirstAvailable(e, OpenOnlyOrderFor(e))
    BY <1>1 DEF SelectFamily
  <2> QED
    BY <1>0, <1>1, <2>1, FirstIsFirst, OrdersAreOrders, OrdersAreComplete, UnknownIsNone
       DEF SelectionIsRight
<1>2. CASE ~RequiresOpenKernelModule(e) /\ SingleWorking(e)
  <2>1. SelectFamily(e) = AlreadyInstalled(e) /\ AlreadyInstalled(e) # Unknown
    BY <1>2 DEF SelectFamily, SingleWorking
  <2> QED
    BY <1>2, <2>1, InstalledIsFamily DEF SelectionIsRight
<1>3. CASE ~RequiresOpenKernelModule(e) /\ ~SingleWorking(e) /\ ~AnyAvailable(e)
  <2>1. SelectFamily(e) = Unknown /\ \A g \in Families : ~IsAvailable(e, g)
    BY <1>3 DEF SelectFamily, SingleWorking, AnyAvailable, IsAvailable
  <2> QED
    BY <1>3, <2>1 DEF SelectionIsRight
<1>4. CASE ~RequiresOpenKernelModule(e) /\ ~SingleWorking(e) /\ AnyAvailable(e)
  <2>1. SelectFamily(e) = FirstAvailable(e, PreferenceOrder(e))
    BY <1>4 DEF SelectFamily, SingleWorking
  <2> QED
    BY <1>0, <1>4, <2>1, FirstIsFirst, OrdersAreOrders, OrdersAreComplete, UnknownIsNone
       DEF SelectionIsRight
<1> QED
  BY <1>1, <1>2, <1>3, <1>4
-----------------------------------------------------------------------------
(* The phase. *)

Notices == [dmesg : BOOLEAN, log : BOOLEAN]

(* What a module that is loaded, or is not, leaves behind: a refusal is in  *)
(* dmesg, and in kern.log where that is kept.                               *)
NoticeGrows(d) ==
  /\ module' \in {"none", "open", "closed"}
  /\ smi' \in BOOLEAN /\ (smi' => module' # "none")
  /\ notice' \in Notices
  /\ notice.log => notice'.log
  /\ notice'.dmesg => d \/ (host.keepsLog => notice'.log)

LEMMA LoadModuleEffect ==
  ASSUME NEW fams, NEW d \in BOOLEAN, host \in Host, notice \in Notices,
         LoadModule(fams, d)
  PROVE  NoticeGrows(d)
<1>1. CASE /\ module' = "none" /\ smi' = FALSE
           /\ notice' = [notice EXCEPT !.dmesg = d]
  BY <1>1 DEF NoticeGrows, Notices
<1>2. CASE \E f \in fams :
       IF host.refuses /\ ~IsOpen(f)
       THEN /\ module' = "none" /\ smi' = FALSE
            /\ notice' = [dmesg |-> TRUE, log |-> notice.log \/ host.keepsLog]
       ELSE /\ module' = IF IsOpen(f) THEN "open" ELSE "closed"
            /\ smi' \in BOOLEAN
            /\ notice' = [notice EXCEPT !.dmesg = d]
  <2>1. PICK f \in fams :
       IF host.refuses /\ ~IsOpen(f)
       THEN /\ module' = "none" /\ smi' = FALSE
            /\ notice' = [dmesg |-> TRUE, log |-> notice.log \/ host.keepsLog]
       ELSE /\ module' = IF IsOpen(f) THEN "open" ELSE "closed"
            /\ smi' \in BOOLEAN
            /\ notice' = [notice EXCEPT !.dmesg = d]
    BY <1>2
  <2>2. CASE host.refuses /\ ~IsOpen(f)
    <3>1. host.keepsLog \in BOOLEAN /\ notice.log \in BOOLEAN
      BY DEF Host, Notices
    <3>2. CASE notice.log \/ host.keepsLog
      <4>1. notice' = [dmesg |-> TRUE, log |-> TRUE]
        BY <2>1, <2>2, <3>1, <3>2, Zenon
      <4> QED
        BY <2>1, <2>2, <4>1 DEF NoticeGrows, Notices
    <3>3. CASE ~(notice.log \/ host.keepsLog)
      <4>1. notice' = [dmesg |-> TRUE, log |-> FALSE]
        BY <2>1, <2>2, <3>1, <3>3, Zenon
      <4> QED
        BY <2>1, <2>2, <3>3, <4>1 DEF NoticeGrows, Notices
    <3> QED
      BY <3>2, <3>3
  <2>3. CASE ~(host.refuses /\ ~IsOpen(f))
    BY <2>1, <2>3 DEF NoticeGrows, Notices
  <2> QED
    BY <2>2, <2>3
<1> QED
  BY <1>1, <1>2 DEF LoadModule

LEMMA SetPackagesEffect ==
  ASSUME NEW fams, TypeOK, SetPackages(fams)
  PROVE  installed' = fams /\ NoticeGrows(notice.dmesg)
<1>1. notice \in Notices /\ notice.dmesg \in BOOLEAN /\ host \in Host
  BY DEF TypeOK, Notices
<1>2. CASE module = "none"
  BY <1>1, <1>2, LoadModuleEffect DEF SetPackages
<1>3. CASE module # "none"
  BY <1>1, <1>3 DEF SetPackages, NoticeGrows, TypeOK
<1> QED
  BY <1>2, <1>3
-----------------------------------------------------------------------------
(* The invariant: between the evidence and the decision the host is as it   *)
(* was found; whoever works on packages has a family, and one working       *)
(* family is only touched where it has to go; a refusal of the closed       *)
(* module stays in the log, and from the first verdict on in the evidence.  *)

AsFound == pc = "gathered" => ev = Gather

Chosen ==
  pc \in {"purge", "install", "verify"} =>
     /\ SelectFamily(ev) # Unknown /\ ev.known
     /\ SingleWorking(ev) => RequiresOpenKernelModule(ev)

Got == pc = "verify" => SelectFamily(ev) \in installed

Logged == host.keepsLog /\ notice.dmesg => notice.log

Remembered ==
  host.keepsLog /\ wrong >= 1 =>
     /\ wrong = 1 /\ notice.log
     /\ pc \in {"gathered", "purge", "install", "verify"} => ev.notice

DriverInv == TypeOK /\ AsFound /\ Chosen /\ Got /\ Logged /\ Remembered

LEMMA GatherIsEvidence == TypeOK => Gather \in Evidence
<1> SUFFICES ASSUME TypeOK PROVE Gather \in Evidence
  OBVIOUS
<1>1. host.offer \in SUBSET Families
  BY DriverAssumption DEF TypeOK, Host
<1>2. /\ host.pci \in BOOLEAN /\ host.blackwell \in BOOLEAN /\ host.dataCenter \in BOOLEAN
      /\ host.preferOpen \in BOOLEAN /\ host.preferServer \in BOOLEAN
      /\ notice.dmesg \in BOOLEAN /\ notice.log \in BOOLEAN
      /\ smi \in BOOLEAN /\ installed \in SUBSET Families
  BY DEF TypeOK, Host
<1>3. (host.pci /\ host.blackwell) \in BOOLEAN /\ (host.pci /\ host.dataCenter) \in BOOLEAN
      /\ (notice.dmesg \/ notice.log) \in BOOLEAN
  BY <1>2, Zenon
<1> QED
  BY <1>1, <1>2, <1>3 DEF Gather, Evidence

LEMMA PlanIsPlan ==
  ASSUME NEW e \in Evidence, NEW f \in Families, NEW r
  PROVE  PlanCleanup(f, e, r) \in Plan
<1>1. e.installed \in SUBSET Families
  BY DEF Evidence
<1>2. \A a \in {"install", "keep", "purge", "refuse"}, p \in SUBSET Families :
        PlanTo(a, p) \in Plan
  BY DEF PlanTo, Plan
<1>3. AlreadyInstalled(e) # Unknown => {AlreadyInstalled(e)} \in SUBSET Families
  BY InstalledIsFamily
<1> QED
  BY <1>1, <1>2, <1>3 DEF PlanCleanup

LEMMA DriverInit == Init => DriverInv
<1> SUFFICES ASSUME Init PROVE DriverInv
  OBVIOUS
<1>1. host \in Host /\ installed \subseteq Families
  BY DriverAssumption DEF Init
<1>2. host.keepsLog \in BOOLEAN
  BY <1>1 DEF Host
<1>3. notice \in Notices /\ ~notice.dmesg
  BY <1>2 DEF Init, Notices
<1>4. smi \in BOOLEAN /\ (smi => module # "none") /\ module \in {"none", "open", "closed"}
  BY DEF Init
<1>5. ev \in Evidence /\ plan \in Plan
  BY DEF Init, NoEvidence, Evidence, PlanTo, Plan
<1>6. TypeOK
  BY <1>1, <1>3, <1>4, <1>5, DriverAssumption DEF TypeOK, Init, Notices
<1> QED
  BY <1>3, <1>6 DEF DriverInv, AsFound, Chosen, Got, Logged, Remembered, Init
-----------------------------------------------------------------------------
(* The two action properties, for one step. *)

Justified ==
  installed' # installed =>
     /\ SingleWorking(ev) => RequiresOpenKernelModule(ev)
     /\ RequiresOpenKernelModule(ev) => \A f \in installed' \ installed : IsOpen(f)
     /\ installed' \subseteq installed \cup ev.available

Served ==
  status # "done" /\ status' = "done" =>
     /\ smi
     /\ recorded' \in installed
     /\ RequiresOpenKernelModule(ev) => IsOpen(recorded')

Good == DriverInv' /\ Justified /\ Served

LEMMA BootStep == DriverInv /\ Boot => Good
<1> SUFFICES ASSUME DriverInv, Boot PROVE Good
  OBVIOUS
<1>1. LoadModule(installed, FALSE) /\ host \in Host /\ notice \in Notices
  BY DEF Boot, DriverInv, TypeOK, Notices
<1>2. NoticeGrows(FALSE)
  BY <1>1, LoadModuleEffect
<1> QED
  BY <1>2 DEF Boot, Good, DriverInv, TypeOK, AsFound, Chosen, Got, Logged, Remembered,
     Justified, Served, NoticeGrows, Notices

LEMMA QuietStep == DriverInv /\ (Kill \/ Reset \/ AptFails) => Good
BY DEF Kill, Reset, AptFails, MarkFailed, Good, DriverInv, TypeOK, AsFound, Chosen,
   Got, Logged, Remembered, Justified, Served, Packages, Entry, Counts, Unknown, Gather

LEMMA BeginStep == DriverInv /\ Begin => Good
<1> SUFFICES ASSUME DriverInv, Begin PROVE Good
  OBVIOUS
<1>1. Gather \in Evidence /\ Gather' = Gather
  BY GatherIsEvidence DEF DriverInv, Begin, Packages, Gather
<1>2. notice.log => Gather.notice
  BY DEF Gather, DriverInv, TypeOK
<1>3. runs' \in 0..MaxRuns
  BY DriverAssumption DEF Begin, DriverInv, TypeOK
<1>4. TypeOK'
  BY <1>1, <1>3 DEF Begin, DriverInv, TypeOK, Packages, Unknown
<1> QED
  BY <1>1, <1>2, <1>4 DEF Begin, Good, DriverInv, AsFound, Chosen, Got, Logged,
     Remembered, Justified, Served, Packages

LEMMA SelectedIsFamily ==
  ASSUME TypeOK, SelectFamily(ev) # Unknown
  PROVE  SelectFamily(ev) \in Families
BY SelectionSound DEF TypeOK, SelectionIsRight

LEMMA DecideStep == DriverInv /\ Decide => Good
<1> SUFFICES ASSUME DriverInv, Decide PROVE Good
  OBVIOUS
<1> DEFINE family == SelectFamily(ev)
           chosen == PlanCleanup(family, ev, Repair)
<1>0. /\ pc = "gathered" /\ ev = Gather /\ TypeOK /\ ev \in Evidence
      /\ UNCHANGED <<host, ev, installed, module, smi, notice, runs, reboots, wrong>>
  BY DEF Decide, DriverInv, AsFound, TypeOK, Packages, Counts
<1>1. CASE ~GpuFound(ev) \/ family = Unknown
  BY <1>0, <1>1 DEF Decide, MarkFailed, Good, DriverInv, TypeOK, AsFound, Chosen, Got,
     Logged, Remembered, Justified, Served
<1>2. CASE ~(~GpuFound(ev) \/ family = Unknown)
  <2>1. /\ plan' = chosen
        /\ IF chosen.action = "keep" THEN MarkDone(family)
           ELSE IF chosen.action = "refuse" THEN MarkFailed
           ELSE /\ pc' = IF chosen.purge # {} THEN "purge" ELSE "install"
                /\ UNCHANGED Entry
    BY <1>2 DEF Decide
  <2>2. family \in Families
    BY <1>0, <1>2, SelectedIsFamily
  <2>3. chosen \in Plan
    BY <1>0, <2>2, PlanIsPlan
  <2>4. chosen.action = "keep" => AlreadyInstalled(ev) = family /\ ev.smi
    BY DEF PlanCleanup, PlanTo
  <2>5. chosen.action # "keep" /\ SingleWorking(ev) => RequiresOpenKernelModule(ev)
    <3>1. SingleWorking(ev) /\ ~RequiresOpenKernelModule(ev) =>
            family = AlreadyInstalled(ev) /\ ev.smi
      BY <1>0, SelectionSound DEF SelectionIsRight, SingleWorking
    <3> QED
      BY <3>1 DEF PlanCleanup, PlanTo
  <2>6. AlreadyInstalled(ev) # Unknown => AlreadyInstalled(ev) \in ev.installed
    BY DEF AlreadyInstalled
  <2>7. ev.known /\ ev.installed = installed /\ ev.smi = smi
    BY <1>0 DEF Gather
  <2>8. RequiresOpenKernelModule(ev) => IsOpen(family)
    BY <1>0, <1>2, SelectionSound DEF SelectionIsRight
  <2> HIDE DEF family, chosen
  <2>9. CASE chosen.action = "keep"
    <3>1. MarkDone(family)
      BY <2>1, <2>9
    <3>2. family \in installed /\ smi
      BY <1>2, <2>4, <2>6, <2>7, <2>9
    <3> QED
      BY <1>0, <2>1, <2>2, <2>3, <2>8, <3>1, <3>2 DEF MarkDone, Good, DriverInv, TypeOK,
         AsFound, Chosen, Got, Logged, Remembered, Justified, Served
  <2>10. CASE chosen.action = "refuse"
    <3>1. MarkFailed
      BY <2>1, <2>10
    <3> QED
      BY <1>0, <2>1, <2>3, <3>1 DEF MarkFailed, Good, DriverInv, TypeOK,
         AsFound, Chosen, Got, Logged, Remembered, Justified, Served
  <2>11. CASE chosen.action \notin {"keep", "refuse"}
    <3>1. pc' \in {"purge", "install"} /\ UNCHANGED Entry
      BY <2>1, <2>11
    <3>2. SelectFamily(ev) # Unknown
      BY <1>2 DEF family
    <3>3. (SelectFamily(ev))' = SelectFamily(ev)
      BY <1>0 DEF SelectFamily, AlreadyInstalled, FirstAvailable
    <3>4. TypeOK'
      BY <1>0, <2>1, <2>3, <3>1 DEF TypeOK, Entry
    <3>5. Chosen'
      BY <1>0, <2>5, <2>7, <2>11, <3>2 DEF Chosen
    <3> QED
      BY <1>0, <3>1, <3>4, <3>5 DEF Entry, Good, DriverInv,
         AsFound, Got, Logged, Remembered, Justified, Served
  <2> QED
    BY <2>9, <2>10, <2>11
<1> QED
  BY <1>1, <1>2

(* A step on packages that adds the family at most, when one is chosen. *)
LEMMA PackagesStep ==
  ASSUME DriverInv, Chosen, pc \in {"purge", "install"},
         NEW fams, SetPackages(fams), fams \subseteq installed \cup {SelectFamily(ev)},
         UNCHANGED <<host, ev, plan, runs, reboots, wrong>>,
         \/ status' = "failed" /\ pc' = "idle" /\ UNCHANGED recorded
         \/ pc' = "install" /\ UNCHANGED Entry
         \/ pc' = "verify" /\ SelectFamily(ev) \in fams /\ UNCHANGED Entry
  PROVE  Good
<1>1. installed' = fams /\ NoticeGrows(notice.dmesg)
  BY SetPackagesEffect DEF DriverInv
<1>2. SelectFamily(ev) \in Families
  BY SelectedIsFamily DEF Chosen, DriverInv
<1>3. /\ RequiresOpenKernelModule(ev) => IsOpen(SelectFamily(ev))
      /\ \/ IsAvailable(ev, SelectFamily(ev))
         \/ SingleWorking(ev) /\ ~RequiresOpenKernelModule(ev)
  BY SelectionSound DEF SelectionIsRight, Chosen, DriverInv, TypeOK
<1>4. SelectFamily(ev) \in ev.available
  BY <1>3 DEF Chosen, IsAvailable
<1>5. TypeOK'
  BY <1>1, <1>2 DEF DriverInv, TypeOK, NoticeGrows, Notices, Entry
<1>6. Justified
  BY <1>1, <1>3, <1>4 DEF Justified, Chosen
<1>7. Chosen' /\ Got' /\ Logged' /\ AsFound' /\ Remembered' /\ Served
  BY <1>1 DEF DriverInv, Chosen, Got, Logged, AsFound, Remembered, Served, NoticeGrows,
     Entry
<1> QED
  BY <1>5, <1>6, <1>7 DEF Good, DriverInv

LEMMA PurgeStep == DriverInv /\ Purge => Good
<1> SUFFICES ASSUME DriverInv, Purge PROVE Good
  OBVIOUS
<1>1. PICK gone \in SUBSET {f \in plan.purge : Purgeable(f)} :
        /\ SetPackages(installed \ gone)
        /\ IF gone = {f \in plan.purge : Purgeable(f)}
           THEN pc' = "install" /\ UNCHANGED Entry ELSE MarkFailed
  BY DEF Purge
<1>2. pc = "purge" /\ UNCHANGED <<host, ev, plan, runs, reboots, wrong>> /\ Chosen
  BY DEF Purge, Counts, DriverInv
<1>3. \/ status' = "failed" /\ pc' = "idle" /\ UNCHANGED recorded
      \/ pc' = "install" /\ UNCHANGED Entry
  BY <1>1 DEF MarkFailed
<1> QED
  BY <1>1, <1>2, <1>3, PackagesStep

LEMMA InstallStep == DriverInv /\ Install => Good
<1> SUFFICES ASSUME DriverInv, Install PROVE Good
  OBVIOUS
<1> DEFINE family == SelectFamily(ev)
<1>1. PICK gone \in SUBSET (installed \ {family}), got \in BOOLEAN :
        /\ SetPackages((installed \ gone) \cup (IF got THEN {family} ELSE {}))
        /\ IF got THEN pc' = "verify" /\ UNCHANGED Entry ELSE MarkFailed
  BY DEF Install
<1>2. pc = "install" /\ UNCHANGED <<host, ev, plan, runs, reboots, wrong>> /\ Chosen
  BY DEF Install, Counts, DriverInv
<1> DEFINE fams == (installed \ gone) \cup (IF got THEN {family} ELSE {})
<1>3. fams \subseteq installed \cup {family} /\ (got => family \in fams)
  OBVIOUS
<1>4. \/ status' = "failed" /\ pc' = "idle" /\ UNCHANGED recorded
      \/ pc' = "verify" /\ family \in fams /\ UNCHANGED Entry
  BY <1>1, <1>3 DEF MarkFailed
<1>5. SetPackages(fams)
  BY <1>1
<1> HIDE DEF fams
<1> QED
  BY <1>2, <1>3, <1>4, <1>5, PackagesStep

LEMMA VerifyStep == DriverInv /\ Verify => Good
<1> SUFFICES ASSUME DriverInv, Verify PROVE Good
  OBVIOUS
<1>8. PICK family : family = SelectFamily(ev)
  OBVIOUS
<1>9. PICK verdict : verdict = EvaluatePostInstall(family, Gather, notice.dmesg)
  OBVIOUS
<1>0. /\ pc = "verify" /\ TypeOK /\ Chosen /\ family \in installed
      /\ UNCHANGED <<host, ev, plan, runs, reboots, installed, module, smi, notice>>
  BY <1>8, Zenon DEF Verify, DriverInv, Got, Packages
<1>1. family \in Families
  BY <1>0, <1>8, SelectedIsFamily DEF Chosen
<1>2. RequiresOpenKernelModule(ev) => IsOpen(family)
  BY <1>0, <1>8, SelectionSound DEF SelectionIsRight, Chosen, TypeOK
<1>3. verdict = "ok" => smi
  BY <1>9 DEF EvaluatePostInstall, Gather
<1>4. verdict = "wrong flavor" => notice.dmesg /\ ~ev.notice
  BY <1>2, <1>9 DEF EvaluatePostInstall, RequiresOpenKernelModule
<1>5. IF verdict = "ok" THEN MarkDone(family)
      ELSE IF verdict = "reboot" THEN pc' = "ask" /\ UNCHANGED Entry
      ELSE MarkFailed
  BY <1>8, <1>9, Zenon DEF Verify
<1>a. wrong' = wrong + (IF verdict = "wrong flavor" THEN 1 ELSE 0)
  BY <1>8, <1>9, Zenon DEF Verify
<1>c. wrong \in Nat
  BY <1>0 DEF TypeOK
<1>b. ASSUME host.keepsLog, verdict = "wrong flavor" PROVE wrong = 0 /\ notice.log
  <2>1. (host.keepsLog /\ wrong >= 1) => ev.notice
    BY <1>0, Zenon DEF DriverInv, Remembered
  <2>2. host.keepsLog /\ notice.dmesg => notice.log
    BY Zenon DEF DriverInv, Logged
  <2>3. ~(wrong >= 1) /\ notice.log
    BY <1>4, <1>b, <2>1, <2>2, Zenon
  <2> QED
    BY <1>c, <2>3
<1>6. CASE verdict = "wrong flavor"
  <2>1. MarkFailed
    BY <1>5, <1>6
  <2>2. wrong' = wrong + 1
    BY <1>a, <1>6
  <2>3. wrong' \in Nat
    BY <1>c, <2>2
  <2>4. Remembered'
    <3>1. CASE host.keepsLog
      <4>1. wrong = 0 /\ notice.log
        BY <1>b, <1>6, <3>1, Zenon
      <4>2. wrong' = 1
        BY <2>2, <4>1
      <4> QED
        BY <1>0, <2>1, <4>1, <4>2, Zenon DEF MarkFailed, Remembered
    <3>2. CASE ~host.keepsLog
      BY <1>0, <3>2, Zenon DEF Remembered
    <3> QED
      BY <3>1, <3>2
  <2> QED
    BY <1>0, <2>1, <2>3, <2>4 DEF MarkFailed, Good, DriverInv, TypeOK, AsFound, Chosen, Got,
       Logged, Justified, Served
<1>7. CASE verdict # "wrong flavor"
  <2>3. wrong' = wrong + 0
    BY <1>a, <1>7, Zenon
  <2>1. wrong' = wrong
    BY <1>c, <2>3
  <2>2. \/ MarkDone(family) /\ smi
        \/ pc' = "ask" /\ UNCHANGED Entry
        \/ MarkFailed
    BY <1>3, <1>5, Zenon
  <2> QED
    BY <1>0, <1>1, <1>2, <2>1, <2>2 DEF MarkDone, MarkFailed, Entry, Good, DriverInv,
       TypeOK, AsFound, Chosen, Got, Logged, Remembered, Justified, Served
<1> QED
  BY <1>6, <1>7

LEMMA RebootStep == DriverInv /\ HandleRebootRequired => Good
<1> SUFFICES ASSUME DriverInv, HandleRebootRequired PROVE Good
  OBVIOUS
<1>1. reboots' \in 0..MaxReboots
  BY DriverAssumption DEF HandleRebootRequired, DriverInv, TypeOK
<1> QED
  BY <1>1 DEF HandleRebootRequired, Packages, Entry, Good, DriverInv, TypeOK, AsFound,
     Chosen, Got, Logged, Remembered, Justified, Served

LEMMA DriverStep == DriverInv /\ [Next]_vars => DriverInv' /\ (Good \/ UNCHANGED vars)
<1> SUFFICES ASSUME DriverInv, [Next]_vars PROVE DriverInv' /\ (Good \/ UNCHANGED vars)
  OBVIOUS
<1>1. CASE Next
  BY <1>1, BootStep, QuietStep, BeginStep, DecideStep, PurgeStep, InstallStep, VerifyStep,
     RebootStep DEF Next, Run, Good
<1>2. CASE UNCHANGED vars
  BY <1>2 DEF vars, DriverInv, TypeOK, AsFound, Chosen, Got, Logged, Remembered, Gather
<1> QED
  BY <1>1, <1>2
-----------------------------------------------------------------------------
LEMMA DriverInvariant == Spec => []DriverInv
<1>1. DriverInv /\ [Next]_vars => DriverInv'
  BY DriverStep
<1> QED
  BY <1>1, DriverInit, PTL DEF Spec

(* Types, and the bound on the reboots of the phase (main.go:2203). *)
THEOREM DriverTypeCorrect == Spec => []TypeOK
<1>1. DriverInv => TypeOK
  BY DEF DriverInv
<1> QED
  BY <1>1, DriverInvariant, PTL

(* A host that keeps its kern.log is told at most once that it has the      *)
(* wrong flavor, for any number of runs and reboots in between.             *)
THEOREM WrongFlavorOnlyOnce == Spec => []WrongFlavorOnce
<1>1. DriverInv => WrongFlavorOnce
  BY DEF DriverInv, Remembered, WrongFlavorOnce, TypeOK
<1> QED
  BY <1>1, DriverInvariant, PTL

(* No closed family is installed on a GPU that needs the open one, nothing  *)
(* apt does not offer, and a single working family is only touched where    *)
(* the GPU needs it, whatever purge or install stops halfway.               *)
THEOREM InstallsJustified == Spec => InstallsAreJustified
<1>1. DriverInv /\ [Next]_vars => [Justified]_vars
  BY DriverStep DEF Good
<1>2. Spec => [][Justified]_vars
  BY <1>1, DriverInvariant, PTL DEF Spec
<1> QED
  BY <1>2 DEF InstallsAreJustified, Justified

(* Done means that nvidia-smi works now, with the family that is recorded,  *)
(* and that this family suits the GPU.                                      *)
THEOREM DoneServed == Spec => DoneIsServed
<1>1. DriverInv /\ [Next]_vars => [Served]_vars
  BY DriverStep DEF Good
<1>2. Spec => [][Served]_vars
  BY <1>1, DriverInvariant, PTL DEF Spec
<1> QED
  BY <1>2 DEF DoneIsServed, Served
-----------------------------------------------------------------------------
(* The phase as the pipeline sees it. *)
WorksOn == LifeAt' = "in" /\ status' = status
Asks == LifeAt' = "asked" /\ status' = status
EndsRun == LifeAt' = "out" /\ status' \in {"done", "failed"}

LEMMA RunGoesOn ==
  ASSUME Decide \/ AptFails \/ Purge \/ Install \/ Verify
  PROVE  LifeAt = "in" /\ (WorksOn \/ Asks \/ EndsRun)
<1> USE DEF LifeAt
<1>1. MarkFailed => EndsRun
  BY DEF MarkFailed, EndsRun
<1>2. \A f : MarkDone(f) => EndsRun
  BY DEF MarkDone, EndsRun
<1>3. CASE Decide
  BY <1>1, <1>2, <1>3 DEF Decide, WorksOn, Entry
<1>4. CASE AptFails
  BY <1>1, <1>4 DEF AptFails
<1>5. CASE Purge
  BY <1>1, <1>5 DEF Purge, WorksOn, Entry
<1>6. CASE Install
  BY <1>1, <1>6 DEF Install, WorksOn, Entry
<1>7. CASE Verify
  BY <1>1, <1>2, <1>7 DEF Verify, Asks, Entry
<1> QED
  BY <1>3, <1>4, <1>5, <1>6, <1>7

LEMMA LifeStep == DriverInv /\ [Next]_vars => [Life!Next]_(Life!lifeVars)
<1> USE DEF LifeStatus, Life!lifeVars
<1>1. ASSUME DriverInv, Begin PROVE Life!Enter
  <2>1. status \notin {"done", "skipped"}
    BY <1>1 DEF DriverInv, TypeOK, Begin
  <2> QED
    BY <1>1, <2>1 DEF Begin, LifeAt, Life!Enter, Life!Due
<1>2. ASSUME Decide \/ AptFails \/ Purge \/ Install \/ Verify
      PROVE  Life!End \/ Life!AskReboot \/ UNCHANGED Life!lifeVars
  <2>1. LifeAt = "in" /\ (WorksOn \/ Asks \/ EndsRun)
    BY <1>2, RunGoesOn
  <2>2. CASE WorksOn
    BY <2>1, <2>2 DEF WorksOn
  <2>3. CASE Asks
    BY <2>1, <2>3 DEF Asks, Life!AskReboot, Table!NvidiaDriver
  <2>4. CASE EndsRun
    <3>1. LifeStatus' \in Table!NvidiaDriver \ {"reboot"}
      BY <2>4 DEF EndsRun, Table!NvidiaDriver, Table!DoneOrFatal, Table!failPhase
    <3> QED
      BY <2>1, <2>4, <3>1 DEF EndsRun, Life!End, Life!Record
  <2> QED
    BY <2>1, <2>2, <2>3, <2>4
<1>3. ASSUME HandleRebootRequired \/ Boot \/ Kill PROVE Life!Leave
  BY <1>3 DEF HandleRebootRequired, Boot, Kill, Entry, LifeAt, Life!Leave, Life!Record
<1>4. ASSUME Reset PROVE Life!Again
  BY <1>4 DEF Reset, LifeAt, Life!Again, Life!Record
<1>5. ASSUME UNCHANGED vars PROVE UNCHANGED Life!lifeVars
  BY <1>5 DEF vars, LifeAt
<1> QED
  BY <1>1, <1>2, <1>3, <1>4, <1>5 DEF Next, Run, Life!Next

(* The driver phase is what Deploy takes it for: begun when it is due,      *)
(* marked running first, ended as PhaseTable has it or asking for a reboot. *)
THEOREM DriverLivesAsTabled == Spec => LivesAsTabled
<1>1. Init => Life!Init
  BY DEF Init, Life!Init, LifeAt, LifeStatus
<1> QED
  BY <1>1, LifeStep, DriverInvariant, PTL DEF Spec, LivesAsTabled, Life!Spec
=============================================================================
