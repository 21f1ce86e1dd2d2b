----------------------------- MODULE LockProofs -----------------------------
(***************************************************************************)
(* Theorems about ProcessLock, for any number of invocations and pids.     *)
(***************************************************************************)
EXTENDS ProcessLock, TLAPS

(* An invocation in the loop has an attempt left. *)
Trying ==
  /\ \A p \in Procs : pc[p] = "off" => attempt[p] = 0
  /\ \A p \in Procs : pc[p] \in {"create", "write", "read", "steal"} => attempt[p] \in 0..1

LockTyped == TypeOK /\ Trying

LEMMA LockTypedStep == LockTyped /\ [Next]_vars => LockTyped'
<1> SUFFICES ASSUME LockTyped, [Next]_vars PROVE LockTyped'
  OBVIOUS
<1> USE LockAssumption DEF LockTyped, TypeOK, Trying, Goto, ControlPoint, LockFile
<1>1. ASSUME NEW p \in Procs, Start(p) PROVE LockTyped'
  <2>1. company' \in [Procs -> BOOLEAN]
    BY <1>1 DEF Start
  <2>2. pid' \in [Procs -> Pids \cup {NoPid}] /\ pc' \in [Procs -> ControlPoint]
    BY <1>1 DEF Start, FreePids
  <2>3. Trying'
    BY <1>1 DEF Start
  <2> QED
    BY <1>1, <2>1, <2>2, <2>3 DEF Start
<1>2. ASSUME NEW p \in Procs, Create(p) PROVE LockTyped'
  BY <1>2 DEF Create
<1>3. ASSUME NEW p \in Procs, Write(p) PROVE LockTyped'
  BY <1>3 DEF Write, Made
<1>4. ASSUME NEW p \in Procs, Read(p) PROVE LockTyped'
  BY <1>4 DEF Read
<1>5. ASSUME NEW p \in Procs, Steal(p) PROVE LockTyped'
  BY <1>5 DEF Steal, Remove
<1>6. ASSUME NEW p \in Procs, Release(p) PROVE LockTyped'
  BY <1>6 DEF Release, Remove
<1>7. ASSUME NEW p \in Procs, Dies(p) PROVE LockTyped'
  BY <1>7 DEF Dies
<1>8. CASE Others
  BY <1>8 DEF Others, FreePids
<1>9. CASE UNCHANGED vars
  BY <1>9 DEF vars
<1> QED
  BY <1>1, <1>2, <1>3, <1>4, <1>5, <1>6, <1>7, <1>8, <1>9 DEF Next, Step, Exit, Kill

LEMMA LockTypedInit == Init => LockTyped
<1> SUFFICES ASSUME Init PROVE TypeOK /\ Trying
  BY DEF LockTyped
<1> USE DEF Init
<1>1. company \in [Procs -> BOOLEAN] /\ robbed \in BOOLEAN
  OBVIOUS
<1>2. pc \in [Procs -> ControlPoint] /\ attempt \in [Procs -> 0..2] /\ left \in [Procs -> 0..2]
  BY DEF ControlPoint
<1>3. pid \in [Procs -> Pids \cup {NoPid}]
  OBVIOUS
<1> QED
  BY <1>1, <1>2, <1>3 DEF TypeOK, Trying

(* Types, and with them the bound on the attempts of AcquireWithRecovery.   *)
THEOREM LockTypeCorrect == Spec => []TypeOK
<1>1. LockTyped => TypeOK
  BY DEF LockTyped
<1> QED
  BY <1>1, LockTypedInit, LockTypedStep, PTL DEF Spec
-----------------------------------------------------------------------------
(* Exclusion is inductive once it says why it holds: until a robbery the    *)
(* lock file on disk is the one that the holder created.                    *)
HolderOwnsFile == ~robbed => \A p \in Procs : Holding(p) => file # None /\ file.by = p

LockInv == LockTyped /\ HolderOwnsFile

LEMMA HolderOwnsFileStep ==
  ASSUME LockInv, [Next]_vars
  PROVE  HolderOwnsFile'
<1> USE LockAssumption DEF LockInv, LockTyped, TypeOK, HolderOwnsFile, Holding, Goto, LockFile
<1>1. ASSUME NEW p \in Procs, Start(p) PROVE HolderOwnsFile'
  BY <1>1 DEF Start
<1>2. ASSUME NEW p \in Procs, Create(p) PROVE HolderOwnsFile'
  BY <1>2 DEF Create
<1>3. ASSUME NEW p \in Procs, Write(p) PROVE HolderOwnsFile'
  BY <1>3 DEF Write, Made
<1>4. ASSUME NEW p \in Procs, Read(p) PROVE HolderOwnsFile'
  BY <1>4 DEF Read
<1>5. ASSUME NEW p \in Procs, Steal(p) PROVE HolderOwnsFile'
  BY <1>5 DEF Steal, Remove
<1>6. ASSUME NEW p \in Procs, Release(p) PROVE HolderOwnsFile'
  BY <1>6 DEF Release, Remove
<1>7. ASSUME NEW p \in Procs, Dies(p) PROVE HolderOwnsFile'
  BY <1>7 DEF Dies
<1>8. CASE Others
  BY <1>8 DEF Others
<1>9. CASE UNCHANGED vars
  BY <1>9 DEF vars
<1> QED
  BY <1>1, <1>2, <1>3, <1>4, <1>5, <1>6, <1>7, <1>8, <1>9 DEF Next, Step, Exit, Kill

(* O_EXCL is enough for mutual exclusion until the first removal of a lock  *)
(* file that another invocation relies on: that is the only way to lose it. *)
THEOREM Exclusion == Spec => []ExclusiveUnlessRobbed
<1>1. Init => LockInv
  BY LockTypedInit DEF Init, LockInv, HolderOwnsFile, Holding
<1>2. LockInv /\ [Next]_vars => LockInv'
  BY LockTypedStep, HolderOwnsFileStep DEF LockInv
<1>3. LockInv => ExclusiveUnlessRobbed
  BY DEF LockInv, HolderOwnsFile, ExclusiveUnlessRobbed
<1> QED
  BY <1>1, <1>2, <1>3, PTL DEF Spec
-----------------------------------------------------------------------------
(* A step that neither touches the file nor changes who has it, who goes on *)
(* and who is about to remove it is none of the lock's.                     *)
LEMMA NothingSeen ==
  ASSUME file' = file \/ (file # None /\ file' # None /\ file'.by = file.by),
         \A q \in Procs : Holding(q)' <=> Holding(q),
         \A q \in Procs : (q \in Clearing)' <=> (q \in Clearing),
         file \in LockFile \cup {None}
  PROVE  UNCHANGED Service!lockVars
<1>1. Works' = Works /\ Clearing' = Clearing
  BY DEF Works, Clearing
<1>2. Holder' = Holder
  BY DEF Holder, LockFile
<1> QED
  BY <1>1, <1>2 DEF Service!lockVars

(* Every step is one of the abstract lock, those that rob a holder too.     *)
LEMMA ServiceStep ==
  ASSUME LockTyped, LockTyped', [Next]_vars
  PROVE  [Service!Next]_(Service!lockVars)
<1> USE LockAssumption DEF LockTyped, TypeOK, Goto, ControlPoint
<1>1. ASSUME NEW p \in Procs, Create(p) PROVE [Service!Next]_(Service!lockVars)
  <2>1. CASE file = None
    <3>1. Holder = None
      BY <2>1 DEF Holder
    <3>2. pc'[p] = "write" /\ file' # None /\ file'.by = p
      BY <1>1, <2>1 DEF Create, LockFile
    <3>3. Holder' = p
      BY <3>2 DEF Holder, Holding
    <3>4. Works' = Works \cup {p}
      BY <1>1, <3>2 DEF Create, Works, Holding
    <3>5. Clearing' = Clearing
      BY <1>1, <3>2 DEF Create, Clearing
    <3> QED
      BY <3>1, <3>3, <3>4, <3>5 DEF Service!Next, Service!Take
  <2>2. CASE file # None
    <3>1. file' = file /\ \A q \in Procs : Holding(q)' <=> Holding(q)
      BY <1>1, <2>2 DEF Create, Holding
    <3>2. \A q \in Procs : (q \in Clearing)' <=> (q \in Clearing)
      BY <1>1, <2>2 DEF Create, Clearing
    <3> QED
      BY <3>1, <3>2, NothingSeen
  <2> QED
    BY <2>1, <2>2
<1>2. ASSUME NEW p \in Procs, Start(p) \/ Write(p) PROVE UNCHANGED Service!lockVars
  <2>1. \A q \in Procs : Holding(q)' <=> Holding(q)
    BY <1>2 DEF Start, Write, Holding
  <2>2. \A q \in Procs : (q \in Clearing)' <=> (q \in Clearing)
    BY <1>2 DEF Start, Write, Clearing
  <2>3. file' = file \/ (file # None /\ file' # None /\ file'.by = file.by)
    BY <1>2 DEF Start, Write, Made, LockFile
  <2> QED
    BY <2>1, <2>2, <2>3, NothingSeen
<1>3. ASSUME NEW p \in Procs, Read(p) PROVE [Service!Next]_(Service!lockVars)
  <2>1. Works' = Works /\ Holder' = Holder /\ p \notin Works
    BY <1>3 DEF Read, Works, Holder, Holding, LockFile
  <2>2. Clearing' = Clearing \/ Clearing' = Clearing \cup {p}
    BY <1>3 DEF Read, Clearing
  <2> QED
    BY <2>1, <2>2 DEF Service!Next, Service!Suspect, Service!lockVars
<1>4. ASSUME NEW p \in Procs, Steal(p) PROVE Service!Clear(p)
  <2>1. Holder' = None
    BY <1>4 DEF Steal, Remove, Holder
  <2>2. Works' = Works
    BY <1>4 DEF Steal, Works, Holding
  <2>3. p \in Clearing /\ Clearing' = Clearing \ {p}
    BY <1>4 DEF Steal, Clearing
  <2> QED
    BY <2>1, <2>2, <2>3 DEF Service!Clear
<1>5. ASSUME NEW p \in Procs, Release(p) PROVE Service!Give(p) \/ Service!Clear(p)
  <2>1. Holder' = None
    BY <1>5 DEF Release, Remove, Holder
  <2>2. Clearing' = Clearing \ {p} \/ Clearing' = Clearing \cup {p}
    BY <1>5 DEF Release, Clearing
  <2>3. CASE pc[p] = "held"
    <3>1. p \in Works /\ Works' = Works \ {p}
      BY <1>5, <2>3 DEF Release, Works, Holding
    <3>2. Clearing' = Clearing \/ Clearing' = Clearing \cup {p}
      BY <2>2, <2>3 DEF Clearing
    <3> QED
      BY <2>1, <3>1, <3>2 DEF Service!Give
  <2>4. CASE pc[p] = "release"
    <3>1. Works' = Works
      BY <1>5, <2>4 DEF Release, Works, Holding
    <3>2. p \in Clearing
      BY <1>5, <2>4 DEF Release, Clearing
    <3> QED
      BY <2>1, <2>2, <3>1, <3>2 DEF Service!Clear
  <2> QED
    BY <1>5, <2>3, <2>4 DEF Release
<1>6. ASSUME NEW p \in Procs, Dies(p) PROVE Service!End({p})
  <2>1. Works' = Works \ {p} /\ Clearing' = Clearing \ {p}
    BY <1>6 DEF Dies, Works, Clearing, Holding
  <2>2. file' = file /\ ~Holding(p)' /\ \A q \in Procs \ {p} : Holding(q)' <=> Holding(q)
    BY <1>6 DEF Dies, Holding
  <2>3. Holder' = IF Holder = p /\ Holding(p) THEN NoPid ELSE Holder
    BY <2>2 DEF Holder, LockFile
  <2>4. (Holder \in Works \cap {p}) <=> (Holder = p /\ Holding(p))
    BY DEF Works
  <2> QED
    BY <2>1, <2>3, <2>4 DEF Service!End
<1>7. CASE Others \/ UNCHANGED vars
  <2>1. UNCHANGED <<file, pc, left>>
    BY <1>7 DEF Others, vars
  <2> QED
    BY <2>1 DEF Service!lockVars, Holder, Works, Clearing, Holding
<1>8. ASSUME NEW p \in Procs, Service!Give(p) \/ Service!Clear(p) \/ Service!End({p})
      PROVE  Service!Next
  BY <1>8 DEF Service!Next
<1> QED
  BY <1>1, <1>2, <1>3, <1>4, <1>5, <1>6, <1>7, <1>8 DEF Next, Step, Exit, Kill

(* The files, pids and system calls implement the lock that Deploy takes in *)
(* one step, for any number of invocations: a lock file that is removed     *)
(* under its holder included, and only by those the abstract lock names.    *)
THEOREM LockImplementsService == Spec => ImplementsLockService
<1>1. Init => Service!Init
  BY DEF Init, Service!Init, Holder, Works, Clearing, Holding
<1>2. LockTyped /\ LockTyped' /\ [Next]_vars => [Service!Next]_(Service!lockVars)
  BY ServiceStep
<1> QED
  BY <1>1, <1>2, LockTypedInit, LockTypedStep, PTL
     DEF Spec, Service!Spec, ImplementsLockService
-----------------------------------------------------------------------------
(* Who is alive has a pid of its own, and everybody has met everybody.      *)
Apart ==
  \A p \in Procs : pc[p] # "off" =>
    /\ pid[p] \in Pids \ others
    /\ \A q \in Procs : (pc[q] # "off" /\ q # p) => pid[q] # pid[p] /\ company[p]

(* After a theft there is only a file if somebody else made one since.      *)
SecondAttempt ==
  \A p \in Procs :
    /\ (pc[p] = "create" /\ attempt[p] = 1) => file = None \/ company[p]
    /\ (pc[p] \in {"read", "steal"} /\ attempt[p] = 1) => company[p]

CompanyInv == LockTyped /\ Apart /\ SecondAttempt

LEMMA CompanyStep ==
  ASSUME CompanyInv, [Next]_vars
  PROVE  CompanyInv'
<1>0. LockTyped'
  BY LockTypedStep DEF CompanyInv
<1> SUFFICES Apart' /\ SecondAttempt'
  BY <1>0 DEF CompanyInv
<1> USE LockAssumption DEF CompanyInv, LockTyped, TypeOK, Trying, Goto, LockFile, ControlPoint
<1> DEFINE Kept == Apart' /\ SecondAttempt'
<1>1. ASSUME NEW p \in Procs, Start(p) PROVE Kept
  <2>1. PICK x \in FreePids : pid' = [pid EXCEPT ![p] = x]
    BY <1>1 DEF Start
  <2>2. /\ x \in Pids /\ x \notin others
        /\ \A q \in Procs : pc[q] # "off" => pid[q] # x
    BY <2>1 DEF FreePids, PidsInUse, Alive
  <2>3. /\ \A q \in Procs : pc[q] # "off" => company'[p] /\ company'[q]
        /\ \A q \in Procs : company[q] /\ q # p => company'[q]
    BY <1>1 DEF Start, Alive
  <2>4. Apart'
    BY <1>1, <2>1, <2>2, <2>3 DEF Start, Apart
  <2>6. SecondAttempt'
    BY <1>1, <2>3 DEF Start, SecondAttempt
  <2> QED
    BY <2>4, <2>6
<1>2. ASSUME NEW p \in Procs, Create(p) PROVE Kept
  BY <1>2 DEF Create, Apart, SecondAttempt
<1>3. ASSUME NEW p \in Procs, Write(p) PROVE Kept
  BY <1>3 DEF Write, Made, Apart, SecondAttempt
<1>4. ASSUME NEW p \in Procs, Read(p) PROVE Kept
  BY <1>4 DEF Read, Apart, SecondAttempt
<1>5. ASSUME NEW p \in Procs, Steal(p) PROVE Kept
  BY <1>5 DEF Steal, Remove, Apart, SecondAttempt
<1>6. ASSUME NEW p \in Procs, Release(p) PROVE Kept
  BY <1>6 DEF Release, Remove, Apart, SecondAttempt
<1>7. ASSUME NEW p \in Procs, Dies(p) PROVE Kept
  BY <1>7 DEF Dies, Apart, SecondAttempt
<1>8. CASE Others
  BY <1>8 DEF Others, FreePids, PidsInUse, Alive, Apart, SecondAttempt
<1>9. CASE UNCHANGED vars
  BY <1>9 DEF vars, Apart, SecondAttempt
<1> QED
  BY <1>1, <1>2, <1>3, <1>4, <1>5, <1>6, <1>7, <1>8, <1>9 DEF Next, Step, Exit, Kill

(* An invocation is turned away at the second theft only in company, and at *)
(* a live pid only in company or when that pid is no invocation's but its   *)
(* own.                                                                     *)
LEMMA RefusalStep ==
  ASSUME CompanyInv, [Next]_vars,
         NEW p \in Procs, pc[p] # "refused", pc'[p] = "refused"
  PROVE  \/ company[p]
         \/ pc[p] = "read" /\ file # None /\ file.pid \in others \cup {pid[p]}
<1> USE LockAssumption DEF CompanyInv, LockTyped, TypeOK, Trying, Goto, LockFile, ControlPoint
<1>1. Read(p) \/ Steal(p)
  BY DEF Next, Step, Start, Create, Write, Exit, Release, Kill, Dies, Others, vars, Read, Steal
<1>2. CASE Steal(p)
  BY <1>2 DEF Steal, SecondAttempt
<1>3. CASE Read(p)
  <2>1. pc[p] = "read"
    BY <1>3 DEF Read
  <2>2. NoPid \notin PidsInUse
    BY DEF PidsInUse, Alive, Apart
  <2>3. file # None /\ file.pid \in PidsInUse
    BY <1>3, <2>2 DEF Read
  <2>4. CASE file.pid \notin others
    <3>1. PICK q \in Procs : pc[q] # "off" /\ pid[q] = file.pid
      BY <2>3, <2>4 DEF PidsInUse, Alive
    <3> QED
      BY <2>1, <2>3, <3>1 DEF Apart
  <2> QED
    BY <2>1, <2>3, <2>4
<1> QED
  BY <1>1, <1>2, <1>3

(* A lock that somebody left behind keeps nobody out, however many          *)
(* invocations come and go, unless its pid has become that of a program     *)
(* that lives.                                                              *)
THEOREM OnlyCompanyRefuses == Spec => RefusedOnlyInCompany
<1>1. Init => CompanyInv
  BY LockTypedInit DEF Init, CompanyInv, Apart, SecondAttempt
<1>2. CompanyInv /\ [Next]_vars => CompanyInv'
  BY CompanyStep
<1>3. ASSUME CompanyInv, [Next]_vars
      PROVE  [\A p \in Procs : (pc[p] # "refused" /\ pc'[p] = "refused") =>
                \/ company[p]
                \/ pc[p] = "read" /\ file # None /\ file.pid \in others \cup {pid[p]}]_vars
  BY <1>3, RefusalStep
<1> QED
  BY <1>1, <1>2, <1>3, PTL DEF Spec, RefusedOnlyInCompany
=============================================================================
