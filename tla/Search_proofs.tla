----------------------------- MODULE Search_proofs -----------------------------
(***************************************************************************)
(* Proofs about the threads of a search and the reporter they share, for any *)
(* machine, any locators and any number of directories and searches.        *)
(*                                                                         *)
(* The first part says what a thread's work is made of; then there is one   *)
(* lemma for each action, with a step for each part of IInv that it can      *)
(* disturb.                                                                 *)
(***************************************************************************)
EXTENDS Search, FiniteSetTheorems, SequenceTheorems, TLAPS

(* A set of numbers that is not empty has a least element.                  *)
LessThan == {pair \in Nat \X Nat : pair[1] < pair[2]}

LEMMA LeastNumber ==
  ASSUME NEW S \in SUBSET Nat, S # {}
  PROVE  Min(S) \in S
<1>1. IsWellFoundedOn(LessThan, Nat)
  BY NatLessThanWellFounded DEF OpToRel, LessThan
<1>2. PICK x \in S : \A y \in S : ~(<<y, x>> \in LessThan)
  BY <1>1, WFMin
<1>3. \A m, n \in Nat : <<m, n>> \in LessThan <=> m < n
  BY DEF LessThan
<1>4. ASSUME NEW y \in S PROVE x <= y
  <2>1. x \in Nat /\ y \in Nat
    OBVIOUS
  <2>2. ~(y < x)
    BY <1>2, <1>3, <2>1
  <2> QED
    BY <2>1, <2>2
<1> QED
  BY <1>4 DEF Min

(* Locators and Python itself describe executables by typed environments.   *)
LEMMA FirstMatchType ==
  ASSUME NEW x \in PythonEnvs
  PROVE  FirstMatch(x) \in PythonEnvironments \cup {None}
<1> DEFINE claims == {i \in DOMAIN LocatorOrder : TryFrom[LocatorOrder[i]][x] # None}
<1>1. DOMAIN LocatorOrder \subseteq Nat
      /\ \A i \in DOMAIN LocatorOrder : LocatorOrder[i] \in Locators
  BY LocatorAssumption
<1>2. CASE claims = {}
  BY <1>2 DEF FirstMatch
<1>3. CASE claims # {}
  <2>1. Min(claims) \in claims
    BY <1>1, <1>3, LeastNumber
  <2>2. TryFrom[LocatorOrder[Min(claims)]][x] \in PythonEnvironments \cup {None}
    BY <1>1, <2>1, LocatorAssumption
  <2> QED
    BY <1>3, <2>2 DEF FirstMatch
<1> QED
  BY <1>2, <1>3

LEMMA IdentifyType ==
  ASSUME NEW x \in PythonEnvs \cup {None}, NEW paths
  PROVE  Identify(x, paths) \in PythonEnvironments \cup {None}
<1>1. CASE x = None
  BY <1>1 DEF Identify
<1>2. CASE x # None
  <2>1. x \in PythonEnvs /\ Resolve[x] \in PythonEnvs \cup {None}
    BY <1>2, FileAssumption
  <2>2. FirstMatch(x) \in PythonEnvironments \cup {None}
    BY <2>1, FirstMatchType
  <2>3. CASE Resolve[x] # None
    <3>1. FirstMatch(Resolve[x]) \in PythonEnvironments \cup {None}
      BY <2>1, <2>3, FirstMatchType
    <3>2. UnknownEnvironment(x, paths) \in PythonEnvironments
      BY <2>1, <2>3, FileAssumption DEF UnknownEnvironment, PythonEnvironments
    <3> QED
      BY <1>2, <2>2, <2>3, <3>1, <3>2 DEF Identify
  <2> QED
    BY <1>2, <2>2, <2>3 DEF Identify
<1> QED
  BY <1>1, <1>2

(* The items of work.                                                       *)
LEMMA ExecutableIsItem ==
  ASSUME NEW x \in PythonEnvs \cup {None}, NEW paths \in SUBSET Directories
  PROVE  /\ Executable(x, paths) \in Items
         /\ Executable(x, paths).work = "identify"
  BY DEF Executable, Items

LEMMA ManagerIsItem ==
  ASSUME NEW m \in Managers
  PROVE  Manager(m) \in Items /\ Manager(m).work = "manager" /\ Manager(m).manager = m
  BY DEF Manager, Items

LEMMA EnvironmentIsItem ==
  ASSUME NEW e \in PythonEnvironments
  PROVE  /\ Environment(e) \in Items
         /\ Environment(e).work = "environment" /\ Environment(e).env = e
  BY DEF Environment, Items

LEMMA ItemFacts ==
  ASSUME NEW item \in Items
  PROVE  /\ item.work \in {"identify", "manager", "environment"}
         /\ item.work = "identify" => /\ item.executable \in PythonEnvs \cup {None}
                                      /\ item = Executable(item.executable, item.paths)
         /\ item.work = "manager" => /\ item.manager \in Managers
                                     /\ item = Manager(item.manager)
         /\ item.work = "environment" => item.env \in PythonEnvironments
  BY DEF Items, Executable, Manager

LEMMA EnvironmentFacts ==
  ASSUME NEW e \in PythonEnvironments
  PROVE  e # None /\ e.manager \in Managers \cup {None}
  BY NoneAssumption DEF PythonEnvironments

(* One directory of a workspace is one item, and never an environment with  *)
(* a manager.                                                               *)
LEMMA InWorkspaceIsItem ==
  ASSUME NEW d \in Directories, NEW paths \in SUBSET Directories
  PROVE  /\ InWorkspace(d, paths) \in Items
         /\ InWorkspace(d, paths).work = "environment"
              => InWorkspace(d, paths).env.manager = None
<1>1. CASE FindExecutable[d] = None /\ BrokenVenv[d] # None
  <2>1. BrokenVenv[d] \in PythonEnvironments /\ BrokenVenv[d].manager = None
    BY <1>1, FileAssumption
  <2> QED
    BY <1>1, <2>1, EnvironmentIsItem DEF InWorkspace
<1>2. CASE ~(FindExecutable[d] = None /\ BrokenVenv[d] # None)
  <2>1. FindExecutable[d] \in PythonEnvs \cup {None}
    BY FileAssumption
  <2>2. InWorkspace(d, paths) = Executable(FindExecutable[d], paths)
    BY <1>2 DEF InWorkspace
  <2> QED
    BY <2>1, <2>2, ExecutableIsItem
<1> QED
  BY <1>1, <1>2

(* Work without managers to wait for.                                       *)
Simple(work) ==
  \A i \in DOMAIN work :
    work[i].work = "environment" => work[i].env.manager = None

LEMMA SimpleIsOrdered ==
  ASSUME NEW work, Simple(work), NEW known
  PROVE  ManagersFirst(work, known)
  BY DEF Simple, ManagersFirst

(* The executables given are numbered.                                      *)
LEMMA GivenIsSequence ==
  ASSUME NEW S, IsFiniteSet(S)
  PROVE  SetToSeq(S) \in [1 .. Cardinality(S) -> S] /\ Cardinality(S) \in Nat
<1>1. Cardinality(S) \in Nat /\ ExistsBijection(1 .. Cardinality(S), S)
  BY FS_CardinalityType
<1>2. \E f \in [1 .. Cardinality(S) -> S] : IsInjective(f)
  BY <1>1 DEF ExistsBijection, Bijection, Injection
<1> QED
  BY <1>1, <1>2 DEF SetToSeq

(* A thread of a phase carries the phase in its name.                       *)
LEMMA ThreadNames ==
  ASSUME NEW o \in Searches, NEW p \in Phases, NEW w \in ActiveWorkers[o][p]
  PROVE  w \in Threads /\ w[1] = p
<1>1. w \in Threads
  BY DEF Threads
<1>2. w \in Workers(o, p)
  BY DEF ActiveWorkers
<1>3. CASE p = "Locators"
  BY <1>1, <1>2, <1>3 DEF Workers
<1>4. CASE p = "Path"
  BY <1>1, <1>2, <1>4 DEF Workers
<1>5. CASE p = "GlobalVirtualEnvs"
  BY <1>1, <1>2, <1>5 DEF Workers
<1>6. CASE p = "Workspaces"
  BY <1>1, <1>2, <1>6 DEF Workers
<1> QED
  BY <1>1, <1>3, <1>4, <1>5, <1>6 DEF Phases

LEMMA ThreadPhase ==
  ASSUME NEW o \in Searches, NEW w \in Threads, w \in ActiveWorkers[o][w[1]]
  PROVE  w[1] \in Phases
<1>1. PICK n \in Searches, p \in Phases : w \in ActiveWorkers[n][p]
  BY DEF Threads
<1> QED
  BY <1>1, ThreadNames

(* The work of a thread is a sequence of items in which every environment   *)
(* comes after its manager.                                                 *)
GoodWork(work) == work \in Seq(Items) /\ ManagersFirst(work, {})

LEMMA InGlobalWork ==
  ASSUME NEW d \in Directories, NEW paths \in SUBSET Directories
  PROVE  GoodWork(InGlobal(d, paths))
<1>1. FindExecutables[d] \in Seq(PythonEnvs)
  BY FileAssumption
<1>2. \A i \in DOMAIN FindExecutables[d] :
        /\ Executable(FindExecutables[d][i], paths) \in Items
        /\ Executable(FindExecutables[d][i], paths).work = "identify"
  BY <1>1, ExecutableIsItem
<1>3. InGlobal(d, paths) \in Seq(Items)
  BY <1>1, <1>2 DEF InGlobal
<1>4. Simple(InGlobal(d, paths))
  BY <1>2 DEF InGlobal, Simple
<1> QED
  BY <1>3, <1>4, SimpleIsOrdered DEF GoodWork

LEMMA InFolderWork ==
  ASSUME NEW f \in Directories, NEW paths \in SUBSET Directories
  PROVE  GoodWork(InFolder(f, paths))
<1> DEFINE first == <<f>> \o PreferredPaths[f]
           rest == IF f \in IsEnvironment THEN <<>> ELSE Subdirectories[f]
           entered(d) == /\ d \in EnvironmentDirectories \cup Searchable
                         /\ d \notin ToSet(first)
           s == [i \in DOMAIN first |-> InWorkspace(first[i], paths)]
           t == [i \in DOMAIN rest |-> IF entered(rest[i]) THEN InWorkspace(rest[i], {})
                                                           ELSE Executable(None, {})]
<1>1. first \in Seq(Directories) /\ rest \in Seq(Directories)
  BY FileAssumption
<1> HIDE DEF first, rest, entered
<1>2. \A i \in DOMAIN first : /\ s[i] \in Items
                              /\ s[i].work = "environment" => s[i].env.manager = None
  BY <1>1, InWorkspaceIsItem
<1>3. \A i \in DOMAIN rest : /\ t[i] \in Items
                             /\ t[i].work = "environment" => t[i].env.manager = None
  <2> SUFFICES ASSUME NEW i \in DOMAIN rest
      PROVE  t[i] \in Items /\ (t[i].work = "environment" => t[i].env.manager = None)
    OBVIOUS
  <2>1. rest[i] \in Directories /\ {} \in SUBSET Directories
    BY <1>1
  <2>2. CASE entered(rest[i])
    BY <2>1, <2>2, InWorkspaceIsItem
  <2>3. CASE ~entered(rest[i])
    <3>1. t[i] = Executable(None, {})
      BY <2>3
    <3> QED
      BY <2>1, <3>1, ExecutableIsItem
  <2> QED
    BY <2>2, <2>3
<1>4. s \in Seq(Items) /\ DOMAIN s = DOMAIN first
  BY <1>1, <1>2
<1>5. t \in Seq(Items) /\ DOMAIN t = DOMAIN rest
  BY <1>1, <1>3
<1>6. InFolder(f, paths) = s \o t
  BY DEF InFolder, first, rest, entered
<1> HIDE DEF s, t
<1>7. Simple(s \o t)
  BY <1>2, <1>3, <1>4, <1>5 DEF Simple
<1> QED
  BY <1>4, <1>5, <1>6, <1>7, SimpleIsOrdered DEF GoodWork

LEMMA WorkIsGood ==
  ASSUME NEW o \in Searches, NEW p \in Phases, NEW w \in ActiveWorkers[o][p]
  PROVE  GoodWork(Work(o, w))
<1>a. w \in Workers(o, p)
  BY DEF ActiveWorkers
<1>b. o.searchPaths \in SUBSET Directories
  BY SearchAssumption
<1>1. CASE p = "Locators"
  <2>1. w[1] = "Locators" /\ w[2] \in Locators
    BY <1>a, <1>1 DEF Workers
  <2>2. Work(o, w) = Finds[w[2]]
    BY <2>1 DEF Work
  <2> QED
    BY <2>1, <2>2, LocatorAssumption DEF GoodWork
<1>2. CASE p = "Path" \/ p = "GlobalVirtualEnvs"
  <2>1. w[1] \in {"Path", "GlobalVirtualEnvs"} /\ w[2] \in Directories
    BY <1>a, <1>2, SearchAssumption DEF Workers
  <2>2. Work(o, w) = InGlobal(w[2], o.searchPaths)
    BY <2>1 DEF Work
  <2> QED
    BY <1>b, <2>1, <2>2, InGlobalWork
<1>3. CASE p = "Workspaces"
  <2>1. w[1] = "Workspaces" /\ (w[2] \in Directories \/ w[2] = "executables")
    BY <1>a, <1>3, SearchAssumption DEF Workers
  <2>2. CASE w[2] # "executables"
    <3>1. Work(o, w) = InFolder(w[2], o.searchPaths)
      BY <2>1, <2>2 DEF Work
    <3> QED
      BY <1>b, <2>1, <2>2, <3>1, InFolderWork
  <2>3. CASE w[2] = "executables"
    <3> DEFINE given == SetToSeq(GivenExecutables(o))
               work == [i \in DOMAIN given |-> Executable(given[i], o.searchPaths)]
    <3>1. Work(o, w) = work
      BY <2>1, <2>3 DEF Work
    <3>2. given \in [1 .. Cardinality(GivenExecutables(o)) -> GivenExecutables(o)]
          /\ Cardinality(GivenExecutables(o)) \in Nat
      BY GivenIsSequence, SearchAssumption
    <3> HIDE DEF given
    <3>3. \A i \in DOMAIN given : work[i] \in Items /\ work[i].work = "identify"
      BY <1>b, <3>2, ExecutableIsItem, SearchAssumption
    <3>4. work \in Seq(Items)
      BY <3>2, <3>3
    <3>5. Simple(work)
      BY <3>3 DEF Simple
    <3> QED
      BY <3>1, <3>4, <3>5, SimpleIsOrdered DEF GoodWork
  <2> QED
    BY <2>2, <2>3
<1> QED
  BY <1>1, <1>2, <1>3 DEF Phases

-----------------------------------------------------------------------------
(* What is found in a sequence of work.                                     *)
LEMMA EnvironmentsOfHead ==
  ASSUME NEW s \in Seq(Items), s # <<>>
  PROVE  Environments(s) = Found(Head(s)) \cup Environments(Tail(s))
<1>1. /\ Tail(s) \in Seq(Items) /\ Head(s) = s[1] /\ Len(s) \in Nat /\ Len(s) >= 1
      /\ DOMAIN s = 1 .. Len(s) /\ DOMAIN Tail(s) = 1 .. Len(s) - 1
      /\ \A i \in 1 .. Len(s) - 1 : Tail(s)[i] = s[i + 1]
  OBVIOUS
<1>2. ASSUME NEW e \in Environments(s)
      PROVE  e \in Found(Head(s)) \cup Environments(Tail(s))
  <2>1. PICK i \in DOMAIN s : e \in Found(s[i])
    BY <1>2 DEF Environments
  <2>2. CASE i = 1
    BY <1>1, <2>1, <2>2
  <2>3. CASE i # 1
    <3>1. i - 1 \in DOMAIN Tail(s) /\ Tail(s)[i - 1] = s[i]
      BY <1>1, <2>3
    <3> QED
      BY <2>1, <3>1 DEF Environments
  <2> QED
    BY <2>2, <2>3
<1>3. ASSUME NEW e \in Environments(Tail(s)) PROVE e \in Environments(s)
  <2>1. PICK i \in DOMAIN Tail(s) : e \in Found(Tail(s)[i])
    BY <1>3 DEF Environments
  <2>2. i + 1 \in DOMAIN s /\ Tail(s)[i] = s[i + 1]
    BY <1>1
  <2> QED
    BY <2>1, <2>2 DEF Environments
<1>4. Found(Head(s)) \subseteq Environments(s)
  BY <1>1 DEF Environments
<1> QED
  BY <1>2, <1>3, <1>4

LEMMA EnvironmentsOfConcat ==
  ASSUME NEW s \in Seq(Items), NEW t \in Seq(Items)
  PROVE  Environments(s \o t) = Environments(s) \cup Environments(t)
<1>1. /\ Len(s) \in Nat /\ DOMAIN s = 1 .. Len(s)
      /\ Len(t) \in Nat /\ DOMAIN t = 1 .. Len(t)
      /\ DOMAIN (s \o t) = 1 .. Len(s) + Len(t)
      /\ \A i \in 1 .. Len(s) : (s \o t)[i] = s[i]
      /\ \A i \in 1 .. Len(t) : (s \o t)[Len(s) + i] = t[i]
  OBVIOUS
<1>2. ASSUME NEW e \in Environments(s \o t)
      PROVE  e \in Environments(s) \cup Environments(t)
  <2>1. PICK i \in DOMAIN (s \o t) : e \in Found((s \o t)[i])
    BY <1>2 DEF Environments
  <2>2. CASE i <= Len(s)
    <3>1. i \in DOMAIN s /\ (s \o t)[i] = s[i]
      BY <1>1, <2>2
    <3> QED
      BY <2>1, <3>1 DEF Environments
  <2>3. CASE i > Len(s)
    <3>1. i - Len(s) \in DOMAIN t /\ (s \o t)[i] = t[i - Len(s)]
      BY <1>1, <2>3
    <3> QED
      BY <2>1, <3>1 DEF Environments
  <2> QED
    BY <1>1, <2>2, <2>3
<1>3. ASSUME NEW e \in Environments(s) PROVE e \in Environments(s \o t)
  <2>1. PICK i \in DOMAIN s : e \in Found(s[i])
    BY <1>3 DEF Environments
  <2>2. i \in DOMAIN (s \o t) /\ (s \o t)[i] = s[i]
    BY <1>1
  <2> QED
    BY <2>1, <2>2 DEF Environments
<1>4. ASSUME NEW e \in Environments(t) PROVE e \in Environments(s \o t)
  <2>1. PICK i \in DOMAIN t : e \in Found(t[i])
    BY <1>4 DEF Environments
  <2>2. Len(s) + i \in DOMAIN (s \o t) /\ (s \o t)[Len(s) + i] = t[i]
    BY <1>1
  <2> QED
    BY <2>1, <2>2 DEF Environments
<1> QED
  BY <1>2, <1>3, <1>4

LEMMA NothingInNothing == Environments(<<>>) = {}
  BY DEF Environments

LEMMA PairOfItems ==
  ASSUME NEW x \in Items, NEW y \in Items
  PROVE  <<x>> \o <<y>> = <<x, y>>
<1> DEFINE s == <<x>> \o <<y>>
           t == <<x, y>>
<1>1. s \in Seq(Items) /\ t \in Seq(Items) /\ Len(s) = 2 /\ Len(t) = 2
  OBVIOUS
<1>2. s[1] = t[1] /\ s[2] = t[2]
  OBVIOUS
<1>3. \A i \in 1 .. 2 : s[i] = t[i]
  BY <1>2
<1> HIDE DEF s, t
<1>4. s = t
  BY <1>1, <1>3, SeqEqual
<1> QED
  BY <1>4 DEF s, t

(* An executable that is identified is replaced by what it was found to be. *)
LEMMA ReportsFacts ==
  ASSUME NEW e \in PythonEnvironments \cup {None}
  PROVE  /\ Reports(e) \in Seq(Items)
         /\ Environments(Reports(e)) = {e} \ {None}
         /\ \A known : ManagersFirst(Reports(e), known)
<1>1. CASE e = None
  BY <1>1, NothingInNothing DEF Reports, ManagersFirst
<1>2. CASE e # None
  <2>1. /\ e \in PythonEnvironments /\ Environment(e) \in Items
        /\ Environment(e).work = "environment" /\ Environment(e).env = e
        /\ e.manager \in Managers \cup {None}
    BY <1>2, EnvironmentIsItem, EnvironmentFacts
  <2>2. Found(Environment(e)) = {e}
    BY <2>1 DEF Found
  <2>3. CASE e.manager = None
    <3>1. Reports(e) = <<Environment(e)>>
      BY <1>2, <2>3 DEF Reports
    <3> QED
      BY <1>2, <2>1, <2>2, <2>3, <3>1 DEF Environments, ManagersFirst
  <2>4. CASE e.manager # None
    <3>2. Manager(e.manager) \in Items /\ Manager(e.manager).work = "manager"
      BY <2>1, <2>4, ManagerIsItem
    <3>1. Reports(e) = <<Manager(e.manager), Environment(e)>>
      <4>1. Reports(e) = <<Manager(e.manager)>> \o <<Environment(e)>>
        BY <1>2, <2>4 DEF Reports
      <4> QED
        BY <2>1, <3>2, <4>1, PairOfItems
    <3>3. Found(Manager(e.manager)) = {}
      BY <3>2 DEF Found
    <3>4. Reports(e) \in Seq(Items)
      BY <2>1, <3>1, <3>2
    <3>5. Environments(Reports(e)) = {e} \ {None}
      BY <1>2, <2>2, <3>1, <3>3 DEF Environments
    <3>6. \A known : ManagersFirst(Reports(e), known)
      BY <2>1, <3>1, <3>2 DEF ManagersFirst
    <3> QED
      BY <3>4, <3>5, <3>6
  <2> QED
    BY <2>3, <2>4
<1> QED
  BY <1>1, <1>2

(* The order of managers and environments survives the table's growth,      *)
LEMMA OrderIsMonotonic ==
  ASSUME NEW s, NEW known, NEW more, known \subseteq more, ManagersFirst(s, known)
  PROVE  ManagersFirst(s, more)
  BY DEF ManagersFirst

(* the removal of the first item, once a manager is in the table,           *)
LEMMA OrderOfTail ==
  ASSUME NEW s \in Seq(Items), s # <<>>, NEW known, NEW more, known \subseteq more,
         ManagersFirst(s, known),
         Head(s).work = "manager" => Head(s).manager \in more
  PROVE  ManagersFirst(Tail(s), more)
<1>1. /\ Tail(s) \in Seq(Items) /\ Head(s) = s[1] /\ Len(s) \in Nat /\ Len(s) >= 1
      /\ DOMAIN s = 1 .. Len(s) /\ DOMAIN Tail(s) = 1 .. Len(s) - 1
      /\ \A i \in 1 .. Len(s) - 1 : Tail(s)[i] = s[i + 1]
  OBVIOUS
<1> SUFFICES ASSUME NEW i \in DOMAIN Tail(s), Tail(s)[i].work = "environment",
                    Tail(s)[i].env.manager # None
             PROVE  \/ Tail(s)[i].env.manager \in more
                    \/ \E j \in 1 .. i - 1 : Tail(s)[j] = Manager(Tail(s)[i].env.manager)
  BY DEF ManagersFirst
<1> DEFINE m == Tail(s)[i].env.manager
<1>2. i \in 1 .. Len(s) - 1 /\ i + 1 \in DOMAIN s /\ Tail(s)[i] = s[i + 1]
      /\ s[i + 1] \in Items
  BY <1>1
<1>m. m \in Managers
  <2>1. s[i + 1].env \in PythonEnvironments
    BY <1>2, ItemFacts
  <2> QED
    BY <1>2, <2>1, EnvironmentFacts
<1>3. m \in known \/ \E j \in 1 .. (i + 1) - 1 : s[j] = Manager(m)
  BY <1>2 DEF ManagersFirst
<1>4. ASSUME NEW j \in 1 .. (i + 1) - 1, s[j] = Manager(m)
      PROVE  m \in more \/ \E k \in 1 .. i - 1 : Tail(s)[k] = Manager(m)
  <2>1. CASE j = 1
    BY <1>1, <1>4, <1>m, <2>1, ManagerIsItem
  <2>2. CASE j # 1
    <3>1. j - 1 \in 1 .. i - 1 /\ Tail(s)[j - 1] = s[j]
      BY <1>1, <1>2, <2>2
    <3> QED
      BY <1>4, <3>1
  <2> QED
    BY <2>1, <2>2
<1> QED
  BY <1>3, <1>4

(* and the insertion of reports in front.                                   *)
LEMMA OrderOfConcat ==
  ASSUME NEW s \in Seq(Items), NEW t \in Seq(Items), NEW known,
         ManagersFirst(s, known), ManagersFirst(t, known)
  PROVE  ManagersFirst(s \o t, known)
<1>1. /\ Len(s) \in Nat /\ DOMAIN s = 1 .. Len(s)
      /\ Len(t) \in Nat /\ DOMAIN t = 1 .. Len(t)
      /\ DOMAIN (s \o t) = 1 .. Len(s) + Len(t)
      /\ \A i \in 1 .. Len(s) : (s \o t)[i] = s[i]
      /\ \A i \in 1 .. Len(t) : (s \o t)[Len(s) + i] = t[i]
  OBVIOUS
<1> DEFINE u == s \o t
<1> SUFFICES ASSUME NEW i \in DOMAIN u, u[i].work = "environment",
                    u[i].env.manager # None, u[i].env.manager \notin known
             PROVE  \E j \in 1 .. i - 1 : u[j] = Manager(u[i].env.manager)
  BY DEF ManagersFirst
<1>2. CASE i <= Len(s)
  <2>1. i \in DOMAIN s /\ u[i] = s[i]
    BY <1>1, <1>2
  <2>2. PICK j \in 1 .. i - 1 : s[j] = Manager(s[i].env.manager)
    BY <2>1 DEF ManagersFirst
  <2>3. u[j] = s[j]
    BY <1>1, <1>2, <2>2
  <2> QED
    BY <2>1, <2>2, <2>3
<1>3. CASE i > Len(s)
  <2>1. i - Len(s) \in DOMAIN t /\ u[i] = t[i - Len(s)]
    BY <1>1, <1>3
  <2>2. PICK j \in 1 .. (i - Len(s)) - 1 : t[j] = Manager(t[i - Len(s)].env.manager)
    BY <2>1 DEF ManagersFirst
  <2>3. Len(s) + j \in 1 .. i - 1 /\ u[Len(s) + j] = t[j]
    BY <1>1, <1>3, <2>1, <2>2
  <2> QED
    BY <2>1, <2>2, <2>3
<1> QED
  BY <1>1, <1>2, <1>3

-----------------------------------------------------------------------------
(* The parts of the invariant that speak of the reporter's tables and of    *)
(* what the client has read, and those that speak of what threads have left *)
(* to do.                                                                   *)
Tables ==
  /\ SentIsReported /\ ManagersAreWritten /\ ManagerPrecedesEnvironment
  /\ ReportedIsAccounted /\ CompletedPhaseIsReported
Remaining == ManagersComeFirst /\ NothingIsDropped /\ TodoIsDiscovered

LEMMA Parts ==
  /\ IInv => TypeOK /\ ThreadsAreJoined /\ Tables /\ Remaining
  /\ TypeOK' /\ ThreadsAreJoined' /\ Tables' /\ Remaining' => IInv'
  BY DEF IInv, Tables, Remaining

(* A step that does not use the tables keeps them; a new configuration and  *)
(* a client that goes only make the claims weaker.                          *)
LEMMA TablesAreKept ==
  ASSUME Tables,
         UNCHANGED <<options, reported, reportedManagers, sent, sentManagers, completed>>,
         current' /\ ~clientGone' => current /\ ~clientGone
  PROVE  Tables'
<1>1. SentIsReported' /\ ManagerPrecedesEnvironment'
  BY DEF Tables, SentIsReported, ManagerPrecedesEnvironment
<1>2. ManagersAreWritten'
  BY DEF Tables, ManagersAreWritten
<1>3. \A k : Accounted(k) => Accounted(k)'
  BY DEF Accounted
<1>4. ReportedIsAccounted'
  BY <1>3 DEF Tables, ReportedIsAccounted
<1>5. CompletedPhaseIsReported'
  BY DEF Tables, CompletedPhaseIsReported
<1> QED
  BY <1>1, <1>2, <1>4, <1>5 DEF Tables

(* What a thread owes survives a step of one thread that keeps the order of *)
(* its own work and drops nothing but what is in the table.                 *)
LEMMA OneThreadMoves ==
  ASSUME IInv, NEW w \in Threads, pc[w] \in Busy,
         NEW label \in Busy \cup {"done", "panicked"}, NEW work \in Seq(Items),
         pc' = [pc EXCEPT ![w] = label], todo' = [todo EXCEPT ![w] = work],
         UNCHANGED <<options, phase, current, clientGone, completed, outcome>>,
         reported \subseteq reported', reportedManagers \subseteq reportedManagers',
         label = "done" => work = <<>>,
         label = "insert" => work # <<>> /\ Head(work).work \in {"manager", "environment"},
         ManagersFirst(work, reportedManagers'),
         Environments(work) \subseteq Environments(todo[w]),
         label = "panicked" \/ \A e \in Environments(todo[w]) :
           Key(e) # None => e \in Environments(work) \/ Key(e) \in reported'
  PROVE  TypeOK' /\ ThreadsAreJoined' /\ Remaining'
<1>1. /\ pc \in [Threads -> Busy \cup {"none", "done", "panicked"}]
      /\ todo \in [Threads -> Seq(Items)]
  BY DEF IInv, TypeOK
<1>2. /\ pc'[w] = label /\ todo'[w] = work
      /\ \A v \in Threads \ {w} : pc'[v] = pc[v] /\ todo'[v] = todo[v]
  BY <1>1
<1>3. TypeOK'
  BY <1>1 DEF IInv, TypeOK
<1>4. ThreadsAreJoined'
  <2>1. \A v \in Threads : pc'[v] \in Busy =>
          v \in ActiveWorkers[options'][v[1]] /\ phase'[v[1]] = "running"
    BY <1>2 DEF IInv, ThreadsAreJoined
  <2>2. outcome' # "running" => \A p \in Phases : phase'[p] \in {"done", "panicked"}
    BY DEF IInv, ThreadsAreJoined
  <2>3. \A v \in Threads : pc'[v] = "done" => todo'[v] = <<>>
    BY <1>2 DEF IInv, ThreadsAreJoined
  <2>4. \A v \in Threads : pc'[v] = "insert" =>
          todo'[v] # <<>> /\ Head(todo'[v]).work \in {"manager", "environment"}
    BY <1>2 DEF IInv, ThreadsAreJoined
  <2> QED
    BY <2>1, <2>2, <2>3, <2>4 DEF ThreadsAreJoined
<1>5. ManagersComeFirst'
  <2>1. \A v \in Threads \ {w} : ManagersFirst(todo[v], reportedManagers')
    BY OrderIsMonotonic DEF IInv, ManagersComeFirst
  <2> QED
    BY <1>2, <2>1 DEF ManagersComeFirst
<1>6. NothingIsDropped'
  <2> SUFFICES ASSUME NEW v \in Threads, pc'[v] \in Busy \cup {"done"},
                      NEW e \in Environments(Work(options, v)), Key(e) # None
               PROVE  e \in Environments(todo'[v]) \/ Key(e) \in reported'
    BY DEF NothingIsDropped
  <2>1. CASE v # w
    BY <1>2, <2>1 DEF IInv, NothingIsDropped
  <2>2. CASE v = w
    <3>1. label # "panicked"
      BY <1>2, <2>2 DEF Busy
    <3>2. e \in Environments(todo[w]) \/ Key(e) \in reported
      BY <2>2 DEF IInv, NothingIsDropped
    <3> QED
      BY <1>2, <2>2, <3>1, <3>2
  <2> QED
    BY <2>1, <2>2
<1>7. TodoIsDiscovered'
  BY <1>2 DEF IInv, TodoIsDiscovered
<1> QED
  BY <1>3, <1>4, <1>5, <1>6, <1>7 DEF Remaining

(* A thread that panics has nothing left to do.                             *)
LEMMA ThreadPanics ==
  ASSUME IInv, NEW w \in Threads, pc[w] \in Busy, Panic(w),
         UNCHANGED <<options, phase, current, clientGone, completed, outcome>>,
         reported \subseteq reported', reportedManagers \subseteq reportedManagers'
  PROVE  TypeOK' /\ ThreadsAreJoined' /\ Remaining'
<1>1. /\ pc' = [pc EXCEPT ![w] = "panicked"] /\ todo' = [todo EXCEPT ![w] = <<>>]
      /\ <<>> \in Seq(Items)
  BY DEF Panic, Goto
<1>2. ManagersFirst(<<>>, reportedManagers')
  BY DEF ManagersFirst
<1> QED
  BY <1>1, <1>2, NothingInNothing, OneThreadMoves DEF Busy

(* A thread's first item.                                                   *)
LEMMA FirstItem ==
  ASSUME IInv, NEW w \in Threads, todo[w] # <<>>
  PROVE  /\ todo[w] \in Seq(Items) /\ Head(todo[w]) \in Items
         /\ Tail(todo[w]) \in Seq(Items)
         /\ Environments(todo[w]) = Found(Head(todo[w])) \cup Environments(Tail(todo[w]))
         /\ ManagersFirst(todo[w], reportedManagers)
         /\ todo[w][1] = Head(todo[w]) /\ 1 \in DOMAIN todo[w]
<1>1. todo[w] \in Seq(Items)
  BY DEF IInv, TypeOK
<1> QED
  BY <1>1, EnvironmentsOfHead DEF IInv, ManagersComeFirst

(* An item that is in the table already is passed over.                     *)
LEMMA ItemIsSkipped ==
  ASSUME IInv, NEW w \in Threads, pc[w] \in {"ready", "insert"}, todo[w] # <<>>,
         pc' = [pc EXCEPT ![w] = "ready"], todo' = [todo EXCEPT ![w] = Tail(@)],
         UNCHANGED <<options, phase, current, clientGone, completed, outcome>>,
         reported \subseteq reported', reportedManagers \subseteq reportedManagers',
         Head(todo[w]).work = "manager" => Head(todo[w]).manager \in reportedManagers',
         Head(todo[w]).work = "environment" =>
           Key(Head(todo[w]).env) \in reported' \cup {None},
         Head(todo[w]).work # "identify"
  PROVE  TypeOK' /\ ThreadsAreJoined' /\ Remaining'
<1>1. ManagersFirst(Tail(todo[w]), reportedManagers')
  BY FirstItem, OrderOfTail
<1>2. \A e \in Environments(todo[w]) :
        Key(e) # None => e \in Environments(Tail(todo[w])) \/ Key(e) \in reported'
  BY FirstItem DEF Found
<1>3. todo' = [todo EXCEPT ![w] = Tail(todo[w])]
  BY DEF IInv, TypeOK
<1> QED
  BY <1>1, <1>2, <1>3, FirstItem, OneThreadMoves DEF Busy

-----------------------------------------------------------------------------
(* One lemma for each action.                                               *)

LEMMA StartWorkerStep ==
  ASSUME IInv, NEW w \in Threads, StartWorker(w)
  PROVE  IInv'
<1>1. /\ pc[w] = "spawned"
      /\ UNCHANGED <<options, phase, current, clientGone, completed, outcome,
                     reported, reportedManagers, sent, sentManagers>>
      /\ \/ pc' = [pc EXCEPT ![w] = "ready"] /\ todo' = todo
         \/ Panic(w)
  BY DEF StartWorker, Goto, reporterVars
<1>2. Tables'
  BY <1>1, TablesAreKept, Parts
<1>3. CASE Panic(w)
  BY <1>1, <1>2, <1>3, ThreadPanics, Parts DEF Busy
<1>4. CASE pc' = [pc EXCEPT ![w] = "ready"] /\ todo' = todo
  <2>1. /\ todo[w] \in Seq(Items) /\ ManagersFirst(todo[w], reportedManagers)
        /\ todo' = [todo EXCEPT ![w] = todo[w]]
    BY <1>4 DEF IInv, TypeOK, ManagersComeFirst
  <2>2. TypeOK' /\ ThreadsAreJoined' /\ Remaining'
    BY <1>1, <1>4, <2>1, OneThreadMoves DEF Busy
  <2> QED
    BY <1>2, <2>2, Parts
<1> QED
  BY <1>1, <1>3, <1>4

(* identify_python_environment_using_locators yields the manager and the    *)
(* environment, in this order, where the executable was.                    *)
LEMMA IdentifyExecutableStep ==
  ASSUME IInv, NEW w \in Threads, IdentifyExecutable(w)
  PROVE  IInv'
<1> DEFINE item == Head(todo[w])
           e == Identify(item.executable, item.paths)
           work == Reports(e) \o Tail(todo[w])
<1>1. /\ pc[w] = "ready" /\ todo[w] # <<>> /\ item.work = "identify"
      /\ UNCHANGED <<options, phase, pc, current, clientGone, completed, outcome,
                     reported, reportedManagers, sent, sentManagers>>
  BY DEF IdentifyExecutable, reporterVars
<1>2. todo' = [todo EXCEPT ![w] = work] /\ pc' = [pc EXCEPT ![w] = "ready"]
  <2>1. todo \in [Threads -> Seq(Items)]
        /\ pc \in [Threads -> Busy \cup {"none", "done", "panicked"}]
    BY DEF IInv, TypeOK
  <2> QED
    BY <1>1, <2>1 DEF IdentifyExecutable
<1>3. e \in PythonEnvironments \cup {None}
  BY <1>1, FirstItem, ItemFacts, IdentifyType
<1>4. Found(item) = {e} \ {None}
  BY <1>1 DEF Found
<1> HIDE DEF item, e
<1>5. /\ work \in Seq(Items) /\ Environments(work) = Environments(todo[w])
      /\ ManagersFirst(work, reportedManagers)
  <2>1. /\ Reports(e) \in Seq(Items) /\ Environments(Reports(e)) = {e} \ {None}
        /\ ManagersFirst(Reports(e), reportedManagers)
    BY <1>3, ReportsFacts
  <2>2. /\ Tail(todo[w]) \in Seq(Items)
        /\ Environments(todo[w]) = Found(item) \cup Environments(Tail(todo[w]))
    BY <1>1, FirstItem DEF item
  <2>3. ManagersFirst(Tail(todo[w]), reportedManagers)
    BY <1>1, FirstItem, OrderOfTail DEF item
  <2>4. /\ Reports(e) \o Tail(todo[w]) \in Seq(Items)
        /\ ManagersFirst(Reports(e) \o Tail(todo[w]), reportedManagers)
    <3> DEFINE first == Reports(e)
               rest == Tail(todo[w])
    <3>1. /\ first \in Seq(Items) /\ ManagersFirst(first, reportedManagers)
          /\ rest \in Seq(Items) /\ ManagersFirst(rest, reportedManagers)
      BY <2>1, <2>2, <2>3
    <3> HIDE DEF first, rest
    <3>2. first \o rest \in Seq(Items)
      BY <3>1
    <3>3. ManagersFirst(first \o rest, reportedManagers)
      BY <3>1, OrderOfConcat
    <3> QED
      BY <3>2, <3>3 DEF first, rest
  <2>5. Environments(work) = Environments(Reports(e)) \cup Environments(Tail(todo[w]))
    BY <2>1, <2>2, EnvironmentsOfConcat
  <2> QED
    BY <1>4, <2>1, <2>2, <2>4, <2>5
<1> HIDE DEF work
<1>6. TypeOK' /\ ThreadsAreJoined' /\ Remaining'
  BY <1>1, <1>2, <1>5, OneThreadMoves DEF Busy
<1>7. Tables'
  BY <1>1, TablesAreKept, Parts
<1> QED
  BY <1>6, <1>7, Parts

LEMMA LocatorPanicsStep ==
  ASSUME IInv, NEW w \in Threads, LocatorPanics(w)
  PROVE  IInv'
<1>1. /\ pc[w] = "ready" /\ Panic(w)
      /\ UNCHANGED <<options, phase, current, clientGone, completed, outcome,
                     reported, reportedManagers, sent, sentManagers>>
  BY DEF LocatorPanics, reporterVars
<1>2. Tables'
  BY <1>1, TablesAreKept, Parts
<1> QED
  BY <1>1, <1>2, ThreadPanics, Parts DEF Busy

(* The look under the read lock.                                            *)
LEMMA CheckReportedStep ==
  ASSUME IInv, NEW w \in Threads, CheckReported(w)
  PROVE  IInv'
<1> DEFINE item == Head(todo[w])
<1>1. /\ pc[w] = "ready" /\ todo[w] # <<>> /\ item.work \in {"manager", "environment"}
      /\ UNCHANGED <<options, phase, current, clientGone, completed, outcome,
                     reported, reportedManagers, sent, sentManagers>>
      /\ \/ Panic(w)
         \/ Known(item) /\ todo' = [todo EXCEPT ![w] = Tail(@)] /\ UNCHANGED pc
         \/ pc' = [pc EXCEPT ![w] = "insert"] /\ UNCHANGED todo
  BY DEF CheckReported, reporterVars, Goto
<1>2. Tables'
  BY <1>1, TablesAreKept, Parts
<1>3. CASE Panic(w)
  BY <1>1, <1>2, <1>3, ThreadPanics, Parts DEF Busy
<1>4. CASE Known(item) /\ todo' = [todo EXCEPT ![w] = Tail(@)] /\ UNCHANGED pc
  <2>1. pc' = [pc EXCEPT ![w] = "ready"]
    BY <1>1, <1>4 DEF IInv, TypeOK
  <2>2. TypeOK' /\ ThreadsAreJoined' /\ Remaining'
    BY <1>1, <1>4, <2>1, ItemIsSkipped DEF Known
  <2> QED
    BY <1>2, <2>2, Parts
<1>5. CASE pc' = [pc EXCEPT ![w] = "insert"] /\ UNCHANGED todo
  <2>1. /\ todo[w] \in Seq(Items) /\ ManagersFirst(todo[w], reportedManagers)
        /\ todo' = [todo EXCEPT ![w] = todo[w]]
    BY <1>5 DEF IInv, TypeOK, ManagersComeFirst
  <2>2. TypeOK' /\ ThreadsAreJoined' /\ Remaining'
    BY <1>1, <1>5, <2>1, OneThreadMoves DEF Busy
  <2> QED
    BY <1>2, <2>2, Parts
<1> QED
  BY <1>1, <1>3, <1>4, <1>5

LEMMA FinishWorkerStep ==
  ASSUME IInv, NEW w \in Threads, FinishWorker(w)
  PROVE  IInv'
<1>1. /\ pc[w] = "ready" /\ todo[w] = <<>> /\ todo' = todo
      /\ UNCHANGED <<options, phase, current, clientGone, completed, outcome,
                     reported, reportedManagers, sent, sentManagers>>
      /\ \E label \in {"done", "panicked"} : pc' = [pc EXCEPT ![w] = label]
  BY DEF FinishWorker, reporterVars, Goto
<1>2. Tables'
  BY <1>1, TablesAreKept, Parts
<1>3. /\ todo[w] \in Seq(Items) /\ ManagersFirst(todo[w], reportedManagers)
      /\ todo' = [todo EXCEPT ![w] = todo[w]]
  BY <1>1 DEF IInv, TypeOK, ManagersComeFirst
<1>4. TypeOK' /\ ThreadsAreJoined' /\ Remaining'
  BY <1>1, <1>3, OneThreadMoves DEF Busy
<1> QED
  BY <1>2, <1>4, Parts

(* The insertion of a manager, which is written unless the search is out of *)
(* date or the client has gone.                                             *)
LEMMA InsertManagerTables ==
  ASSUME Tables, NEW m, InsertManager(m),
         UNCHANGED <<options, current, clientGone, completed>>
  PROVE  Tables' /\ reportedManagers' = reportedManagers \cup {m} /\ reported' = reported
<1>1. /\ reportedManagers' = reportedManagers \cup {m} /\ UNCHANGED <<reported, sent>>
      /\ sentManagers' = IF current /\ ~clientGone THEN sentManagers \cup {m}
                                                   ELSE sentManagers
  BY DEF InsertManager
<1>2. sentManagers \subseteq sentManagers'
  BY <1>1
<1>3. SentIsReported'
  BY <1>1 DEF Tables, SentIsReported
<1>4. ManagerPrecedesEnvironment'
  BY <1>1, <1>2 DEF Tables, ManagerPrecedesEnvironment
<1>5. ManagersAreWritten'
  BY <1>1 DEF Tables, ManagersAreWritten
<1>6. \A k : Accounted(k) => Accounted(k)'
  BY <1>1 DEF Accounted
<1>7. ReportedIsAccounted' /\ CompletedPhaseIsReported'
  BY <1>1, <1>6 DEF Tables, ReportedIsAccounted, CompletedPhaseIsReported
<1> QED
  BY <1>1, <1>3, <1>4, <1>5, <1>7 DEF Tables

(* The insertion of an environment whose key was not in the table and whose *)
(* manager, if it has one, is.                                              *)
LEMMA InsertEnvironmentTables ==
  ASSUME Tables, NEW e, InsertEnvironment(e), Key(e) \notin reported,
         UNCHANGED <<options, current, clientGone, completed>>,
         e.manager # None => e.manager \in reportedManagers,
         \E q \in Phases : e \in Discoveries[options][q]
  PROVE  /\ Tables' /\ reportedManagers' = reportedManagers
         /\ reported' = reported \cup {Key(e)}
<1> DEFINE Writes == current /\ ~clientGone /\ Wanted(options, e)
<1>1. {s \in sent : Key(s[2]) = Key(e)} = {}
  BY DEF Tables, SentIsReported
<1>2. /\ reported' = reported \cup {Key(e)} /\ UNCHANGED <<reportedManagers, sentManagers>>
      /\ sent' = IF Writes THEN sent \cup {<<0, e>>} ELSE sent
  BY <1>1, FS_EmptySet DEF InsertEnvironment
<1>3. SentIsReported'
  BY <1>2 DEF Tables, SentIsReported
<1>4. ManagersAreWritten'
  BY <1>2 DEF Tables, ManagersAreWritten
<1>5. ManagerPrecedesEnvironment'
  <2>1. CASE Writes
    <3>1. e.manager # None => e.manager \in sentManagers
      BY <2>1 DEF Tables, ManagersAreWritten
    <3> QED
      BY <1>2, <2>1, <3>1 DEF Tables, ManagerPrecedesEnvironment
  <2>2. CASE ~Writes
    BY <1>2, <2>2 DEF Tables, ManagerPrecedesEnvironment
  <2> QED
    BY <2>1, <2>2
<1>6. sent \subseteq sent'
  BY <1>2
<1>7. \A k : Accounted(k) => Accounted(k)'
  BY <1>6 DEF Accounted
<1>8. ReportedIsAccounted'
  <2> SUFFICES ASSUME current', ~clientGone', NEW k \in reported' PROVE Accounted(k)'
    BY DEF ReportedIsAccounted
  <2>1. CASE k \in reported
    BY <1>7, <2>1 DEF Tables, ReportedIsAccounted
  <2>2. CASE k = Key(e) /\ Wanted(options, e)
    <3>1. <<0, e>> \in sent'
      BY <1>2, <2>2
    <3> QED
      BY <2>2, <3>1 DEF Accounted
  <2>3. CASE k = Key(e) /\ ~Wanted(options, e)
    BY <2>3 DEF Accounted
  <2> QED
    BY <1>2, <2>1, <2>2, <2>3
<1>9. CompletedPhaseIsReported'
  BY <1>6 DEF Tables, CompletedPhaseIsReported
<1> QED
  BY <1>2, <1>3, <1>4, <1>5, <1>8, <1>9 DEF Tables

(* The second look, the insertion and the report under the write lock.      *)
LEMMA InsertStep ==
  ASSUME IInv, NEW w \in Threads, Insert(w)
  PROVE  IInv'
<1> DEFINE item == Head(todo[w])
<1>1. /\ pc[w] = "insert" /\ todo[w] # <<>> /\ item.work \in {"manager", "environment"}
      /\ UNCHANGED <<options, phase, current, clientGone, completed, outcome>>
  BY DEF Insert, IInv, ThreadsAreJoined
<1>2. CASE item.work \in poisoned
  <2>1. Panic(w) /\ UNCHANGED reporterVars
    BY <1>2 DEF Insert
  <2>2. Tables'
    BY <1>1, <2>1, TablesAreKept, Parts DEF reporterVars
  <2> QED
    BY <1>1, <2>1, <2>2, ThreadPanics, Parts DEF Busy, reporterVars
<1>3. CASE item.work \notin poisoned /\ Known(item)
  <2>1. /\ pc' = [pc EXCEPT ![w] = "ready"] /\ todo' = [todo EXCEPT ![w] = Tail(@)]
        /\ UNCHANGED reporterVars
    BY <1>3 DEF Insert, Goto
  <2>2. Tables'
    BY <1>1, <2>1, TablesAreKept, Parts DEF reporterVars
  <2>3. TypeOK' /\ ThreadsAreJoined' /\ Remaining'
    BY <1>1, <1>3, <2>1, ItemIsSkipped DEF Known, reporterVars
  <2> QED
    BY <2>2, <2>3, Parts
<1>4. CASE item.work \notin poisoned /\ ~Known(item)
  <2>1. /\ IF item.work = "manager" THEN InsertManager(item.manager)
                                    ELSE InsertEnvironment(item.env)
        /\ \/ Panic(w)
           \/ pc' = [pc EXCEPT ![w] = "ready"] /\ todo' = [todo EXCEPT ![w] = Tail(@)]
    BY <1>4 DEF Insert, Goto
  <2>2. /\ Tables' /\ reported \subseteq reported'
        /\ reportedManagers \subseteq reportedManagers'
        /\ item.work = "manager" => item.manager \in reportedManagers'
        /\ item.work = "environment" => Key(item.env) \in reported'
    <3>1. CASE item.work = "manager"
      BY <1>1, <2>1, <3>1, InsertManagerTables, Parts
    <3>2. CASE item.work = "environment"
      <4>1. Key(item.env) \notin reported
        BY <1>4, <3>2 DEF Known
      <4>2. item.env.manager # None => item.env.manager \in reportedManagers
        BY <1>1, <3>2, FirstItem DEF ManagersFirst
      <4>3. item.env \in Environments(todo[w])
        BY <1>1, <3>2, FirstItem DEF Found
      <4>4. \E q \in Phases : item.env \in Discoveries[options][q]
        BY <4>3 DEF IInv, TodoIsDiscovered
      <4> QED
        BY <1>1, <2>1, <3>2, <4>1, <4>2, <4>4, InsertEnvironmentTables, Parts
    <3> QED
      BY <1>1, <3>1, <3>2
  <2>3. CASE Panic(w)
    BY <1>1, <2>2, <2>3, ThreadPanics, Parts DEF Busy
  <2>4. CASE pc' = [pc EXCEPT ![w] = "ready"] /\ todo' = [todo EXCEPT ![w] = Tail(@)]
    <3>1. TypeOK' /\ ThreadsAreJoined' /\ Remaining'
      BY <1>1, <2>2, <2>4, ItemIsSkipped
    <3> QED
      BY <2>2, <3>1, Parts
  <2> QED
    BY <2>1, <2>3, <2>4
<1> QED
  BY <1>2, <1>3, <1>4

(* A phase that starts gives each of its threads the whole of its work.     *)
LEMMA StartPhaseStep ==
  ASSUME IInv, NEW p \in Phases, StartPhase(p)
  PROVE  IInv'
<1> DEFINE active == ActiveWorkers[options][p]
<1>1. /\ phase[p] = "spawned"
      /\ UNCHANGED <<options, current, clientGone, completed, outcome,
                     reported, reportedManagers, sent, sentManagers>>
  BY DEF StartPhase, reporterVars
<1>2. Tables'
  BY <1>1, TablesAreKept, Parts
<1>t. /\ phase \in [Phases -> {"spawned", "running", "done", "panicked"}]
      /\ pc \in [Threads -> Busy \cup {"none", "done", "panicked"}]
      /\ todo \in [Threads -> Seq(Items)] /\ options \in Searches
      /\ outcome = "running"
  BY <1>1 DEF IInv, TypeOK, ThreadsAreJoined
<1>3. \A w \in active : w \in Threads /\ w[1] = p /\ GoodWork(Work(options, w))
  BY <1>t, ThreadNames, WorkIsGood
<1>4. CASE WriteSucceeds
  <2> DEFINE label == IF p = "Locators" THEN "spawned" ELSE "ready"
  <2>1. /\ phase' = [phase EXCEPT ![p] = "running"]
        /\ pc' = [w \in Threads |-> IF w \in active THEN label ELSE pc[w]]
        /\ todo' = [w \in Threads |-> IF w \in active THEN Work(options, w) ELSE todo[w]]
    BY <1>4 DEF StartPhase
  <2>2. label \in {"spawned", "ready"}
    OBVIOUS
  <2> HIDE DEF active, label
  <2>3. \A w \in Threads :
          /\ w \in active => pc'[w] = label /\ todo'[w] = Work(options, w)
          /\ w \notin active => pc'[w] = pc[w] /\ todo'[w] = todo[w]
    BY <2>1
  <2>4. TypeOK'
    <3>1. phase' \in [Phases -> {"spawned", "running", "done", "panicked"}]
      BY <1>t, <2>1
    <3>2. pc' \in [Threads -> Busy \cup {"none", "done", "panicked"}]
      BY <1>t, <2>1, <2>2 DEF Busy
    <3>3. todo' \in [Threads -> Seq(Items)]
      BY <1>t, <1>3, <2>1 DEF GoodWork
    <3> QED
      BY <1>1, <3>1, <3>2, <3>3 DEF IInv, TypeOK
  <2>5. ThreadsAreJoined'
    <3>1. ASSUME NEW w \in Threads, pc'[w] \in Busy
          PROVE  w \in ActiveWorkers[options'][w[1]] /\ phase'[w[1]] = "running"
      <4>1. CASE w \in active
        BY <1>1, <1>3, <1>t, <2>1, <4>1 DEF active
      <4>2. CASE w \notin active
        <5>1. w \in ActiveWorkers[options][w[1]] /\ phase[w[1]] = "running"
          BY <2>3, <3>1, <4>2 DEF IInv, ThreadsAreJoined
        <5>2. w[1] \in Phases
          BY <1>1, <1>t, <5>1, <4>2, ThreadPhase
        <5> QED
          BY <1>1, <1>t, <2>1, <5>1, <5>2
      <4> QED
        BY <4>1, <4>2
    <3>2. \A w \in Threads : pc'[w] \in {"done", "insert"} =>
            pc'[w] = pc[w] /\ todo'[w] = todo[w]
      BY <2>2, <2>3
    <3> QED
      BY <1>1, <1>t, <3>1, <3>2 DEF IInv, ThreadsAreJoined
  <2>6. ManagersComeFirst'
    <3>1. \A w \in active : ManagersFirst(Work(options, w), reportedManagers)
      BY <1>3, OrderIsMonotonic DEF GoodWork
    <3> QED
      BY <1>1, <2>3, <3>1 DEF IInv, ManagersComeFirst
  <2>7. NothingIsDropped'
    BY <1>1, <2>3 DEF IInv, NothingIsDropped
  <2>8. TodoIsDiscovered'
    <3>1. \A w \in active : Environments(Work(options, w)) \subseteq Discoveries[options][p]
      BY <1>t DEF Discoveries, active
    <3> QED
      BY <1>1, <2>3, <3>1 DEF IInv, TodoIsDiscovered
  <2> QED
    BY <1>2, <2>4, <2>5, <2>6, <2>7, <2>8, Parts DEF Remaining
<1>5. CASE ~WriteSucceeds
  <2>1. phase' = [phase EXCEPT ![p] = "panicked"] /\ UNCHANGED <<pc, todo>>
    BY <1>5 DEF StartPhase
  <2>2. TypeOK'
    BY <1>1, <1>t, <2>1 DEF IInv, TypeOK
  <2>3. ThreadsAreJoined'
    <3>1. ASSUME NEW w \in Threads, pc[w] \in Busy
          PROVE  w \in ActiveWorkers[options][w[1]] /\ phase'[w[1]] = "running"
      <4>1. w \in ActiveWorkers[options][w[1]] /\ phase[w[1]] = "running"
        BY <3>1 DEF IInv, ThreadsAreJoined
      <4>2. w[1] \in Phases /\ w[1] # p
        BY <1>1, <1>t, <4>1, ThreadPhase
      <4> QED
        BY <1>t, <2>1, <4>1, <4>2
    <3> QED
      BY <1>1, <1>t, <2>1, <3>1 DEF IInv, ThreadsAreJoined
  <2>4. Remaining'
    BY <1>1, <2>1 DEF IInv, Remaining, ManagersComeFirst, NothingIsDropped, TodoIsDiscovered
  <2> QED
    BY <1>2, <2>2, <2>3, <2>4, Parts
<1> QED
  BY <1>4, <1>5

(* A phase completes when all its threads have been joined.  If none of     *)
(* them panicked, what they came upon is in the table.                      *)
LEMMA CompletePhaseStep ==
  ASSUME IInv, NEW p \in Phases, CompletePhase(p)
  PROVE  IInv'
<1> DEFINE active == ActiveWorkers[options][p]
<1>1. /\ phase[p] = "running"
      /\ \A w \in active : pc[w] \in {"done", "panicked"}
      /\ UNCHANGED <<options, pc, todo, current, clientGone, outcome,
                     reported, reportedManagers, sent, sentManagers>>
      /\ \E label \in {"done", "panicked"} : phase' = [phase EXCEPT ![p] = label]
  BY DEF CompletePhase, reporterVars
<1>2. \/ completed' = completed
      \/ /\ completed' = completed \cup {p} /\ current /\ ~clientGone
         /\ \A w \in active : pc[w] = "done"
  BY DEF CompletePhase, WriteSucceeds
<1>t. /\ phase \in [Phases -> {"spawned", "running", "done", "panicked"}]
      /\ options \in Searches /\ completed \subseteq Phases
      /\ outcome = "running"
  BY <1>1 DEF IInv, TypeOK, ThreadsAreJoined
<1>3. TypeOK'
  <2>1. completed' \subseteq Phases
    BY <1>t, <1>2
  <2>2. phase' \in [Phases -> {"spawned", "running", "done", "panicked"}]
    BY <1>t, <1>1
  <2> QED
    BY <1>1, <2>1, <2>2 DEF IInv, TypeOK
<1>4. ThreadsAreJoined'
  <2>1. ASSUME NEW w \in Threads, pc[w] \in Busy
        PROVE  w \in ActiveWorkers[options][w[1]] /\ phase'[w[1]] = "running"
    <3>1. w \in ActiveWorkers[options][w[1]] /\ phase[w[1]] = "running"
      BY <2>1 DEF IInv, ThreadsAreJoined
    <3>2. w[1] \in Phases
      BY <1>t, <3>1, ThreadPhase
    <3>3. w[1] # p
      BY <1>1, <2>1, <3>1 DEF Busy
    <3> QED
      BY <1>1, <1>t, <3>1, <3>2, <3>3
  <2> QED
    BY <1>1, <1>t, <2>1 DEF IInv, ThreadsAreJoined
<1>5. Remaining'
  BY <1>1 DEF IInv, Remaining, ManagersComeFirst, NothingIsDropped, TodoIsDiscovered
<1>6. CASE completed' = completed
  <2>1. Tables'
    BY <1>1, <1>6, TablesAreKept, Parts
  <2> QED
    BY <1>3, <1>4, <1>5, <2>1, Parts
<1>7. CASE /\ completed' = completed \cup {p} /\ current /\ ~clientGone
           /\ \A w \in active : pc[w] = "done"
  <2>1. ASSUME NEW e \in Discoveries[options][p], Key(e) # None PROVE Accounted(Key(e))
    <3>1. PICK w \in active : e \in Environments(Work(options, w))
      BY <1>t, <2>1 DEF Discoveries
    <3>2. w \in Threads
      BY <1>t, ThreadNames
    <3>3. Environments(todo[w]) = {}
      BY <1>7, <3>2, NothingInNothing DEF IInv, ThreadsAreJoined
    <3>4. Key(e) \in reported
      BY <1>7, <2>1, <3>1, <3>2, <3>3 DEF IInv, NothingIsDropped
    <3> QED
      BY <1>7, <3>4 DEF IInv, ReportedIsAccounted
  <2>2. CompletedPhaseIsReported'
    BY <1>1, <1>7, <2>1 DEF IInv, CompletedPhaseIsReported, Accounted
  <2>3. \A k : Accounted(k) => Accounted(k)'
    BY <1>1 DEF Accounted
  <2>4. Tables'
    BY <1>1, <2>2, <2>3
       DEF IInv, Tables, SentIsReported, ManagersAreWritten,
           ManagerPrecedesEnvironment, ReportedIsAccounted
  <2> QED
    BY <1>3, <1>4, <1>5, <2>4, Parts
<1> QED
  BY <1>2, <1>6, <1>7

(* The end of the search, a new configuration and a client that goes.       *)
LEMMA OtherSteps ==
  ASSUME IInv, Return \/ Reconfigure \/ ClientGoes \/ UNCHANGED vars
  PROVE  IInv'
<1>1. /\ UNCHANGED <<options, phase, pc, todo, completed,
                     reported, reportedManagers, sent, sentManagers>>
      /\ current' \in BOOLEAN /\ clientGone' \in BOOLEAN
      /\ outcome' \in {"running", "returned", "panicked"}
      /\ current' /\ ~clientGone' => current /\ ~clientGone
  <2>1. CASE Return
    BY <2>1 DEF Return, reporterVars, IInv, TypeOK
  <2>2. CASE Reconfigure
    BY <2>2, Zenon DEF Reconfigure, reporterVars, IInv, TypeOK
  <2>3. CASE ClientGoes
    BY <2>3, Zenon DEF ClientGoes, reporterVars, IInv, TypeOK
  <2>4. CASE UNCHANGED vars
    BY <2>4 DEF vars, reporterVars, IInv, TypeOK
  <2> QED
    BY <2>1, <2>2, <2>3, <2>4
<1>2. outcome' # "running" => \A p \in Phases : phase[p] \in {"done", "panicked"}
  BY DEF Return, Reconfigure, ClientGoes, vars, IInv, ThreadsAreJoined
<1>3. TypeOK' /\ ThreadsAreJoined'
  BY <1>1, <1>2 DEF IInv, TypeOK, ThreadsAreJoined
<1>4. Remaining'
  BY <1>1 DEF IInv, Remaining, ManagersComeFirst, NothingIsDropped, TodoIsDiscovered
<1>5. Tables'
  BY <1>1, TablesAreKept, Parts
<1> QED
  BY <1>3, <1>4, <1>5, Parts

LEMMA InitIInv == Init => IInv
<1> SUFFICES ASSUME Init PROVE IInv
  OBVIOUS
<1>1. /\ options \in Searches /\ phase = [p \in Phases |-> "spawned"]
      /\ pc = [w \in Threads |-> "none"] /\ todo = [w \in Threads |-> <<>>]
      /\ reported = {} /\ reportedManagers = {} /\ sent = {} /\ sentManagers = {}
      /\ completed = {} /\ outcome = "running"
  BY DEF Init
<1>2. TypeOK
  <2>1. current \in BOOLEAN /\ clientGone \in BOOLEAN
    BY DEF Init
  <2> QED
    BY <1>1, <2>1 DEF TypeOK
<1>3. ThreadsAreJoined
  BY <1>1 DEF ThreadsAreJoined, Busy
<1>4. SentIsReported /\ ManagersAreWritten /\ ManagerPrecedesEnvironment
      /\ ReportedIsAccounted /\ CompletedPhaseIsReported
  BY <1>1 DEF SentIsReported, ManagersAreWritten, ManagerPrecedesEnvironment,
              ReportedIsAccounted, CompletedPhaseIsReported
<1>5. ManagersComeFirst /\ NothingIsDropped /\ TodoIsDiscovered
  <2>1. \A w \in Threads : todo[w] = <<>> /\ pc[w] = "none"
    BY <1>1
  <2>2. ManagersFirst(<<>>, reportedManagers)
    BY DEF ManagersFirst
  <2> QED
    BY <2>1, <2>2, NothingInNothing
       DEF ManagersComeFirst, NothingIsDropped, TodoIsDiscovered, Busy
<1> QED
  BY <1>2, <1>3, <1>4, <1>5 DEF IInv

LEMMA NextIInv == IInv /\ [Next]_vars => IInv'
<1> SUFFICES ASSUME IInv, [Next]_vars PROVE IInv'
  OBVIOUS
<1>1. CASE Return \/ Reconfigure \/ ClientGoes \/ Ended \/ UNCHANGED vars
  BY <1>1, OtherSteps DEF Ended
<1>2. ASSUME NEW p \in Phases, StartPhase(p) \/ CompletePhase(p) PROVE IInv'
  BY <1>2, StartPhaseStep, CompletePhaseStep
<1>3. ASSUME NEW w \in Threads, WorkerStep(w) \/ LocatorPanics(w) PROVE IInv'
  BY <1>3, StartWorkerStep, IdentifyExecutableStep, CheckReportedStep, InsertStep,
     FinishWorkerStep, LocatorPanicsStep DEF WorkerStep
<1> QED
  BY <1>1, <1>2, <1>3 DEF Next

-----------------------------------------------------------------------------
(* The inductive invariant holds in every reachable state, for any machine, *)
(* any locators, and any number of threads.                                 *)
THEOREM SearchInvariance == Spec => []IInv
  BY InitIInv, NextIInv, PTL DEF Spec

(* Whichever threads of a search come upon an environment, CacheReporter    *)
(* lets one notification for its key through.                               *)
THEOREM EnvironmentsAreReportedOnce == Spec => []ReportedOnce
<1>1. IInv => ReportedOnce
  BY DEF IInv, SentIsReported, ReportedOnce
<1> QED
  BY <1>1, SearchInvariance, PTL

(* The client hears of a manager before it hears of an environment of it.   *)
THEOREM ManagersAreReportedFirst == Spec => []ManagerPrecedesEnvironment
<1>1. IInv => ManagerPrecedesEnvironment
  BY DEF IInv
<1> QED
  BY <1>1, SearchInvariance, PTL

(* A phase that the client reads has completed has reported what its        *)
(* threads came upon, unless a key was taken by another kind.               *)
THEOREM CompletedPhasesAreReported == Spec => []CompletedPhaseIsReported
<1>1. IInv => CompletedPhaseIsReported
  BY DEF IInv
<1> QED
  BY <1>1, SearchInvariance, PTL

(* Once find_and_report_envs has returned or panicked, none of its threads  *)
(* writes a notification or touches the tables.                             *)
THEOREM ReplyIsLast == Spec => NothingAfterEnd
<1> DEFINE Step == outcome # "running" => UNCHANGED <<reporterVars, completed>>
<1>1. ASSUME IInv, [Next]_vars PROVE Step \/ UNCHANGED vars
  <2> SUFFICES ASSUME outcome # "running"
               PROVE  UNCHANGED <<reporterVars, completed>>
    OBVIOUS
  <2>1. \A p \in Phases : phase[p] \in {"done", "panicked"}
    BY <1>1 DEF IInv, ThreadsAreJoined
  <2>2. \A w \in Threads : pc[w] \notin Busy
    BY <1>1, <2>1, ThreadPhase DEF IInv, ThreadsAreJoined, TypeOK
  <2>3. CASE Return \/ Reconfigure \/ ClientGoes \/ Ended \/ UNCHANGED vars
    BY <2>3 DEF Return, Reconfigure, ClientGoes, Ended, vars
  <2>4. ASSUME NEW p \in Phases PROVE ~StartPhase(p) /\ ~CompletePhase(p)
    BY <2>1 DEF StartPhase, CompletePhase
  <2>5. ASSUME NEW w \in Threads PROVE ~WorkerStep(w) /\ ~LocatorPanics(w)
    BY <2>2 DEF WorkerStep, StartWorker, IdentifyExecutable, CheckReported, Insert,
                FinishWorker, LocatorPanics, Busy
  <2> QED
    BY <1>1, <2>3, <2>4, <2>5 DEF Next
<1> QED
  BY <1>1, SearchInvariance, PTL DEF Spec, NothingAfterEnd
==============================================================================
