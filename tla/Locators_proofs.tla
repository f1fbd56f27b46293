---------------------------- MODULE Locators_proofs ----------------------------
(***************************************************************************)
(* For any machines, configurations and requests: Hatch keeps nothing that   *)
(* it read before it was configured, the registry is reported once, and what *)
(* a refresh hands over to the shared locators is the latest.                *)
(*                                                                         *)
(* What a locator finds on a machine is never expanded here.  First come the *)
(* facts about the order of the locators and about the steps of one thread;  *)
(* then there is a lemma for each action.                                    *)
(***************************************************************************)
EXTENDS Locators, SequenceTheorems, WellFoundedInduction, TLAPS

(* A set of numbers that is not empty has a least element.                  *)
LessThan == {pair \in Nat \X Nat : pair[1] < pair[2]}

LEMMA LeastNumber ==
  ASSUME NEW S \in SUBSET Nat, S # {}
  PROVE  Min(S) \in S
<1>1. IsWellFoundedOn(LessThan, Nat)
  BY NatLessThanWellFounded DEF OpToRel, LessThan
<1>2. PICK x \in S : \A y \in S : ~(<<y, x>> \in LessThan)
  BY <1>1, WFMin
<1>3. \A m, n \in Nat : <<m, n>> \in LessThan <=> m < n
  BY DEF LessThan
<1>4. ASSUME NEW y \in S PROVE x <= y
  <2>1. x \in Nat /\ y \in Nat
    OBVIOUS
  <2>2. ~(y < x)
    BY <1>2, <1>3, <2>1
  <2> QED
    BY <2>1, <2>2
<1> QED
  BY <1>4 DEF Min

-----------------------------------------------------------------------------
(* The order of the locators.                                               *)
AnyLocator ==
  WindowsLocators \cup {"PyEnv", "Pixi", "Conda", "Uv", "Poetry", "PipEnv", "Hatch",
    "VirtualEnvWrapper", "Venv", "VirtualEnv", "Homebrew", "MacXCode", "MacCommandLineTools",
    "MacPythonOrg", "LinuxGlobal"}

LEMMA OrderType ==
  ASSUME NEW m
  PROVE  /\ LocatorOrder(m) \in Seq(AnyLocator)
         /\ ~Windows(m) => LocatorOrder(m) \in Seq(AnyLocator \ WindowsLocators)
<1> DEFINE A == AnyLocator
           B == AnyLocator \ WindowsLocators
           s1 == <<"WindowsStore", "WindowsRegistry", "WinPython">>
           s2 == <<"PyEnv", "Pixi", "Conda", "Uv", "Poetry", "PipEnv", "Hatch",
                   "VirtualEnvWrapper", "Venv", "VirtualEnv">>
           s3 == <<"Homebrew">>
           s4 == <<"MacXCode", "MacCommandLineTools", "MacPythonOrg">>
           s5 == <<"LinuxGlobal">>
<1>1. s1 \in Seq(A)
  BY DEF AnyLocator, WindowsLocators
<1>2. s2 \in Seq(B) /\ s3 \in Seq(B) /\ s4 \in Seq(B) /\ s5 \in Seq(B)
  BY DEF AnyLocator, WindowsLocators
<1>3. s2 \in Seq(A) /\ s3 \in Seq(A) /\ s4 \in Seq(A) /\ s5 \in Seq(A)
  BY DEF AnyLocator, WindowsLocators
<1>4. <<>> \in Seq(A) /\ <<>> \in Seq(B)
  OBVIOUS
<1>5. LocatorOrder(m) = (IF Windows(m) THEN s1 ELSE <<>>) \o s2
                          \o (IF Windows(m) THEN <<>> ELSE s3)
                          \o (IF m.os = "macos" THEN s4 ELSE <<>>)
                          \o (IF m.os = "linux" THEN s5 ELSE <<>>)
  BY DEF LocatorOrder
<1> HIDE DEF A, B, s1, s2, s3, s4, s5
<1>6. LocatorOrder(m) \in Seq(A)
  BY <1>1, <1>3, <1>4, <1>5
<1>7. ~Windows(m) => LocatorOrder(m) \in Seq(B)
  BY <1>2, <1>4, <1>5
<1> QED
  BY <1>6, <1>7 DEF A, B

(* Where there is no Windows, none of its locators is asked.                *)
LEMMA OrderOnMachine ==
  ASSUME NEW m, NEW i \in 1..Len(LocatorOrder(m)), LocatorOrder(m)[i] \in WindowsLocators
  PROVE  Windows(m)
  BY OrderType, ElementOfSeq

LEMMA NextToAskType ==
  ASSUME NEW m, NEW e, NEW position \in Nat
  PROVE  NextToAsk(m, e, position) \in 1..(Len(LocatorOrder(m)) + 1)
<1> DEFINE n == Len(LocatorOrder(m))
           S == {i \in (position + 1)..n :
                   LooksAtCache(m, e, LocatorOrder(m)[i]) \/ Uncached(m, e, LocatorOrder(m)[i]) # None}
                  \cup {n + 1}
<1>1. n \in Nat
  BY OrderType
<1> HIDE DEF n
<1>2. S \in SUBSET (1..(n + 1)) /\ S \in SUBSET Nat /\ S # {}
  BY <1>1
<1>3. Min(S) \in S
  BY <1>2, LeastNumber
<1>4. NextToAsk(m, e, position) = Min(S)
  BY DEF NextToAsk, n
<1> HIDE DEF S
<1> QED
  BY <1>2, <1>3, <1>4 DEF n

LEMMA ElementsOfConcat ==
  ASSUME NEW S, NEW s \in Seq(S), NEW t \in Seq(S)
  PROVE  /\ \A i \in 1..Len(s) : i \in DOMAIN (s \o t) /\ (s \o t)[i] = s[i]
         /\ \A i \in 1..Len(t) : Len(s) + i \in DOMAIN (s \o t) /\ (s \o t)[Len(s) + i] = t[i]
<1>1. Len(s) \in Nat /\ Len(t) \in Nat /\ DOMAIN (s \o t) = 1..(Len(s) + Len(t))
  OBVIOUS
<1> QED
  BY <1>1

(* The refresh syncs every locator of the machine that can be synced.       *)
LEMMA SyncOrderCovers ==
  ASSUME NEW m
  PROVE  /\ SyncOrder(m) \in Seq(Synced)
         /\ \A l \in Synced : (l \in WindowsLocators => Windows(m)) =>
              \E i \in DOMAIN SyncOrder(m) : SyncOrder(m)[i] = l
<1> DEFINE s == <<"WindowsStore", "WindowsRegistry", "WinPython">>
           p == <<"Poetry">>
           first == IF Windows(m) THEN s ELSE <<>>
<1>1. SyncOrder(m) = first \o p
  BY DEF SyncOrder
<1>2. /\ s \in Seq(Synced) /\ p \in Seq(Synced) /\ <<>> \in Seq(Synced)
      /\ 1 \in 1..Len(p) /\ p[1] = "Poetry"
      /\ 1 \in 1..Len(s) /\ s[1] = "WindowsStore"
      /\ 2 \in 1..Len(s) /\ s[2] = "WindowsRegistry"
      /\ 3 \in 1..Len(s) /\ s[3] = "WinPython"
  BY DEF Synced
<1> HIDE DEF s, p
<1>3. first \in Seq(Synced)
  BY <1>2
<1>4. \A l \in WindowsLocators : \E i \in 1..Len(s) : s[i] = l
  BY <1>2 DEF WindowsLocators
<1>5. ASSUME NEW l \in Synced, l \in WindowsLocators => Windows(m)
      PROVE  (\E i \in 1..Len(first) : first[i] = l) \/ (\E i \in 1..Len(p) : p[i] = l)
  BY <1>2, <1>4, <1>5 DEF Synced, WindowsLocators
<1> HIDE DEF first
<1>6. first \o p \in Seq(Synced)
  BY <1>2, <1>3
<1>7. ASSUME NEW l \in Synced, l \in WindowsLocators => Windows(m)
      PROVE  \E i \in DOMAIN (first \o p) : (first \o p)[i] = l
  <2>1. (\E i \in 1..Len(first) : first[i] = l) \/ (\E i \in 1..Len(p) : p[i] = l)
    BY <1>5, <1>7
  <2> DEFINE all == first \o p
  <2>2. /\ \A i \in 1..Len(first) : i \in DOMAIN all /\ all[i] = first[i]
        /\ \A i \in 1..Len(p) : Len(first) + i \in DOMAIN all /\ all[Len(first) + i] = p[i]
    <3>1. first \in Seq(Synced) /\ p \in Seq(Synced)
      BY <1>2, <1>3
    <3> QED
      BY <3>1, ElementsOfConcat
  <2> HIDE DEF all
  <2>3. \E i \in DOMAIN all : all[i] = l
    BY <2>1, <2>2, Zenon
  <2> QED
    BY <2>3 DEF all
<1> QED
  BY <1>1, <1>6, <1>7

-----------------------------------------------------------------------------
(* The state that a thread only reads.                                      *)
LEMMA FieldsAre ==
  /\ Fields = {"pc", "position", "e", "resolved", "held", "walked", "todo", "entries",
               "generation", "answer", "reported"}
  /\ DOMAIN NewHatch = {"generation", "workspaces", "parsed"}
  BY DEF Fields, NewThread, NewHatch

LEMMA SoundThread ==
  ASSUME IInv, NEW t \in DOMAIN thread
  PROVE  /\ Placed(t, thread[t]) /\ Asks(t, thread[t]) /\ ReportsOnce(t, thread[t])
         /\ HoldsEntry(t, thread[t]) /\ HoldsResult(t, thread[t])
  BY DEF IInv, ThreadsAreSound, Sound

(* A thread is a resolve request's or one of the refresh.                   *)
LEMMA KindsOfThreads ==
  ASSUME IInv, NEW t \in DOMAIN thread
  PROVE  /\ GraphOf(t) \in Graphs
         /\ GraphOf(t) = "shared" => ~Finds(t)
         /\ Finds(t) => t[2] \in The.finders /\ t[2] \in StatefulLocators
<1>1. t \in Threads(The) /\ scenario \in DOMAIN Scenarios
  BY DEF IInv, Shape
<1>2. The.finders \subseteq StatefulLocators
  BY <1>1, MachineAssumption DEF The
<1>3. Finds(t) => t[2] \in The.finders
  BY <1>1 DEF Threads, Finds
<1> QED
  BY <1>2, <1>3 DEF GraphOf, Graphs, Finds

(* The operating system is the one of the first state of the machine.       *)
LEMMA SameSystem ==
  ASSUME IInv, NEW k \in 1..Len(The.machines)
  PROVE  /\ The.machines[k].os = Current.os
         /\ LocatorOrder(The.machines[k]) = LocatorOrder(Current)
         /\ Windows(The.machines[k]) = Windows(Current)
<1>1. scenario \in DOMAIN Scenarios /\ now \in 1..Len(The.machines)
  BY DEF IInv, Shape
<1>2. The.machines[k].os = The.machines[now].os
  BY <1>1, MachineAssumption DEF The
<1> QED
  BY <1>2 DEF Current, LocatorOrder, Windows

LEMMA FindersOnMachine ==
  ASSUME IInv, NEW t \in DOMAIN thread, Finds(t)
  PROVE  OnMachine(t[2])
<1>1. scenario \in DOMAIN Scenarios /\ now \in 1..Len(The.machines)
  BY DEF IInv, Shape
<1>2. /\ 1 \in 1..Len(The.machines)
      /\ The.finders \cap WindowsLocators # {} => Windows(The.machines[1])
  BY <1>1, MachineAssumption DEF The
<1>3. Windows(The.machines[1]) = Windows(Current)
  BY <1>2, SameSystem
<1> QED
  BY <1>2, <1>3, KindsOfThreads DEF OnMachine

(* What the steps of one thread have in common: nothing that the others     *)
(* know changes, and the thread knows what it has to.                       *)
LEMMA ThreadStep ==
  ASSUME IInv, NEW t \in DOMAIN thread,
         UNCHANGED <<scenario, now, told, published, next, input, refresh, overtaken>>,
         \A g \in Graphs : hatch'[g].generation = hatch[g].generation,
         DOMAIN thread' = DOMAIN thread,
         \A u \in DOMAIN thread : u # t => thread'[u] = thread[u],
         Sound(t, thread'[t])
  PROVE  ThreadsAreSound'
<1> SUFFICES ASSUME NEW u \in DOMAIN thread PROVE Sound(u, thread[u])'
  BY DEF ThreadsAreSound
<1>1. Sound(u, thread'[u])
  BY DEF IInv, ThreadsAreSound
<1>2. Placed(u, thread[u])'
  BY <1>1 DEF Sound, Placed, The
<1>3. Asks(u, thread[u])'
  BY <1>1 DEF Sound, Asks, Asking, OnMachine, Current, The
<1>4. ReportsOnce(u, thread[u])'
  BY <1>1 DEF Sound, ReportsOnce, The
<1>5. HoldsEntry(u, thread[u])'
  BY <1>1, KindsOfThreads DEF Sound, HoldsEntry, Asking, ReadSince, Since, Current, The
<1>6. HoldsResult(u, thread[u])'
  BY <1>1 DEF Sound, HoldsResult, Asking, FoundByRefresh, Handed, Settled, Current, The
<1> QED
  BY <1>2, <1>3, <1>4, <1>5, <1>6 DEF Sound

(* And if it writes nothing.                                                *)
LEMMA ReadingStep ==
  ASSUME IInv, NEW t \in DOMAIN thread,
         UNCHANGED <<scenario, now, configurationVars, hatch, caches, refresh, overtaken, late, reports>>,
         DOMAIN thread' = DOMAIN thread,
         \A u \in DOMAIN thread : u # t => thread'[u] = thread[u],
         Sound(t, thread'[t])
  PROVE  IInv'
<1>1. UNCHANGED <<scenario, now, told, published, next, configuring, input, hatch, caches, refresh,
                  overtaken, late>>
  BY DEF configurationVars
<1>2. ThreadsAreSound'
  BY <1>1, ThreadStep
<1>3. Shape'
  BY <1>1 DEF IInv, Shape, The
<1>4. InputIsConfiguration' /\ RefreshHasConfiguration'
  BY <1>1 DEF IInv, InputIsConfiguration, RefreshHasConfiguration, The
<1>5. TransientIsFound'
  BY <1>1 DEF IInv, TransientIsFound, OnMachine, FoundByRefresh, Current, The
<1>6. RegistryIsComplete'
  BY <1>1 DEF IInv, RegistryIsComplete
<1>7. HandedIsKept'
  BY <1>1 DEF IInv, HandedIsKept, Handed, Settled, Current, The
<1>8. HatchEntriesAreCurrent'
  BY <1>1 DEF IInv, HatchEntriesAreCurrent, ReadSince, Since, The
<1> QED
  BY <1>2, <1>3, <1>4, <1>5, <1>6, <1>7, <1>8 DEF IInv

-----------------------------------------------------------------------------
(* The steps that only change the thread.                                   *)

(* A thread that has begun stays in its place.                              *)
LEMMA GoesOn ==
  ASSUME IInv, NEW t \in DOMAIN thread, thread[t].pc \notin {"idle", "done"},
         NEW th, DOMAIN th = Fields, th.pc \in Labels \ {"idle"},
         th.position \in Nat, th.generation \in Nat,
         th.pc # (IF Finds(t) THEN "next" ELSE "clear")
  PROVE  Placed(t, th)
  BY SoundThread DEF Placed, IInv, Shape

(* A thread of the refresh that is not over runs while it searches.         *)
LEMMA SearchesInRefresh ==
  ASSUME IInv, NEW t \in DOMAIN thread, thread[t].pc \notin {"idle", "done"},
         GraphOf(t) = "transient"
  PROVE  refresh.phase = "searching" /\ refresh.since \in 1..now
  BY SoundThread DEF Placed, IInv, Shape, RefreshHasConfiguration

(* What a thread has to know between two locators.                          *)
LEMMA KnowsNothing ==
  ASSUME NEW t, NEW th, Placed(t, th), ReportsOnce(t, th), th.pc \in {"idle", "use", "next", "done"}
  PROVE  Sound(t, th)
  BY DEF Sound, Asks, HoldsEntry, HoldsResult

(* And when it is about to look, or to search after it.                     *)
LEMMA KnowsItsLocator ==
  ASSUME NEW t, NEW th, Placed(t, th), ReportsOnce(t, th), Asks(t, th),
         \/ th.pc \in {"clear", "look"}
         \/ th.pc = "search" /\ Asking(t, th) # "Hatch"
  PROVE  Sound(t, th)
  BY DEF Sound, HoldsEntry, HoldsResult

LEMMA BeginStep ==
  ASSUME IInv, NEW t \in DOMAIN thread, Begin(t)
  PROVE  IInv'
<1> DEFINE th == thread[t]
           new == IF Finds(t) THEN [th EXCEPT !.pc = "clear", !.todo = hatch["transient"].workspaces]
                  ELSE [th EXCEPT !.pc = "next",
                                  !.e = PythonEnv(Current, ExecutableToResolve(Current, t[2]), None, None)]
<1>1. /\ Placed(t, th) /\ ReportsOnce(t, th) /\ th.pc = "idle" /\ DOMAIN th = Fields
      /\ t[1] # "resolve" => refresh.phase = "searching"
  BY SoundThread DEF Placed, Begin, At
<1>2. /\ DOMAIN new = Fields /\ new.pc = (IF Finds(t) THEN "clear" ELSE "next")
      /\ new.position = th.position /\ new.generation = th.generation /\ new.reported = th.reported
  BY <1>1, FieldsAre
<1>3. DOMAIN thread' = DOMAIN thread /\ thread'[t] = new
        /\ \A u \in DOMAIN thread : u # t => thread'[u] = thread[u]
  BY DEF Begin
<1> HIDE DEF new
<1>4. Placed(t, new)
  BY <1>1, <1>2 DEF Placed, Labels, GraphOf, Finds
<1>5. ReportsOnce(t, new)
  BY <1>1, <1>2 DEF ReportsOnce
<1>6. Asks(t, new)
  BY <1>2, FindersOnMachine DEF Asks, Asking
<1>7. Sound(t, new)
  BY <1>2, <1>4, <1>5, <1>6, KnowsNothing, KnowsItsLocator
<1> QED
  BY <1>3, <1>7, ReadingStep DEF Begin

LEMMA AfterTheLastType ==
  ASSUME NEW th, DOMAIN th = Fields, NEW resolved
  PROVE  LET new == AfterTheLast(th, resolved) IN
         /\ DOMAIN new = Fields /\ new.pc \in {"done", th.pc}
         /\ new.position \in {0, th.position} /\ new.generation = th.generation
  BY FieldsAre DEF AfterTheLast

LEMMA AskType ==
  ASSUME NEW th, DOMAIN th = Fields, NEW i, NEW state
  PROVE  LET new == Ask(th, i, state) IN
         /\ DOMAIN new = Fields /\ new.position = i /\ new.generation = th.generation
         /\ \/ new.pc = "look" /\ LooksAtCache(Current, th.e, LocatorOrder(Current)[i])
            \/ new.pc = "use"
  BY FieldsAre DEF Ask

LEMMA ContinueStep ==
  ASSUME IInv, NEW t \in DOMAIN thread, Continue(t)
  PROVE  IInv'
<1> DEFINE th == thread[t]
           i == NextToAsk(Current, th.e, th.position)
           new == IF i > Len(LocatorOrder(Current)) THEN AfterTheLast(th, Spawn(Current, th.e.executable))
                  ELSE Ask(th, i, hatch[GraphOf(t)])
<1>1. /\ Placed(t, th) /\ th.pc = "next" /\ DOMAIN th = Fields /\ ~Finds(t)
      /\ th.position \in Nat /\ th.generation \in Nat
  BY SoundThread DEF Placed, Continue, At
<1>2. i \in 1..(Len(LocatorOrder(Current)) + 1) /\ Len(LocatorOrder(Current)) \in Nat
  BY <1>1, NextToAskType, OrderType
<1>3. DOMAIN thread' = DOMAIN thread /\ thread'[t] = new
        /\ \A u \in DOMAIN thread : u # t => thread'[u] = thread[u]
  BY DEF Continue
<1> HIDE DEF i
<1>4. /\ DOMAIN new = Fields /\ new.pc \in {"done", "next", "look", "use"}
      /\ new.position \in Nat /\ new.generation \in Nat
  BY <1>1, <1>2, AfterTheLastType, AskType
<1>5. new.pc = "look" =>
        /\ i \in 1..Len(LocatorOrder(Current)) /\ new.position = i
        /\ LooksAtCache(Current, th.e, LocatorOrder(Current)[i])
  BY <1>1, <1>2, AfterTheLastType, AskType
<1> HIDE DEF new
<1>6. Placed(t, new)
  BY <1>1, <1>4, GoesOn DEF Labels
<1>7. ReportsOnce(t, new)
  BY <1>1 DEF ReportsOnce
<1>8. Asks(t, new)
  <2> SUFFICES ASSUME new.pc = "look" PROVE Asks(t, new)
    BY <1>4 DEF Asks
  <2> DEFINE l == LocatorOrder(Current)[i]
  <2>1. Asking(t, new) = l
    BY <1>1, <1>5 DEF Asking
  <2>2. l \in WindowsLocators => Windows(Current)
    BY <1>5, OrderOnMachine
  <2>3. l # "WinPython"
    BY <1>5 DEF LooksAtCache
  <2> HIDE DEF l
  <2> QED
    BY <2>1, <2>2, <2>3 DEF Asks, OnMachine
<1>9. Sound(t, new)
  BY <1>4, <1>6, <1>7, <1>8, KnowsNothing, KnowsItsLocator
<1> QED
  BY <1>3, <1>9, ReadingStep DEF Continue
LEMMA OneReport ==
  ASSUME NEW s, s = <<>>, NEW x
  PROVE  Len(Append(s, x)) = 1
<1>1. s \in Seq({x}) /\ Len(s) = 0
  OBVIOUS
<1> QED
  BY <1>1

LEMMA UseStep ==
  ASSUME IInv, NEW t \in DOMAIN thread, Use(t)
  PROVE  IInv'
<1> DEFINE th == thread[t]
           reporting == Reporting(t)
           answered == Answered(th, TryFrom(Current, LocatorAt(t), th.e, th.held))
           new == IF Finds(t) THEN reporting ELSE answered
<1>1. /\ Placed(t, th) /\ ReportsOnce(t, th) /\ th.pc = "use" /\ DOMAIN th = Fields
      /\ th.position \in Nat /\ th.generation \in Nat
      /\ Finds(t) => Covers(SyncScope(The.refresh), t[2])
  BY SoundThread DEF Placed, Use, At
<1>2. DOMAIN thread' = DOMAIN thread /\ thread'[t] = new
        /\ \A u \in DOMAIN thread : u # t => thread'[u] = thread[u]
  BY DEF Use
<1>3. /\ DOMAIN reporting = Fields /\ reporting.pc = "done"
      /\ reporting.position \in Nat /\ reporting.generation \in Nat
      /\ reporting.reported = Append(th.reported, th.held)
  BY <1>1, FieldsAre DEF Reporting
<1>4. /\ DOMAIN answered = Fields /\ answered.pc \in {"done", "next"}
      /\ answered.position \in Nat /\ answered.generation \in Nat
  BY <1>1, FieldsAre DEF Answered
<1> HIDE DEF reporting, answered
<1>5. Placed(t, new)
  BY <1>1, <1>3, <1>4, GoesOn DEF Labels
<1>6. ReportsOnce(t, new)
  <2>1. ~Finds(t) => ReportsOnce(t, new)
    BY DEF ReportsOnce
  <2>2. ASSUME Finds(t), t[2] = "WindowsRegistry" PROVE Len(reporting.reported) = 1
    BY <1>1, <1>3, <2>2, OneReport DEF ReportsOnce
  <2> QED
    BY <1>1, <1>3, <2>1, <2>2 DEF ReportsOnce
<1>7. Sound(t, new)
  BY <1>3, <1>4, <1>5, <1>6, KnowsNothing
<1> QED
  BY <1>2, <1>7, ReadingStep DEF Use

(* A thread that stays with its locator; while it is at it, the registry    *)
(* has not been reported.                                                   *)
LEMMA SameLocator ==
  ASSUME IInv, NEW t \in DOMAIN thread, thread[t].pc \in {"clear", "look", "search", "write"},
         NEW th, th.position = thread[t].position
  PROVE  /\ Asking(t, th) = LocatorAt(t)
         /\ OnMachine(LocatorAt(t)) /\ (LocatorAt(t) = "WinPython" => Finds(t))
         /\ Asks(t, th)
<1>1. Asks(t, thread[t])
  BY SoundThread
<1>2. Asking(t, th) = LocatorAt(t)
  BY DEF Asking, LocatorAt
<1> QED
  BY <1>1, <1>2 DEF Asks, LocatorAt

LEMMA OthersReportNothing ==
  ASSUME NEW t, LocatorAt(t) # "WindowsRegistry", NEW th
  PROVE  ReportsOnce(t, th)
  BY DEF ReportsOnce, LocatorAt, Asking

LEMMA HoldingType ==
  ASSUME NEW t, DOMAIN thread[t] = Fields, NEW found
  PROVE  LET new == Holding(t, found) IN
         /\ DOMAIN new = Fields /\ new.pc = "use" /\ new.reported = thread[t].reported
         /\ new.position = thread[t].position /\ new.generation = thread[t].generation
  BY FieldsAre DEF Holding

(* What a thread at its locator starts from.                                *)
LEMMA AtLocator ==
  ASSUME IInv, NEW t \in DOMAIN thread, thread[t].pc \in {"clear", "look", "search", "write"}
  PROVE  /\ DOMAIN thread[t] = Fields /\ thread[t].position \in Nat /\ thread[t].generation \in Nat
         /\ ReportsOnce(t, thread[t])
         /\ thread[t].pc \notin {"idle", "done"}
  BY SoundThread DEF Placed

LEMMA LookAtCacheStep ==
  ASSUME IInv, NEW t \in DOMAIN thread, LookAtCache(t)
  PROVE  IInv'
<1> DEFINE th == thread[t]
           searching == [th EXCEPT !.pc = "search"]
           new == IF Cached(t) = None THEN searching ELSE Holding(t, Cached(t))
<1>1. th.pc = "look" /\ LocatorAt(t) # "Hatch"
  BY DEF LookAtCache, At, Synced
<1>2. /\ DOMAIN th = Fields /\ th.position \in Nat /\ th.generation \in Nat
      /\ ReportsOnce(t, th)
  BY <1>1, AtLocator
<1>3. DOMAIN thread' = DOMAIN thread /\ thread'[t] = new
        /\ \A u \in DOMAIN thread : u # t => thread'[u] = thread[u]
  BY DEF LookAtCache
<1>4. /\ DOMAIN searching = Fields /\ searching.pc = "search" /\ searching.reported = th.reported
      /\ searching.position = th.position /\ searching.generation = th.generation
  BY <1>2, FieldsAre
<1> HIDE DEF searching
<1>5. /\ DOMAIN new = Fields /\ new.pc \in {"search", "use"} /\ new.reported = th.reported
      /\ new.position = th.position /\ new.generation = th.generation
  BY <1>2, <1>4, HoldingType
<1> HIDE DEF new
<1>6. Placed(t, new)
  BY <1>1, <1>2, <1>5, GoesOn DEF Labels
<1>7. ReportsOnce(t, new)
  BY <1>1, <1>2, <1>5 DEF ReportsOnce
<1>8. Asks(t, new) /\ Asking(t, new) # "Hatch"
  BY <1>1, <1>5, SameLocator
<1>9. Sound(t, new)
  BY <1>5, <1>6, <1>7, <1>8, KnowsNothing, KnowsItsLocator
<1> QED
  BY <1>3, <1>9, ReadingStep DEF LookAtCache

(* A search that ends now has found what a refresh finds.                   *)
LEMMA FoundNow ==
  ASSUME IInv, NEW t \in DOMAIN thread, thread[t].pc = "search", NEW locator
  PROVE  /\ GraphOf(t) = "transient" =>
              FoundByRefresh(locator, Compute(Current, input["transient"], locator))
         /\ Settled => input["shared"] = published.config
<1>1. now \in Nat
  BY DEF IInv, Shape
<1>2. GraphOf(t) = "transient" => now \in refresh.since..now
  BY <1>1, SearchesInRefresh
<1> QED
  BY <1>2 DEF FoundByRefresh, Current, Settled, IInv, InputIsConfiguration

LEMMA SearchStep ==
  ASSUME IInv, NEW t \in DOMAIN thread, Search(t)
  PROVE  IInv'
<1> DEFINE th == thread[t]
           found == Compute(Current, input[GraphOf(t)], LocatorAt(t))
           new == [th EXCEPT !.pc = "write", !.held = found]
<1>1. th.pc = "search" /\ LocatorAt(t) \notin {"Hatch", "WindowsRegistry"}
  BY DEF Search, At, Synced
<1>2. DOMAIN th = Fields /\ th.position \in Nat /\ th.generation \in Nat
  BY <1>1, AtLocator
<1>3. DOMAIN thread' = DOMAIN thread /\ thread'[t] = new
        /\ \A u \in DOMAIN thread : u # t => thread'[u] = thread[u]
  BY <1>2, FieldsAre DEF Search
<1>4. /\ DOMAIN new = Fields /\ new.pc = "write" /\ new.held = found
      /\ new.position = th.position /\ new.generation = th.generation
  BY <1>2, FieldsAre
<1> HIDE DEF new
<1>5. Placed(t, new)
  BY <1>1, <1>2, <1>4, GoesOn DEF Labels
<1>6. ReportsOnce(t, new)
  BY <1>1, OthersReportNothing
<1>7. Asks(t, new) /\ Asking(t, new) = LocatorAt(t)
  BY <1>1, <1>4, SameLocator
<1>8. HoldsEntry(t, new)
  BY <1>1, <1>7 DEF HoldsEntry
<1>9. HoldsResult(t, new)
  BY <1>1, <1>4, <1>7, FoundNow DEF HoldsResult
<1>10. Sound(t, new)
  BY <1>5, <1>6, <1>7, <1>8, <1>9 DEF Sound
<1> QED
  BY <1>3, <1>10, ReadingStep DEF Search

LEMMA SearchRegistryStep ==
  ASSUME IInv, NEW t \in DOMAIN thread, SearchRegistry(t)
  PROVE  IInv'
<1> DEFINE th == thread[t]
<1>1. th.pc = "search" /\ LocatorAt(t) = "WindowsRegistry"
  BY DEF SearchRegistry, At
<1>2. /\ DOMAIN th = Fields /\ th.position \in Nat /\ th.generation \in Nat
      /\ ReportsOnce(t, th)
  BY <1>1, AtLocator
<1>3. PICK panicking \in SUBSET (The.panics \cap Companies(Current)) :
        thread' = [thread EXCEPT ![t].pc = "write", ![t].held = RegistryWalk(Current, panicking),
                     ![t].walked = TRUE,
                     ![t].reported = IF Finds(t) THEN Append(@, RegistryWalk(Current, panicking)) ELSE @]
  BY DEF SearchRegistry
<1> DEFINE walk == RegistryWalk(Current, panicking)
           new == [th EXCEPT !.pc = "write", !.held = walk, !.walked = TRUE,
                             !.reported = IF Finds(t) THEN Append(@, walk) ELSE @]
<1>4. ~walk.hadPanic => walk = Compute(Current, input["transient"], "WindowsRegistry")
  <2>1. walk.hadPanic = (panicking # {})
    BY DEF RegistryWalk
  <2> QED
    BY <2>1 DEF Compute
<1> HIDE DEF walk
<1>5. DOMAIN thread' = DOMAIN thread /\ thread'[t] = new
        /\ \A u \in DOMAIN thread : u # t => thread'[u] = thread[u]
  BY <1>2, <1>3, FieldsAre DEF walk
<1>6. /\ DOMAIN new = Fields /\ new.pc = "write" /\ new.held = walk
      /\ new.position = th.position /\ new.generation = th.generation
      /\ Finds(t) => new.reported = Append(th.reported, walk)
  BY <1>2, FieldsAre
<1> HIDE DEF new
<1>7. Placed(t, new)
  BY <1>1, <1>2, <1>6, GoesOn DEF Labels
<1>8. ReportsOnce(t, new)
  <2> SUFFICES ASSUME Finds(t), t[2] = "WindowsRegistry" PROVE Len(new.reported) = 1
    BY <1>6 DEF ReportsOnce
  <2>1. th.reported = <<>>
    BY <1>1, <1>2 DEF ReportsOnce
  <2> QED
    BY <1>6, <2>1, OneReport
<1>9. Asks(t, new) /\ Asking(t, new) = "WindowsRegistry"
  BY <1>1, <1>6, SameLocator
<1>10. HoldsEntry(t, new)
  BY <1>9 DEF HoldsEntry
<1>11. HoldsResult(t, new)
  BY <1>1, <1>4, <1>6, <1>9, FoundNow DEF HoldsResult
<1>12. Sound(t, new)
  BY <1>7, <1>8, <1>9, <1>10, <1>11 DEF Sound
<1> QED
  BY <1>5, <1>12, ReadingStep DEF SearchRegistry

-----------------------------------------------------------------------------
(* Hatch.                                                                   *)
LEMMA WithEntryType ==
  ASSUME NEW t, DOMAIN thread[t] = Fields, NEW entry
  PROVE  LET new == WithEntry(t, entry) IN
         /\ DOMAIN new = Fields /\ new.pc \in {"look", "done"}
         /\ new.position = thread[t].position /\ new.generation = thread[t].generation
<1> DEFINE th == thread[t]
           one == WithWorkspace(th, Workspace(t), entry)
           env == HatchTryFrom(Current, one.e, one.entries)
<1>1. /\ DOMAIN one = Fields /\ one.pc = "look"
      /\ one.position = th.position /\ one.generation = th.generation
  BY FieldsAre DEF WithWorkspace
<1> HIDE DEF one, env
<1>2. /\ DOMAIN OwnedBy(one, env) = Fields /\ OwnedBy(one, env).pc \in {"look", "done"}
      /\ OwnedBy(one, env).position = th.position /\ OwnedBy(one, env).generation = th.generation
  BY <1>1, FieldsAre DEF OwnedBy
<1>3. WithEntry(t, entry) = IF Finds(t) THEN one ELSE OwnedBy(one, env)
  BY DEF WithEntry, Entered, one, env
<1> QED
  BY <1>1, <1>2, <1>3

(* With an entry, the thread looks for the next workspace or is over.       *)
LEMMA SoundWithEntry ==
  ASSUME IInv, NEW t \in DOMAIN thread, thread[t].pc \in {"look", "write"}, LocatorAt(t) = "Hatch",
         NEW th, DOMAIN th = Fields, th.pc \in {"look", "done", "use"},
         th.position = thread[t].position, th.generation = thread[t].generation
  PROVE  Sound(t, th)
<1>1. Placed(t, th)
  BY AtLocator, GoesOn DEF Labels
<1>2. ReportsOnce(t, th)
  BY OthersReportNothing
<1>3. Asks(t, th)
  BY SameLocator
<1> QED
  BY <1>1, <1>2, <1>3, KnowsNothing, KnowsItsLocator

LEMMA LookForWorkspaceStep ==
  ASSUME IInv, NEW t \in DOMAIN thread, LookForWorkspace(t)
  PROVE  IInv'
<1> DEFINE th == thread[t]
           state == hatch[GraphOf(t)]
           known == WithEntry(t, state.parsed[Workspace(t)])
           reading == [th EXCEPT !.pc = "search", !.generation = state.generation]
           new == IF Workspace(t) \in DOMAIN state.parsed THEN known ELSE reading
<1>1. th.pc = "look" /\ LocatorAt(t) = "Hatch"
  BY DEF LookForWorkspace, At
<1>2. DOMAIN th = Fields /\ th.position \in Nat /\ th.generation \in Nat
  BY <1>1, AtLocator
<1>3. DOMAIN thread' = DOMAIN thread /\ thread'[t] = new
        /\ \A u \in DOMAIN thread : u # t => thread'[u] = thread[u]
  BY DEF LookForWorkspace
<1>4. state.generation \in Nat
  BY KindsOfThreads DEF IInv, Shape
<1>5. Sound(t, known)
  <2> HIDE DEF state
  <2>1. /\ DOMAIN known = Fields /\ known.pc \in {"look", "done"}
        /\ known.position = th.position /\ known.generation = th.generation
    BY <1>2, WithEntryType
  <2> HIDE DEF known
  <2> QED
    BY <1>1, <2>1, SoundWithEntry
<1>6. Sound(t, reading)
  <2>1. /\ DOMAIN reading = Fields /\ reading.pc = "search"
        /\ reading.position = th.position /\ reading.generation = state.generation
    BY <1>2, FieldsAre
  <2> HIDE DEF reading
  <2>2. Placed(t, reading)
    BY <1>1, <1>2, <1>4, <2>1, GoesOn DEF Labels
  <2>3. ReportsOnce(t, reading)
    BY <1>1, OthersReportNothing
  <2>4. Asks(t, reading) /\ Asking(t, reading) = "Hatch"
    BY <1>1, <2>1, SameLocator
  <2>5. HoldsEntry(t, reading) /\ HoldsResult(t, reading)
    BY <1>4, <2>1 DEF HoldsEntry, HoldsResult
  <2> QED
    BY <2>2, <2>3, <2>4, <2>5 DEF Sound
<1> HIDE DEF known, reading
<1> QED
  BY <1>3, <1>5, <1>6, ReadingStep DEF LookForWorkspace

(* What is read now has been read since the configure.                      *)
LEMMA ReadNow ==
  ASSUME IInv, NEW t \in DOMAIN thread, thread[t].pc = "search", NEW w
  PROVE  ReadSince(GraphOf(t), w, HatchWorkspaceEntry(Current, w))
<1>1. now \in Nat /\ told \in 1..now
  BY DEF IInv, Shape
<1>2. now \in Since(GraphOf(t))..now
  BY <1>1, SearchesInRefresh, KindsOfThreads DEF Since, Graphs
<1> QED
  BY <1>2 DEF ReadSince, Current

LEMMA ParseWorkspaceStep ==
  ASSUME IInv, NEW t \in DOMAIN thread, ParseWorkspace(t)
  PROVE  IInv'
<1> DEFINE th == thread[t]
           entry == HatchWorkspaceEntry(Current, Workspace(t))
           new == [th EXCEPT !.pc = "write", !.held = entry]
<1>1. th.pc = "search" /\ LocatorAt(t) = "Hatch"
  BY DEF ParseWorkspace, At
<1>2. DOMAIN th = Fields /\ th.position \in Nat /\ th.generation \in Nat
  BY <1>1, AtLocator
<1>3. DOMAIN thread' = DOMAIN thread /\ thread'[t] = new
        /\ \A u \in DOMAIN thread : u # t => thread'[u] = thread[u]
  BY <1>2, FieldsAre DEF ParseWorkspace
<1>4. ReadSince(GraphOf(t), NextWorkspace(th.todo), entry)
  BY <1>1, ReadNow DEF Workspace
<1> HIDE DEF entry
<1>5. /\ DOMAIN new = Fields /\ new.pc = "write" /\ new.held = entry /\ new.todo = th.todo
      /\ new.position = th.position /\ new.generation = th.generation
  BY <1>2, FieldsAre
<1> HIDE DEF new
<1>6. Placed(t, new)
  BY <1>1, <1>2, <1>5, GoesOn DEF Labels
<1>7. ReportsOnce(t, new)
  BY <1>1, OthersReportNothing
<1>8. Asks(t, new) /\ Asking(t, new) = "Hatch"
  BY <1>1, <1>5, SameLocator
<1>9. th.generation <= hatch[GraphOf(t)].generation
  BY <1>1, SoundThread DEF HoldsEntry, LocatorAt
<1>10. HoldsEntry(t, new)
  BY <1>4, <1>5, <1>9 DEF HoldsEntry
<1>11. HoldsResult(t, new)
  BY <1>8 DEF HoldsResult, Synced
<1>12. Sound(t, new)
  BY <1>6, <1>7, <1>8, <1>10, <1>11 DEF Sound
<1> QED
  BY <1>3, <1>12, ReadingStep DEF ParseWorkspace

LEMMA UseWorkspacesStep ==
  ASSUME IInv, NEW t \in DOMAIN thread, UseWorkspaces(t)
  PROVE  IInv'
<1> DEFINE new == Holding(t, thread[t].entries)
<1>1. thread[t].pc = "look" /\ LocatorAt(t) = "Hatch"
  BY DEF UseWorkspaces, At
<1>2. DOMAIN thread' = DOMAIN thread /\ thread'[t] = new
        /\ \A u \in DOMAIN thread : u # t => thread'[u] = thread[u]
  BY DEF UseWorkspaces
<1>3. /\ DOMAIN new = Fields /\ new.pc = "use"
      /\ new.position = thread[t].position /\ new.generation = thread[t].generation
  BY <1>1, AtLocator, HoldingType
<1> HIDE DEF new
<1>4. Sound(t, new)
  BY <1>1, <1>3, SoundWithEntry
<1> QED
  BY <1>2, <1>4, ReadingStep DEF UseWorkspaces

(* What is kept was read since the configure, whoever read it.              *)
LEMMA WriteWorkspaceStep ==
  ASSUME IInv, NEW t \in DOMAIN thread, WriteWorkspace(t)
  PROVE  IInv'
<1> DEFINE th == thread[t]
           g == GraphOf(t)
           w == Workspace(t)
           state == hatch[g]
           entry == IF w \in DOMAIN state.parsed THEN state.parsed[w] ELSE th.held
           keep == ~EntryIsStale(state, th.generation) /\ EntryIsKept(state, w)
           parsed == [v \in DOMAIN state.parsed \cup {w} |-> IF v = w THEN entry ELSE state.parsed[v]]
           again == [th EXCEPT !.pc = "look"]
           known == WithEntry(t, IF keep THEN entry ELSE th.held)
           new == IF EntryIsStale(state, th.generation) THEN again ELSE known
<1>1. th.pc = "write" /\ LocatorAt(t) = "Hatch"
  BY DEF WriteWorkspace, At
<1>2. DOMAIN th = Fields /\ th.position \in Nat /\ th.generation \in Nat
  BY <1>1, AtLocator
<1>3. g \in Graphs /\ DOMAIN hatch = Graphs /\ \A h \in Graphs : DOMAIN hatch[h] = DOMAIN NewHatch
  BY KindsOfThreads DEF IInv, Shape
<1>4. DOMAIN thread' = DOMAIN thread /\ thread'[t] = new
        /\ \A u \in DOMAIN thread : u # t => thread'[u] = thread[u]
  BY DEF WriteWorkspace
<1>5. hatch' = IF keep THEN [hatch EXCEPT ![g].parsed = parsed] ELSE hatch
  BY DEF WriteWorkspace
<1>6. UNCHANGED <<scenario, now, published, next, configuring, input, told, caches, refresh,
                  overtaken, late>>
  BY DEF WriteWorkspace, configurationVars
<1>7. ~EntryIsStale(state, th.generation) => ReadSince(g, w, th.held)
  <2>1. HoldsEntry(t, th)
    BY SoundThread
  <2> QED
    BY <1>1, <2>1 DEF HoldsEntry, EntryIsStale, LocatorAt, Workspace
<1>8. \A v \in DOMAIN state.parsed : v \in state.workspaces /\ ReadSince(g, v, state.parsed[v])
  BY <1>3 DEF IInv, HatchEntriesAreCurrent
<1>9. keep => w \in state.workspaces /\ ReadSince(g, w, entry)
  BY <1>7, <1>8 DEF EntryIsKept
<1> HIDE DEF keep, entry
<1>10. keep => \A v \in DOMAIN parsed : v \in state.workspaces /\ ReadSince(g, v, parsed[v])
  BY <1>8, <1>9
<1> HIDE DEF parsed, w, g
<1>11. /\ DOMAIN hatch' = Graphs
       /\ \A h \in Graphs : /\ DOMAIN hatch'[h] = DOMAIN NewHatch
                            /\ hatch'[h].generation = hatch[h].generation
                            /\ hatch'[h].workspaces = hatch[h].workspaces
                            /\ hatch'[h].parsed = IF h = g /\ keep THEN parsed ELSE hatch[h].parsed
  BY <1>3, <1>5, FieldsAre
<1>12. Sound(t, again)
  <2>1. /\ DOMAIN again = Fields /\ again.pc = "look"
        /\ again.position = th.position /\ again.generation = th.generation
    BY <1>2, FieldsAre
  <2> HIDE DEF again
  <2> QED
    BY <1>1, <2>1, SoundWithEntry
<1>13. Sound(t, known)
  <2>1. /\ DOMAIN known = Fields /\ known.pc \in {"look", "done"}
        /\ known.position = th.position /\ known.generation = th.generation
    BY <1>2, WithEntryType
  <2> HIDE DEF known
  <2> QED
    BY <1>1, <2>1, SoundWithEntry
<1>14. Sound(t, new)
  BY <1>12, <1>13
<1> HIDE DEF new
<1>15. ThreadsAreSound'
  BY <1>4, <1>6, <1>11, <1>14, ThreadStep
<1>16. Shape'
  BY <1>4, <1>6, <1>11 DEF IInv, Shape, The
<1>17. InputIsConfiguration' /\ RefreshHasConfiguration'
  BY <1>6 DEF IInv, InputIsConfiguration, RefreshHasConfiguration, The
<1>18. TransientIsFound' /\ RegistryIsComplete'
  BY <1>6 DEF IInv, TransientIsFound, RegistryIsComplete, OnMachine, FoundByRefresh, Current, The
<1>19. HandedIsKept'
  BY <1>6 DEF IInv, HandedIsKept, Handed, Settled, Current, The
<1>20. HatchEntriesAreCurrent'
  <2> SUFFICES ASSUME NEW h \in Graphs, NEW v \in DOMAIN hatch'[h].parsed
               PROVE  (v \in hatch[h].workspaces /\ ReadSince(h, v, hatch[h].parsed[v]))'
    BY DEF HatchEntriesAreCurrent
  <2>1. v \in hatch[h].workspaces /\ ReadSince(h, v, hatch'[h].parsed[v])
    BY <1>10, <1>11 DEF IInv, HatchEntriesAreCurrent
  <2> QED
    BY <1>6, <1>11, <2>1 DEF ReadSince, Since, The
<1> QED
  BY <1>15, <1>16, <1>17, <1>18, <1>19, <1>20 DEF IInv

-----------------------------------------------------------------------------
(* The steps that write to a cache.                                         *)

(* A cache may be written to if what is written was found in the refresh,   *)
(* by its threads, and does no harm to what has been handed over, by        *)
(* others.                                                                  *)
LEMMA CachingStep ==
  ASSUME IInv, NEW t \in DOMAIN thread, NEW g \in Graphs, NEW l \in Remembering, NEW v,
         caches' = [caches EXCEPT ![g][l] = v],
         UNCHANGED <<scenario, now, configurationVars, hatch, refresh, overtaken, reports>>,
         late \subseteq late',
         DOMAIN thread' = DOMAIN thread,
         \A u \in DOMAIN thread : u # t => thread'[u] = thread[u],
         Sound(t, thread'[t]),
         l = "WindowsRegistry" /\ v # None => ~v.hadPanic,
         l \in Synced /\ g = "transient" =>
           /\ refresh.phase = "searching"
           /\ v # None => OnMachine(l) /\ FoundByRefresh(l, v),
         l \in Synced /\ g = "shared" /\ Handed(l) /\ caches["transient"][l] # None =>
           IF l \in {"Poetry", "WindowsStore"}
             THEN Settled => v = Compute(Current, published.config, l) \/ l \in late'
             ELSE v = caches["shared"][l]
  PROVE  IInv'
<1>1. UNCHANGED <<scenario, now, told, published, next, configuring, input, hatch, refresh, overtaken>>
  BY DEF configurationVars
<1>2. /\ DOMAIN caches = Graphs /\ \A h \in Graphs : DOMAIN caches[h] = Remembering
      /\ Synced \subseteq Remembering /\ "shared" \in Graphs /\ "transient" \in Graphs
  BY DEF IInv, Shape, Synced, Remembering, StatefulLocators, Graphs
<1>3. /\ DOMAIN caches' = Graphs
      /\ \A h \in Graphs : DOMAIN caches'[h] = Remembering
      /\ \A h \in Graphs : \A k \in Remembering :
           caches'[h][k] = IF h = g /\ k = l THEN v ELSE caches[h][k]
  BY <1>2
<1>4. ThreadsAreSound'
  BY <1>1, ThreadStep
<1>5. Shape'
  BY <1>1, <1>3 DEF IInv, Shape, The
<1>6. InputIsConfiguration' /\ RefreshHasConfiguration'
  BY <1>1 DEF IInv, InputIsConfiguration, RefreshHasConfiguration, The
<1>7. HatchEntriesAreCurrent'
  BY <1>1 DEF IInv, HatchEntriesAreCurrent, ReadSince, Since, The
<1>8. RegistryIsComplete'
  BY <1>2, <1>3 DEF IInv, RegistryIsComplete, Synced
<1>9. TransientIsFound'
  <2> SUFFICES ASSUME NEW k \in Synced, caches'["transient"][k] # None
               PROVE  (OnMachine(k) /\ FoundByRefresh(k, caches["transient"][k]))'
    BY DEF TransientIsFound
  <2>1. OnMachine(k) /\ FoundByRefresh(k, caches'["transient"][k])
    BY <1>2, <1>3 DEF IInv, TransientIsFound
  <2> QED
    BY <1>1, <2>1 DEF OnMachine, FoundByRefresh, Current, The
<1>10. HandedIsKept'
  <2> SUFFICES ASSUME NEW k \in Synced, Handed(k)', caches'["transient"][k] # None
               PROVE  (IF k \in {"Poetry", "WindowsStore"}
                         THEN Settled => \/ caches["shared"][k] = Compute(Current, published.config, k)
                                         \/ k \in late
                         ELSE caches["shared"][k] = caches["transient"][k])'
    BY DEF HandedIsKept
  <2>1. Handed(k) /\ refresh.phase \in {"syncing", "synced"}
    BY <1>1 DEF Handed, The
  <2>2. caches'["transient"][k] = caches["transient"][k]
    BY <1>2, <1>3, <2>1
  <2>3. IF k \in {"Poetry", "WindowsStore"}
          THEN Settled => \/ caches["shared"][k] = Compute(Current, published.config, k)
                          \/ k \in late
          ELSE caches["shared"][k] = caches["transient"][k]
    BY <2>1, <2>2 DEF IInv, HandedIsKept
  <2>4. IF k \in {"Poetry", "WindowsStore"}
          THEN Settled => \/ caches'["shared"][k] = Compute(Current, published.config, k)
                          \/ k \in late'
          ELSE caches'["shared"][k] = caches["transient"][k]
    BY <1>2, <1>3, <2>1, <2>2, <2>3
  <2> QED
    BY <1>1, <2>2, <2>4 DEF Settled, Current, The
<1> QED
  BY <1>4, <1>5, <1>6, <1>7, <1>8, <1>9, <1>10 DEF IInv

LEMMA ClearStep ==
  ASSUME IInv, NEW t \in DOMAIN thread, Clear(t)
  PROVE  IInv'
<1> DEFINE th == thread[t]
           new == [th EXCEPT !.pc = "look"]
<1>1. th.pc = "clear" /\ Finds(t)
  BY SoundThread DEF Clear, At, Placed
<1>2. /\ DOMAIN th = Fields /\ th.position \in Nat /\ th.generation \in Nat
      /\ ReportsOnce(t, th)
  BY <1>1, AtLocator
<1>3. DOMAIN thread' = DOMAIN thread /\ thread'[t] = new
        /\ \A u \in DOMAIN thread : u # t => thread'[u] = thread[u]
  BY <1>2, FieldsAre DEF Clear
<1>4. /\ DOMAIN new = Fields /\ new.pc = "look" /\ new.reported = th.reported
      /\ new.position = th.position /\ new.generation = th.generation
  BY <1>2, FieldsAre
<1> HIDE DEF new
<1>5. Placed(t, new)
  BY <1>1, <1>2, <1>4, GoesOn DEF Labels
<1>6. ReportsOnce(t, new)
  BY <1>1, <1>2, <1>4 DEF ReportsOnce
<1>7. Asks(t, new)
  BY <1>1, <1>4, SameLocator
<1>8. Sound(t, new)
  BY <1>4, <1>5, <1>6, <1>7, KnowsItsLocator
<1>9. CASE ClearsBeforeFind(t[2])
  <2>1. t[2] \in Remembering /\ t[2] # "WindowsRegistry" /\ "transient" \in Graphs
    BY <1>1, <1>9, KindsOfThreads DEF ClearsBeforeFind, Remembering, Graphs
  <2>2. t[2] \in Synced => NewCaches[t[2]] = None
    BY <2>1 DEF NewCaches, Synced
  <2>3. refresh.phase = "searching"
    BY <1>1, SearchesInRefresh DEF GraphOf, Finds
  <2>4. caches' = [caches EXCEPT !["transient"][t[2]] = NewCaches[t[2]]]
    BY <1>9 DEF Clear
  <2>5. UNCHANGED <<scenario, now, configurationVars, hatch, refresh, overtaken, late, reports>>
    BY DEF Clear
  <2> DEFINE l == t[2]
             v == NewCaches[l]
             g == "transient"
  <2>6. /\ l \in Remembering /\ l # "WindowsRegistry" /\ (l \in Synced => v = None)
        /\ caches' = [caches EXCEPT ![g][l] = v] /\ g \in Graphs /\ g # "shared"
    BY <2>1, <2>2, <2>4
  <2> HIDE DEF l, v, g
  <2> QED
    BY <1>3, <1>8, <2>3, <2>5, <2>6, CachingStep
<1>10. CASE ~ClearsBeforeFind(t[2])
  BY <1>3, <1>8, <1>10, ReadingStep DEF Clear
<1> QED
  BY <1>9, <1>10

LEMMA WriteStep ==
  ASSUME IInv, NEW t \in DOMAIN thread, Write(t)
  PROVE  IInv'
<1> DEFINE th == thread[t]
           g == GraphOf(t)
           l == LocatorAt(t)
           new == [th EXCEPT !.pc = "use"]
<1>1. th.pc = "write" /\ l \in Synced /\ l # "WindowsRegistry"
  BY DEF Write, At
<1>2. DOMAIN th = Fields /\ th.position \in Nat /\ th.generation \in Nat
  BY <1>1, AtLocator
<1>3. DOMAIN thread' = DOMAIN thread /\ thread'[t] = new
        /\ \A u \in DOMAIN thread : u # t => thread'[u] = thread[u]
  BY <1>2, FieldsAre DEF Write
<1>4. /\ DOMAIN new = Fields /\ new.pc = "use"
      /\ new.position = th.position /\ new.generation = th.generation
  BY <1>2, FieldsAre
<1> HIDE DEF new
<1>5. Placed(t, new)
  BY <1>1, <1>2, <1>4, GoesOn DEF Labels
<1>6. ReportsOnce(t, new)
  BY <1>1, OthersReportNothing
<1>7. Sound(t, new)
  BY <1>4, <1>5, <1>6, KnowsNothing
<1>8. HoldsResult(t, th) /\ Asking(t, th) = l /\ OnMachine(l) /\ (l = "WinPython" => Finds(t))
  BY <1>1, SoundThread, SameLocator
<1>9. g \in Graphs /\ (g = "shared" => ~Finds(t)) /\ l \in Remembering
  BY <1>1, KindsOfThreads DEF Synced, Remembering, StatefulLocators
<1>10. g = "transient" => refresh.phase = "searching" /\ FoundByRefresh(l, th.held)
  BY <1>1, <1>8, SearchesInRefresh DEF HoldsResult
<1>11. /\ late \subseteq late' /\ (t \in overtaken => l \in late')
       /\ caches' = [caches EXCEPT ![g][l] = th.held]
       /\ UNCHANGED <<scenario, now, configurationVars, hatch, refresh, overtaken, reports>>
  BY DEF Write
<1>12. g = "shared" /\ Handed(l) =>
         /\ l \in {"Poetry", "WindowsStore"}
         /\ Settled => th.held = Compute(Current, published.config, l) \/ l \in late'
  BY <1>1, <1>8, <1>9, <1>11 DEF HoldsResult, Synced
<1> HIDE DEF g, l
<1> QED
  BY <1>1, <1>3, <1>7, <1>8, <1>9, <1>10, <1>11, <1>12, CachingStep

LEMMA WriteRegistryStep ==
  ASSUME IInv, NEW t \in DOMAIN thread, WriteRegistry(t)
  PROVE  IInv'
<1> DEFINE th == thread[t]
           g == GraphOf(t)
           l == "WindowsRegistry"
           kept == RegistryKeeps(Cached(t), th.held)
           over == [th EXCEPT !.pc = "done", !.held = None]
           found == IF th.held.hadPanic THEN th.held ELSE kept
           new == IF Finds(t) THEN over ELSE Holding(t, found)
<1>1. th.pc = "write" /\ LocatorAt(t) = l
  BY DEF WriteRegistry, At
<1>2. /\ DOMAIN th = Fields /\ th.position \in Nat /\ th.generation \in Nat
      /\ ReportsOnce(t, th)
  BY <1>1, AtLocator
<1>3. /\ DOMAIN thread' = DOMAIN thread /\ thread'[t] = new
      /\ \A u \in DOMAIN thread : u # t => thread'[u] = thread[u]
      /\ caches' = [caches EXCEPT ![g][l] = kept]
  BY DEF WriteRegistry, UseWalk
<1>4. /\ DOMAIN over = Fields /\ over.pc = "done" /\ over.reported = th.reported
      /\ over.position = th.position /\ over.generation = th.generation
  BY <1>2, FieldsAre
<1>5. Sound(t, new)
  <2> HIDE DEF over, found
  <2>1. /\ DOMAIN new = Fields /\ new.pc = (IF Finds(t) THEN "done" ELSE "use")
        /\ Finds(t) => new.reported = th.reported
        /\ new.position = th.position /\ new.generation = th.generation
    BY <1>2, <1>4, HoldingType
  <2> HIDE DEF new
  <2>2. Placed(t, new)
    BY <1>1, <1>2, <2>1, GoesOn DEF Labels
  <2>3. Finds(t) => Covers(SyncScope(The.refresh), t[2])
    BY <1>1, SoundThread DEF Placed
  <2>4. ReportsOnce(t, new)
    BY <1>1, <1>2, <2>1, <2>3 DEF ReportsOnce
  <2> QED
    BY <2>1, <2>2, <2>4, KnowsNothing
<1>6. HoldsResult(t, th) /\ Asking(t, th) = l /\ OnMachine(l)
  BY <1>1, SoundThread, SameLocator
<1>7. g \in Graphs /\ l \in Remembering /\ l \in Synced
  BY KindsOfThreads DEF Synced, Remembering, StatefulLocators
<1>8. Cached(t) = caches[g][l]
  BY <1>1 DEF Cached
<1>9. kept # None => ~kept.hadPanic
  BY <1>7, <1>8 DEF RegistryKeeps, IInv, RegistryIsComplete
<1>10. g = "transient" => /\ refresh.phase = "searching"
                          /\ kept # None => FoundByRefresh(l, kept)
  <2> SUFFICES ASSUME g = "transient", kept # None PROVE FoundByRefresh(l, kept)
    BY <1>1, SearchesInRefresh
  <2>1. CASE caches[g][l] # None
    BY <1>7, <1>8, <2>1 DEF RegistryKeeps, IInv, TransientIsFound
  <2>2. CASE caches[g][l] = None
    BY <1>1, <1>6, <1>7, <1>8, <2>2 DEF RegistryKeeps, HoldsResult
  <2> QED
    BY <2>1, <2>2
<1>11. g = "shared" /\ Handed(l) /\ caches["transient"][l] # None => kept = caches["shared"][l]
  BY <1>7, <1>8 DEF RegistryKeeps, IInv, HandedIsKept
<1>12. UNCHANGED <<scenario, now, configurationVars, hatch, refresh, overtaken, reports, late>>
  BY DEF WriteRegistry
<1> HIDE DEF g, kept, new
<1> QED
  BY <1>3, <1>5, <1>6, <1>7, <1>9, <1>10, <1>11, <1>12, CachingStep

(* The caches that no refresh hands over.                                   *)
LEMMA OtherCachingStep ==
  ASSUME IInv, NEW t \in DOMAIN thread, thread[t].pc = "look",
         LocatorAt(t) \in {"PyEnv", "LinuxGlobal"},
         NEW l \in {"PyEnv", "LinuxGlobal"}, NEW v, NEW new,
         caches' = [caches EXCEPT ![GraphOf(t)][l] = v],
         thread' = [thread EXCEPT ![t] = new],
         DOMAIN new = Fields, new.pc \in {"use", "done", "next"},
         Finds(t) => new.pc = "use",
         new.position = thread[t].position, new.generation = thread[t].generation,
         UNCHANGED <<scenario, now, configurationVars, hatch, refresh, overtaken, late, reports>>
  PROVE  IInv'
<1>1. Placed(t, new)
  BY AtLocator, GoesOn DEF Labels
<1>2. Sound(t, new)
  BY <1>1, KnowsNothing, OthersReportNothing
<1>3. l \in Remembering /\ l \notin Synced /\ l # "WindowsRegistry" /\ GraphOf(t) \in Graphs
  BY KindsOfThreads DEF Remembering, StatefulLocators, Synced
<1> QED
  BY <1>2, <1>3, CachingStep

LEMMA OtherCachesStep ==
  ASSUME IInv, NEW t \in DOMAIN thread, LookForPyenv(t) \/ AskLinux(t) \/ FillLinux(t)
  PROVE  IInv'
<1>1. thread[t].pc = "look" /\ LocatorAt(t) \in {"PyEnv", "LinuxGlobal"}
  BY DEF LookForPyenv, AskLinux, FillLinux, At
<1>2. DOMAIN thread[t] = Fields
  BY <1>1, AtLocator
<1>3. CASE LookForPyenv(t)
  <2>1. PICK info :
          /\ caches' = [caches EXCEPT ![GraphOf(t)]["PyEnv"] = info]
          /\ thread' = [thread EXCEPT ![t] = Holding(t, info)]
          /\ UNCHANGED <<scenario, now, configurationVars, hatch, refresh, overtaken, late, reports>>
    BY <1>3 DEF LookForPyenv
  <2> DEFINE new == Holding(t, info)
  <2>2. /\ DOMAIN new = Fields /\ new.pc = "use"
        /\ new.position = thread[t].position /\ new.generation = thread[t].generation
    BY <1>2, HoldingType
  <2> HIDE DEF new
  <2> QED
    BY <1>1, <2>1, <2>2, OtherCachingStep DEF new
<1>4. CASE AskLinux(t)
  <2>1. PICK asked :
          /\ caches' = [caches EXCEPT ![GraphOf(t)]["LinuxGlobal"] = asked.cache]
          /\ thread' = [thread EXCEPT ![t] = Answered(thread[t], asked.env)]
          /\ ~Finds(t)
          /\ UNCHANGED <<scenario, now, configurationVars, hatch, refresh, overtaken, late, reports>>
    BY <1>4 DEF AskLinux
  <2> DEFINE new == Answered(thread[t], asked.env)
  <2>2. /\ DOMAIN new = Fields /\ new.pc \in {"done", "next"}
        /\ new.position = thread[t].position /\ new.generation = thread[t].generation
    BY <1>2, FieldsAre DEF Answered
  <2> HIDE DEF new
  <2> QED
    BY <1>1, <2>1, <2>2, OtherCachingStep DEF new
<1>5. CASE FillLinux(t)
  <2>1. PICK filled :
          /\ caches' = [caches EXCEPT !["transient"]["LinuxGlobal"] = filled]
          /\ thread' = [thread EXCEPT ![t] = Holding(t, filled)]
          /\ Finds(t)
          /\ UNCHANGED <<scenario, now, configurationVars, hatch, refresh, overtaken, late, reports>>
    BY <1>5 DEF FillLinux
  <2>2. GraphOf(t) = "transient"
    BY <2>1 DEF GraphOf, Finds
  <2> DEFINE new == Holding(t, filled)
  <2>3. /\ DOMAIN new = Fields /\ new.pc = "use"
        /\ new.position = thread[t].position /\ new.generation = thread[t].generation
    BY <1>2, HoldingType
  <2> HIDE DEF new
  <2> QED
    BY <1>1, <2>1, <2>2, <2>3, OtherCachingStep DEF new
<1> QED
  BY <1>3, <1>4, <1>5

-----------------------------------------------------------------------------
(* The machine and the configuration.                                       *)
LEMMA ChangeMachineStep ==
  ASSUME IInv, ChangeMachine
  PROVE  IInv'
<1>1. /\ now' = now + 1 /\ now \in Nat /\ now < Len(The.machines) /\ now \in 1..Len(The.machines)
      /\ scenario \in DOMAIN Scenarios
      /\ UNCHANGED <<scenario, told, published, next, configuring, input, hatch, caches, thread,
                     refresh, overtaken, late>>
  BY DEF ChangeMachine, configurationVars, IInv, Shape
<1>2. Len(The.machines) \in Nat
  BY <1>1, MachineAssumption DEF The
<1>3. The' = The /\ now' \in 1..Len(The.machines)
  BY <1>1, <1>2 DEF The
<1>4. /\ LocatorOrder(Current') = LocatorOrder(Current)
      /\ Windows(Current') = Windows(Current)
  <2>1. Current' = The.machines[now']
    BY <1>3 DEF Current
  <2> QED
    BY <1>3, <2>1, SameSystem
<1>5. \A k \in 0..now : k..now \subseteq k..now' /\ refresh.since \in Nat /\ told \in 0..now
  BY <1>1 DEF IInv, Shape
<1>6. refresh.phase # "none" => ~Settled'
  BY <1>1 DEF IInv, RefreshHasConfiguration, Settled
<1>7. \A l, f : FoundByRefresh(l, f) => FoundByRefresh(l, f)'
  <2> SUFFICES ASSUME NEW l, NEW f, FoundByRefresh(l, f) PROVE FoundByRefresh(l, f)'
    OBVIOUS
  <2>1. PICK k \in refresh.since..now : f = Compute(The.machines[k], input["transient"], l)
    BY DEF FoundByRefresh
  <2>2. k \in refresh.since..now'
    BY <1>1, <1>5
  <2> QED
    BY <1>1, <1>3, <2>1, <2>2 DEF FoundByRefresh
<1>8. \A g \in Graphs : \A w, f : ReadSince(g, w, f) => ReadSince(g, w, f)'
  <2> SUFFICES ASSUME NEW g \in Graphs, NEW w, NEW f, ReadSince(g, w, f) PROVE ReadSince(g, w, f)'
    OBVIOUS
  <2>1. PICK k \in Since(g)..now : f = HatchWorkspaceEntry(The.machines[k], w)
    BY DEF ReadSince
  <2>2. Since(g)' = Since(g) /\ Since(g) \in Nat
    BY <1>1, <1>5 DEF Since
  <2>3. k \in Since(g)..now'
    BY <1>1, <2>2
  <2> QED
    BY <1>1, <1>3, <2>1, <2>2, <2>3 DEF ReadSince
<1>9. \A l : OnMachine(l)' <=> OnMachine(l)
  BY <1>4 DEF OnMachine
<1>10. ThreadsAreSound'
  <2> SUFFICES ASSUME NEW u \in DOMAIN thread PROVE Sound(u, thread[u])'
    BY <1>1 DEF ThreadsAreSound
  <2> DEFINE th == thread[u]
  <2>1. /\ Placed(u, th) /\ Asks(u, th) /\ ReportsOnce(u, th)
        /\ HoldsEntry(u, th) /\ HoldsResult(u, th) /\ GraphOf(u) \in Graphs
    BY SoundThread, KindsOfThreads
  <2>2. Asking(u, th)' = Asking(u, th)
    BY <1>1, <1>4 DEF Asking
  <2>3. Placed(u, th)' /\ ReportsOnce(u, th)'
    BY <1>1, <1>3, <2>1 DEF Placed, ReportsOnce
  <2>4. Asks(u, th)'
    BY <1>1, <1>9, <2>1, <2>2 DEF Asks
  <2>5. HoldsEntry(u, th)'
    BY <1>1, <1>8, <2>1, <2>2 DEF HoldsEntry
  <2>6. HoldsResult(u, th)'
    BY <1>1, <1>6, <1>7, <2>1, <2>2 DEF HoldsResult, Handed
  <2> QED
    BY <2>3, <2>4, <2>5, <2>6 DEF Sound
<1>11. Shape'
  BY <1>1, <1>3, <1>5 DEF IInv, Shape
<1>12. InputIsConfiguration' /\ RefreshHasConfiguration'
  BY <1>1, <1>3 DEF IInv, InputIsConfiguration, RefreshHasConfiguration
<1>13. TransientIsFound' /\ RegistryIsComplete'
  BY <1>1, <1>7, <1>9 DEF IInv, TransientIsFound, RegistryIsComplete
<1>14. HandedIsKept'
  BY <1>1, <1>3, <1>6 DEF IInv, HandedIsKept, Handed
<1>15. HatchEntriesAreCurrent'
  BY <1>1, <1>8 DEF IInv, HatchEntriesAreCurrent
<1> QED
  BY <1>10, <1>11, <1>12, <1>13, <1>14, <1>15 DEF IInv

(* What the steps of a configure have in common: a refresh is not settled   *)
(* afterwards, and Hatch's generation grows when it starts anew.            *)
LEMMA ConfigureStep ==
  ASSUME IInv, UNCHANGED <<scenario, now, caches, thread, refresh, overtaken, late>>,
         input'["transient"] = input["transient"],
         refresh.phase # "none" => ~Settled',
         \A g \in Graphs : \/ hatch'[g].generation = hatch[g].generation /\ Since(g)' = Since(g)
                           \/ hatch'[g].generation = hatch[g].generation + 1,
         Shape', InputIsConfiguration', RefreshHasConfiguration', HatchEntriesAreCurrent'
  PROVE  IInv'
<1>1. The' = The /\ Current' = Current
  BY DEF The, Current
<1>2. ThreadsAreSound'
  <2> SUFFICES ASSUME NEW u \in DOMAIN thread PROVE Sound(u, thread[u])'
    BY DEF ThreadsAreSound
  <2> DEFINE th == thread[u]
  <2>1. /\ Placed(u, th) /\ Asks(u, th) /\ ReportsOnce(u, th)
        /\ HoldsEntry(u, th) /\ HoldsResult(u, th) /\ GraphOf(u) \in Graphs
    BY SoundThread, KindsOfThreads
  <2>2. Asking(u, th)' = Asking(u, th)
    BY <1>1 DEF Asking
  <2>3. Placed(u, th)' /\ ReportsOnce(u, th)'
    BY <1>1, <2>1 DEF Placed, ReportsOnce
  <2>4. Asks(u, th)'
    BY <1>1, <2>1, <2>2 DEF Asks, OnMachine
  <2>5. HoldsEntry(u, th)'
    <3>1. th.generation \in Nat /\ hatch[GraphOf(u)].generation \in Nat
      BY <2>1 DEF Placed, IInv, Shape
    <3>2. ASSUME Since(GraphOf(u))' = Since(GraphOf(u)), NEW w, NEW f, ReadSince(GraphOf(u), w, f)
          PROVE  ReadSince(GraphOf(u), w, f)'
      BY <1>1, <3>2 DEF ReadSince
    <3> QED
      BY <2>1, <2>2, <3>1, <3>2 DEF HoldsEntry
  <2>6. HoldsResult(u, th)'
    BY <1>1, <2>1, <2>2 DEF HoldsResult, Handed, FoundByRefresh
  <2> QED
    BY <2>3, <2>4, <2>5, <2>6 DEF Sound
<1>3. TransientIsFound' /\ RegistryIsComplete'
  BY <1>1 DEF IInv, TransientIsFound, RegistryIsComplete, OnMachine, FoundByRefresh
<1>4. HandedIsKept'
  BY <1>1 DEF IInv, HandedIsKept, Handed
<1> QED
  BY <1>2, <1>3, <1>4 DEF IInv

LEMMA ReceiveConfigureStep ==
  ASSUME IInv, ReceiveConfigure
  PROVE  IInv'
<1>1. UNCHANGED <<scenario, now, published, input, told, hatch, caches, thread, refresh, overtaken, late>>
  BY DEF ReceiveConfigure
<1>2. next' # None /\ configuring' = <<"Poetry", "Hatch">>
  <2>1. /\ scenario \in DOMAIN Scenarios /\ now \in 1..Len(The.machines)
        /\ published.generation \in Nat
    BY DEF IInv, Shape
  <2>2. Len(The.configurations) \in Nat
    BY <2>1, RequestAssumption DEF The
  <2>3. published.generation + 1 \in 1..Len(The.configurations)
    BY <2>1, <2>2 DEF ReceiveConfigure
  <2>4. ConfigureOptions(The.machines[now], The.configurations[published.generation + 1]) # None
    BY <2>1, <2>3, RequestAssumption DEF The
  <2> QED
    BY <2>4 DEF ReceiveConfigure, Current
<1>3. Shape'
  BY <1>1 DEF IInv, Shape, The
<1>4. InputIsConfiguration'
  BY <1>2 DEF InputIsConfiguration
<1>5. RefreshHasConfiguration'
  BY <1>1 DEF IInv, RefreshHasConfiguration, The
<1>6. HatchEntriesAreCurrent'
  BY <1>1 DEF IInv, HatchEntriesAreCurrent, ReadSince, Since, The
<1>7. ~Settled'
  BY <1>2 DEF Settled
<1>8. \A g \in Graphs : Since(g)' = Since(g)
  BY <1>1 DEF Since
<1> QED
  BY <1>1, <1>3, <1>4, <1>5, <1>6, <1>7, <1>8, ConfigureStep

(* The shared locators that are still to be told.                           *)
LEMMA Configuring ==
  ASSUME IInv, configuring # <<>>
  PROVE  /\ next # None
         /\ Head(configuring) = "Poetry" =>
              configuring = <<"Poetry", "Hatch">> /\ Tail(configuring) = <<"Hatch">>
         /\ Head(configuring) = "Hatch" => configuring = <<"Hatch">> /\ Tail(configuring) = <<>>
<1>1. /\ configuring \in {<<"Hatch">>, <<"Poetry", "Hatch">>} /\ next # None
  BY DEF IInv, InputIsConfiguration
<1>2. Head(<<"Hatch">>) = "Hatch" /\ Tail(<<"Hatch">>) = <<>>
  OBVIOUS
<1>3. Head(<<"Poetry", "Hatch">>) = "Poetry" /\ Tail(<<"Poetry", "Hatch">>) = <<"Hatch">>
  OBVIOUS
<1> QED
  BY <1>1, <1>2, <1>3

LEMMA ConfigurePoetryStep ==
  ASSUME IInv, ConfigurePoetry
  PROVE  IInv'
<1>1. UNCHANGED <<scenario, now, published, next, told, hatch, caches, thread, refresh, overtaken, late>>
  BY DEF ConfigurePoetry
<1>2. next # None /\ configuring' = <<"Hatch">>
  BY Configuring DEF ConfigurePoetry
<1>3. /\ DOMAIN input' = Graphs /\ input'["shared"] = next
      /\ input'["transient"] = input["transient"]
  BY DEF ConfigurePoetry, IInv, Shape, Graphs
<1>4. Shape'
  BY <1>1, <1>3 DEF IInv, Shape, The
<1>5. InputIsConfiguration'
  BY <1>1, <1>2, <1>3 DEF InputIsConfiguration
<1>6. RefreshHasConfiguration'
  BY <1>1, <1>3 DEF IInv, RefreshHasConfiguration, The
<1>7. HatchEntriesAreCurrent'
  BY <1>1 DEF IInv, HatchEntriesAreCurrent, ReadSince, Since, The
<1>8. ~Settled'
  BY <1>1, <1>2 DEF Settled
<1>9. \A g \in Graphs : Since(g)' = Since(g)
  BY <1>1 DEF Since
<1> QED
  BY <1>1, <1>3, <1>4, <1>5, <1>6, <1>7, <1>8, <1>9, ConfigureStep

LEMMA ConfigureHatchStep ==
  ASSUME IInv, ConfigureHatch
  PROVE  IInv'
<1>1. UNCHANGED <<scenario, now, published, next, input, caches, thread, refresh, overtaken, late>>
  BY DEF ConfigureHatch
<1>2. next # None /\ configuring = <<"Hatch">> /\ configuring' = <<>> /\ told' = now
  BY Configuring DEF ConfigureHatch
<1>3. /\ DOMAIN hatch = Graphs /\ DOMAIN hatch["transient"] = DOMAIN NewHatch
      /\ hatch["transient"].generation \in Nat /\ hatch["shared"].generation \in Nat
      /\ now \in 1..Len(The.machines)
  BY DEF IInv, Shape, Graphs
<1> DEFINE new == HatchConfigured(hatch["shared"], next)
<1>4. /\ DOMAIN hatch' = Graphs /\ hatch'["transient"] = hatch["transient"] /\ hatch'["shared"] = new
  BY <1>3 DEF ConfigureHatch, Graphs
<1>5. /\ DOMAIN new = DOMAIN NewHatch /\ new.generation = hatch["shared"].generation + 1
      /\ DOMAIN new.parsed = {}
  BY FieldsAre DEF HatchConfigured, Nothing
<1> HIDE DEF new
<1>6. Shape'
  <2>1. \A g \in Graphs : DOMAIN hatch'[g] = DOMAIN NewHatch /\ hatch'[g].generation \in Nat
    BY <1>3, <1>4, <1>5 DEF Graphs
  <2>2. told' \in 1..now
    BY <1>2, <1>3
  <2> QED
    BY <1>1, <1>4, <2>1, <2>2 DEF IInv, Shape, The
<1>7. InputIsConfiguration'
  BY <1>1, <1>2 DEF IInv, InputIsConfiguration
<1>8. RefreshHasConfiguration'
  BY <1>1 DEF IInv, RefreshHasConfiguration, The
<1>9. HatchEntriesAreCurrent'
  BY <1>1, <1>4, <1>5 DEF IInv, HatchEntriesAreCurrent, ReadSince, Since, The, Graphs
<1>10. ~Settled'
  BY <1>1, <1>2 DEF Settled
<1>11. \A g \in Graphs : \/ hatch'[g].generation = hatch[g].generation /\ Since(g)' = Since(g)
                         \/ hatch'[g].generation = hatch[g].generation + 1
  BY <1>1, <1>4, <1>5 DEF Since, Graphs
<1> QED
  BY <1>1, <1>6, <1>7, <1>8, <1>9, <1>10, <1>11, ConfigureStep

LEMMA PublishStep ==
  ASSUME IInv, Publish
  PROVE  IInv'
<1>1. UNCHANGED <<scenario, now, configuring, input, told, hatch, caches, thread, refresh, overtaken, late>>
  BY DEF Publish
<1>2. /\ next # None /\ configuring = <<>> /\ next' = None
      /\ published'.generation = published.generation + 1 /\ published'.config = next
  BY DEF Publish
<1>3. published.generation \in Nat /\ refresh.generation \in Nat
  BY DEF IInv, Shape
<1>4. refresh.phase # "none" => refresh.generation <= published.generation
  BY DEF IInv, RefreshHasConfiguration
<1>5. Shape'
  BY <1>1, <1>2 DEF IInv, Shape, The
<1>6. InputIsConfiguration'
  <2>1. configuring # <<"Poetry", "Hatch">>
    BY <1>2
  <2>2. input["shared"] = next
    BY <1>2, <2>1 DEF IInv, InputIsConfiguration
  <2> QED
    BY <1>1, <1>2, <2>2 DEF InputIsConfiguration
<1>7. RefreshHasConfiguration'
  BY <1>1, <1>2, <1>3, <1>4 DEF IInv, RefreshHasConfiguration, The
<1>8. HatchEntriesAreCurrent'
  BY <1>1 DEF IInv, HatchEntriesAreCurrent, ReadSince, Since, The
<1>9. refresh.phase # "none" => ~Settled'
  BY <1>1, <1>2, <1>3, <1>4 DEF Settled
<1>10. \A g \in Graphs : Since(g)' = Since(g)
  BY <1>1 DEF Since
<1> QED
  BY <1>1, <1>5, <1>6, <1>7, <1>8, <1>9, <1>10, ConfigureStep

-----------------------------------------------------------------------------
(* The refresh.                                                             *)

(* In the scope of a refresh are locators of one without search paths.      *)
LEMMA CoveredHasNoPaths ==
  ASSUME NEW l \in Synced, NEW options, Covers(SyncScope(options), l)
  PROVE  options.paths = None /\ SyncScope(options) # "Workspace"
<1>1. SyncScope(options) # "Workspace"
  BY DEF Covers, SupportedCategories, Synced
<1> QED
  BY <1>1 DEF SyncScope

(* And what it found, with nothing changed, is the latest.                  *)
LEMMA FoundIsLatest ==
  ASSUME IInv, NEW l \in Synced, NEW found, refresh.phase # "none",
         Covers(SyncScope(The.refresh), l), Settled, FoundByRefresh(l, found)
  PROVE  found = Compute(Current, published.config, l)
<1>1. PICK k \in refresh.since..now : found = Compute(The.machines[k], input["transient"], l)
  BY DEF FoundByRefresh
<1>2. k = now
  BY DEF Settled, IInv, Shape
<1>3. input["transient"] = published.config
  BY CoveredHasNoPaths DEF Settled, IInv, RefreshHasConfiguration
<1> QED
  BY <1>1, <1>2, <1>3 DEF Current

LEMMA StartRefreshStep ==
  ASSUME IInv, StartRefresh
  PROVE  IInv'
<1> DEFINE config == BuildRefreshConfig(Current, CanonicalizeRefreshOptions(Current, The.refresh),
                                        published.config)
           scope == SyncScope(The.refresh)
           fresh == HatchConfigured(NewHatch, config)
<1>1. /\ The.refresh # None /\ refresh.phase = "none"
      /\ input' = [input EXCEPT !["transient"] = config]
      /\ hatch' = [hatch EXCEPT !["transient"] = fresh]
      /\ caches' = [caches EXCEPT !["transient"] = NewCaches]
      /\ thread' = [t \in DOMAIN thread |->
           IF Finds(t) /\ ~Covers(scope, t[2]) THEN [thread[t] EXCEPT !.pc = "done"] ELSE thread[t]]
      /\ refresh' = [refresh EXCEPT !.phase = "searching", !.generation = published.generation,
                                    !.since = now]
  BY DEF StartRefresh
<1>2. /\ UNCHANGED <<scenario, now, published, next, configuring, told, overtaken, late>>
      /\ The' = The /\ Current' = Current
  BY DEF StartRefresh, The, Current
<1>3. The.refresh.paths = None => config = published.config
  <2>1. DOMAIN The.refresh = {"kind", "paths"}
    BY <1>1, RequestAssumption DEF The, IInv, Shape
  <2>2. The.refresh.paths = None => CanonicalizeRefreshOptions(Current, The.refresh).paths = None
    BY <2>1 DEF CanonicalizeRefreshOptions
  <2> QED
    BY <2>2 DEF BuildRefreshConfig
<1> HIDE DEF config
<1>4. /\ DOMAIN fresh = DOMAIN NewHatch /\ fresh.generation = 1 /\ DOMAIN fresh.parsed = {}
  BY FieldsAre DEF HatchConfigured, NewHatch, Nothing
<1>5. /\ DOMAIN NewCaches = Remembering
      /\ \A l \in Synced : NewCaches[l] = None
  BY DEF NewCaches, Synced, Remembering, StatefulLocators
<1> HIDE DEF fresh
<1>6. /\ DOMAIN input' = Graphs /\ input'["shared"] = input["shared"] /\ input'["transient"] = config
      /\ DOMAIN hatch' = Graphs /\ hatch'["shared"] = hatch["shared"] /\ hatch'["transient"] = fresh
      /\ DOMAIN caches' = Graphs /\ caches'["shared"] = caches["shared"]
      /\ caches'["transient"] = NewCaches
  BY <1>1 DEF IInv, Shape, Graphs
<1>7. /\ DOMAIN refresh' = {"phase", "generation", "since", "sync", "merging"}
      /\ refresh'.phase = "searching" /\ refresh'.generation = published.generation
      /\ refresh'.since = now /\ refresh'.sync = refresh.sync
  BY <1>1 DEF IInv, Shape
<1>8. /\ now \in Nat /\ now \in 1..now /\ published.generation \in Nat
  BY DEF IInv, Shape
<1>9. ThreadsAreSound'
  <2> SUFFICES ASSUME NEW u \in DOMAIN thread PROVE Sound(u, thread[u])'
    BY <1>1 DEF ThreadsAreSound
  <2> DEFINE th == thread[u]
             new == thread'[u]
  <2>1. /\ Placed(u, th) /\ Asks(u, th) /\ ReportsOnce(u, th)
        /\ HoldsEntry(u, th) /\ HoldsResult(u, th) /\ GraphOf(u) \in Graphs
        /\ DOMAIN th = Fields
    BY SoundThread, KindsOfThreads DEF Placed
  <2>2. /\ DOMAIN new = Fields
        /\ new.pc = IF Finds(u) /\ ~Covers(scope, u[2]) THEN "done" ELSE th.pc
        /\ new.position = th.position /\ new.generation = th.generation
        /\ new.reported = th.reported /\ new.todo = th.todo /\ new.held = th.held
    BY <1>1, <2>1, FieldsAre
  <2>3. GraphOf(u) = "transient" => th.pc = "idle" /\ new.pc \in {"idle", "done"}
    BY <1>1, <2>1, <2>2 DEF Placed
  <2>4. Finds(u) => GraphOf(u) = "transient"
    BY DEF Finds, GraphOf
  <2>5. Asking(u, thread[u])' = Asking(u, th)
    BY <1>2, <2>2 DEF Asking
  <2> HIDE DEF th, new
  <2>6. Placed(u, thread[u])'
    BY <1>1, <1>2, <1>7, <2>1, <2>2, <2>3, <2>4 DEF Placed, Labels, new
  <2>7. ReportsOnce(u, thread[u])'
    BY <1>2, <2>1, <2>2, <2>3, <2>4 DEF ReportsOnce, new
  <2>8. Asks(u, thread[u])'
    BY <1>2, <2>1, <2>2, <2>3, <2>4, <2>5 DEF Asks, OnMachine, new
  <2>9. HoldsEntry(u, thread[u])'
    BY <1>2, <1>6, <2>1, <2>2, <2>3, <2>4, <2>5 DEF HoldsEntry, ReadSince, Since, Graphs, new
  <2>10. HoldsResult(u, thread[u])'
    BY <1>2, <1>7, <2>2, <2>3 DEF HoldsResult, Handed, new
  <2> QED
    BY <2>6, <2>7, <2>8, <2>9, <2>10 DEF Sound
<1>10. Shape'
  <2>1. \A g \in Graphs : DOMAIN hatch'[g] = DOMAIN NewHatch /\ hatch'[g].generation \in Nat
    BY <1>4, <1>6 DEF IInv, Shape, Graphs
  <2>2. \A g \in Graphs : DOMAIN caches'[g] = Remembering
    BY <1>5, <1>6 DEF IInv, Shape, Graphs
  <2> QED
    BY <1>1, <1>2, <1>6, <1>7, <1>8, <2>1, <2>2 DEF IInv, Shape
<1>11. InputIsConfiguration'
  BY <1>2, <1>6 DEF IInv, InputIsConfiguration
<1>12. RefreshHasConfiguration'
  BY <1>1, <1>2, <1>3, <1>6, <1>7, <1>8 DEF RefreshHasConfiguration
<1>13. TransientIsFound'
  BY <1>5, <1>6 DEF TransientIsFound
<1>14. RegistryIsComplete'
  BY <1>5, <1>6 DEF IInv, RegistryIsComplete, Graphs, Synced
<1>15. HandedIsKept'
  BY <1>7 DEF HandedIsKept, Handed
<1>16. HatchEntriesAreCurrent'
  BY <1>2, <1>4, <1>6 DEF IInv, HatchEntriesAreCurrent, ReadSince, Since, Graphs
<1> QED
  BY <1>9, <1>10, <1>11, <1>12, <1>13, <1>14, <1>15, <1>16 DEF IInv

(* What the steps of the sync have in common: they only change the refresh, *)
(* the shared caches and what is said of the threads they overtake.         *)
LEMMA SyncStep ==
  ASSUME IInv,
         UNCHANGED <<scenario, now, configurationVars, hatch, thread, reports>>,
         refresh'.since = refresh.since, refresh'.generation = refresh.generation,
         refresh.phase # "none",
         \A t \in DOMAIN thread : GraphOf(t) = "transient" => thread[t].pc = "done",
         \A t \in DOMAIN thread :
           /\ GraphOf(t) = "shared" /\ thread[t].pc = "write" /\ LocatorAt(t) \in Synced
           /\ Handed(LocatorAt(t))' /\ t \notin overtaken'
           => Handed(LocatorAt(t)) /\ t \notin overtaken,
         refresh'.phase \in {"syncing", "synced", "skipped"},
         refresh'.phase = "synced" => refresh'.sync = <<>>,
         Shape', TransientIsFound', RegistryIsComplete', HandedIsKept'
  PROVE  IInv'
<1>1. /\ UNCHANGED <<scenario, now, published, next, configuring, input, told, hatch, thread>>
      /\ The' = The /\ Current' = Current
  BY DEF configurationVars, The, Current
<1>2. ThreadsAreSound'
  <2> SUFFICES ASSUME NEW u \in DOMAIN thread PROVE Sound(u, thread[u])'
    BY <1>1 DEF ThreadsAreSound
  <2> DEFINE th == thread[u]
  <2>1. /\ Placed(u, th) /\ Asks(u, th) /\ ReportsOnce(u, th)
        /\ HoldsEntry(u, th) /\ HoldsResult(u, th) /\ GraphOf(u) \in Graphs
    BY SoundThread, KindsOfThreads
  <2>2. Asking(u, th)' = Asking(u, th) /\ LocatorAt(u) = Asking(u, th)
    BY <1>1 DEF Asking, LocatorAt
  <2>3. Finds(u) => th.pc = "done"
    BY DEF Finds, GraphOf
  <2>4. Placed(u, th)'
    BY <1>1, <2>1, <2>3 DEF Placed
  <2>5. ReportsOnce(u, th)'
    BY <1>1, <2>1 DEF ReportsOnce
  <2>6. Asks(u, th)'
    BY <1>1, <2>1, <2>2 DEF Asks, OnMachine
  <2>7. HoldsEntry(u, th)'
    BY <1>1, <2>1, <2>2 DEF HoldsEntry, ReadSince, Since
  <2>8. HoldsResult(u, th)'
    <3> SUFFICES ASSUME th.pc = "write", Asking(u, th) \in Synced, GraphOf(u) = "shared",
                        Asking(u, th) # "WindowsRegistry", Handed(Asking(u, th))', Settled',
                        u \notin overtaken'
                 PROVE  th.held = Compute(Current, published.config, Asking(u, th))
      BY <1>1, <2>2 DEF HoldsResult
    <3>1. Handed(Asking(u, th)) /\ u \notin overtaken
      <4>1. Handed(LocatorAt(u))'
        BY <1>1, <2>2 DEF Handed, LocatorAt
      <4> QED
        BY <2>2, <4>1
    <3>2. Settled
      BY <1>1 DEF Settled
    <3> QED
      BY <2>1, <3>1, <3>2 DEF HoldsResult
  <2> QED
    BY <2>4, <2>5, <2>6, <2>7, <2>8 DEF Sound
<1>3. InputIsConfiguration'
  BY <1>1 DEF IInv, InputIsConfiguration
<1>4. RefreshHasConfiguration'
  BY <1>1 DEF IInv, RefreshHasConfiguration
<1>5. HatchEntriesAreCurrent'
  BY <1>1 DEF IInv, HatchEntriesAreCurrent, ReadSince, Since
<1> QED
  BY <1>2, <1>3, <1>4, <1>5 DEF IInv
(* Every locator that a thread or the refresh may hold a result of is       *)
(* still to be handed over.                                                 *)
LEMMA BeginSyncStep ==
  ASSUME IInv, BeginSync
  PROVE  IInv'
<1>1. /\ refresh.phase = "searching"
      /\ \A t \in DOMAIN thread : GraphOf(t) = "transient" => thread[t].pc = "done"
      /\ UNCHANGED <<scenario, now, configurationVars, hatch, caches, thread, overtaken, late, reports>>
      /\ The' = The /\ Current' = Current
  BY DEF BeginSync, At, The, Current
<1>2. DOMAIN refresh = {"phase", "generation", "since", "sync", "merging"} /\ refresh.sync \in Seq(Synced)
        /\ refresh.generation \in Nat /\ refresh.since \in Nat
  BY DEF IInv, Shape
<1>3. /\ DOMAIN refresh' = DOMAIN refresh
      /\ refresh'.since = refresh.since /\ refresh'.generation = refresh.generation
      /\ \/ refresh'.phase = "skipped" /\ refresh'.sync = refresh.sync
         \/ refresh'.phase = "syncing" /\ refresh'.sync = SyncOrder(Current)
  BY <1>2 DEF BeginSync
<1>4. refresh'.sync \in Seq(Synced)
  BY <1>2, <1>3, SyncOrderCovers
<1>5. \A l \in Synced : OnMachine(l) => ~Handed(l)'
  <2> SUFFICES ASSUME NEW l \in Synced, OnMachine(l), Handed(l)' PROVE FALSE
    OBVIOUS
  <2>1. refresh'.sync = SyncOrder(Current) /\ \A i \in DOMAIN refresh'.sync : refresh'.sync[i] # l
    BY <1>3 DEF Handed
  <2>2. \E i \in DOMAIN SyncOrder(Current) : SyncOrder(Current)[i] = l
    BY SyncOrderCovers DEF OnMachine
  <2> QED
    BY <2>1, <2>2, Zenon
<1>6. Shape'
  BY <1>1, <1>2, <1>3, <1>4 DEF IInv, Shape, configurationVars
<1>7. TransientIsFound' /\ RegistryIsComplete'
  BY <1>1, <1>3 DEF IInv, TransientIsFound, RegistryIsComplete, OnMachine, FoundByRefresh,
                    configurationVars
<1>8. HandedIsKept'
  BY <1>1, <1>5 DEF IInv, TransientIsFound, HandedIsKept
<1>9. \A t \in DOMAIN thread : thread[t].pc = "write" /\ LocatorAt(t) \in Synced => ~Handed(LocatorAt(t))'
  <2> SUFFICES ASSUME NEW t \in DOMAIN thread, thread[t].pc = "write", LocatorAt(t) \in Synced
               PROVE  ~Handed(LocatorAt(t))'
    OBVIOUS
  <2>1. OnMachine(LocatorAt(t)) /\ LocatorAt(t)' = LocatorAt(t)
    BY <1>1, SameLocator DEF LocatorAt, Asking
  <2> DEFINE l == LocatorAt(t)
  <2>2. ~Handed(l)'
    <3> HIDE DEF l
    <3>1. \A k \in Synced : OnMachine(k) => ~Handed(k)'
      BY <1>5
    <3> QED
      BY <2>1, <3>1 DEF Handed, l
  <2> QED
    BY <2>2
<1>10. refresh'.phase \in {"syncing", "synced", "skipped"} /\ refresh'.phase # "synced"
         /\ refresh.phase # "none"
  BY <1>1, <1>3
<1> QED
  BY <1>1, <1>3, <1>6, <1>7, <1>8, <1>9, <1>10, SyncStep

(* In a sync, all threads of the refresh are over.                          *)
LEMMA SyncingThreads ==
  ASSUME IInv, refresh.phase = "syncing", NEW t \in DOMAIN thread, GraphOf(t) = "transient"
  PROVE  thread[t].pc = "done"
  BY SoundThread DEF Placed

LEMMA EndSyncStep ==
  ASSUME IInv, EndSync
  PROVE  IInv'
<1>1. /\ refresh.phase = "syncing" /\ refresh.sync = <<>>
      /\ UNCHANGED <<scenario, now, configurationVars, hatch, caches, thread, overtaken, late, reports>>
      /\ The' = The /\ Current' = Current
  BY DEF EndSync, The, Current
<1>2. /\ DOMAIN refresh' = DOMAIN refresh /\ refresh'.phase = "synced"
      /\ refresh'.since = refresh.since /\ refresh'.generation = refresh.generation
      /\ refresh'.sync = refresh.sync
  BY DEF EndSync, IInv, Shape
<1>3. \A l : Handed(l)' => Handed(l)
  BY <1>1, <1>2 DEF Handed
<1>4. Shape'
  BY <1>1, <1>2 DEF IInv, Shape, configurationVars
<1>5. TransientIsFound' /\ RegistryIsComplete'
  BY <1>1, <1>2 DEF IInv, TransientIsFound, RegistryIsComplete, OnMachine, FoundByRefresh,
                    configurationVars
<1>6. HandedIsKept'
  BY <1>1, <1>2, <1>3 DEF IInv, HandedIsKept, Settled, configurationVars
<1>7. \A t \in DOMAIN thread : Handed(LocatorAt(t))' => Handed(LocatorAt(t))
  BY <1>1, <1>2 DEF Handed, LocatorAt, Asking
<1>8. \A t \in DOMAIN thread : GraphOf(t) = "transient" => thread[t].pc = "done"
  BY <1>1, SyncingThreads
<1> QED
  BY <1>1, <1>2, <1>4, <1>5, <1>6, <1>7, <1>8, SyncStep

LEMMA SyncLocatorStep ==
  ASSUME IInv, SyncLocator
  PROVE  IInv'
<1> DEFINE first == Head(refresh.sync)
           scope == SyncScope(The.refresh)
           replaces == Covers(scope, first)
           merges == scope = "Workspace" /\ first = "Poetry" /\ caches["transient"]["Poetry"] # None
           result == CASE merges -> refresh.merging
                       [] replaces -> caches["transient"][first]
                       [] OTHER -> caches["shared"][first]
           held == {t \in DOMAIN thread :
                      GraphOf(t) = "shared" /\ At(t, "write") /\ LocatorAt(t) = first}
<1>1. /\ refresh.phase = "syncing" /\ refresh.sync # <<>>
      /\ UNCHANGED <<scenario, now, configurationVars, hatch, thread, reports>>
      /\ The' = The /\ Current' = Current
  BY DEF SyncLocator, The, Current
<1>2. /\ DOMAIN refresh = {"phase", "generation", "since", "sync", "merging"}
      /\ refresh.sync \in Seq(Synced) /\ refresh.generation \in Nat /\ refresh.since \in Nat
      /\ DOMAIN caches = Graphs /\ \A g \in Graphs : DOMAIN caches[g] = Remembering
      /\ Synced \subseteq Remembering /\ "shared" \in Graphs /\ "transient" \in Graphs
  BY DEF IInv, Shape, Synced, Remembering, StatefulLocators, Graphs
<1>3. /\ first \in Synced /\ Tail(refresh.sync) \in Seq(Synced)
      /\ \A i \in DOMAIN refresh.sync :
           refresh.sync[i] = first \/ \E j \in DOMAIN Tail(refresh.sync) : Tail(refresh.sync)[j] = refresh.sync[i]
  <2> DEFINE s == refresh.sync
  <2>1. s \in Seq(Synced) /\ s # <<>>
    BY <1>1, <1>2
  <2> HIDE DEF s
  <2>2. /\ Head(s) \in Synced /\ Tail(s) \in Seq(Synced) /\ Head(s) = s[1]
        /\ Len(s) \in Nat /\ DOMAIN s = 1..Len(s) /\ DOMAIN Tail(s) = 1..(Len(s) - 1)
        /\ \A j \in 1..(Len(s) - 1) : Tail(s)[j] = s[j + 1]
    BY <2>1
  <2>3. ASSUME NEW i \in DOMAIN s, i # 1
        PROVE  i - 1 \in DOMAIN Tail(s) /\ Tail(s)[i - 1] = s[i]
    BY <2>2, <2>3
  <2>4. \A i \in DOMAIN s : s[i] = Head(s) \/ \E j \in DOMAIN Tail(s) : Tail(s)[j] = s[i]
    BY <2>2, <2>3
  <2> QED
    BY <2>2, <2>4 DEF s
<1>4. \A t \in DOMAIN thread : GraphOf(t) = "transient" => thread[t].pc = "done"
  BY <1>1, SyncingThreads
<1>5. \A t \in DOMAIN thread : LocatorAt(t)' = LocatorAt(t)
  BY <1>1 DEF LocatorAt, Asking
<1>6. CASE merges /\ refresh.merging = None
  <2>1. UNCHANGED <<caches, overtaken, late>>
    BY <1>6 DEF SyncLocator
  <2>2. /\ DOMAIN refresh' = DOMAIN refresh /\ refresh'.phase = refresh.phase
        /\ refresh'.since = refresh.since /\ refresh'.generation = refresh.generation
        /\ refresh'.sync = refresh.sync
    BY <1>2, <1>6 DEF SyncLocator
  <2>3. \A l : Handed(l)' => Handed(l)
    BY <1>1, <2>2 DEF Handed
  <2>4. Shape'
    BY <1>1, <2>1, <2>2 DEF IInv, Shape, configurationVars
  <2>5. TransientIsFound' /\ RegistryIsComplete'
    BY <1>1, <2>1, <2>2 DEF IInv, TransientIsFound, RegistryIsComplete, OnMachine, FoundByRefresh,
                            configurationVars
  <2>6. HandedIsKept'
    BY <1>1, <2>1, <2>2, <2>3 DEF IInv, HandedIsKept, Settled, configurationVars
  <2>7. \A t \in DOMAIN thread : Handed(LocatorAt(t))' => Handed(LocatorAt(t))
    BY <1>1, <2>2, <1>5 DEF Handed
  <2> QED
    BY <1>1, <1>4, <2>1, <2>2, <2>4, <2>5, <2>6, <2>7, SyncStep
<1>7. CASE ~(merges /\ refresh.merging = None)
  <2>1. /\ caches' = [caches EXCEPT !["shared"][first] = result]
        /\ overtaken' = overtaken \cup held /\ late' = late \ {first}
        /\ refresh' = [refresh EXCEPT !.sync = Tail(@), !.merging = None]
    BY <1>7 DEF SyncLocator
  <2>2. replaces => result = caches["transient"][first]
    BY <1>3, CoveredHasNoPaths
  <2>3. first = "WindowsRegistry" => result \in {caches["transient"][first], caches["shared"][first]}
    OBVIOUS
  <2> HIDE DEF result, replaces, merges, first
  <2>4. /\ DOMAIN refresh' = DOMAIN refresh /\ refresh'.phase = refresh.phase
        /\ refresh'.since = refresh.since /\ refresh'.generation = refresh.generation
        /\ refresh'.sync = Tail(refresh.sync)
    BY <1>2, <2>1
  <2>5. /\ DOMAIN caches' = Graphs /\ \A g \in Graphs : DOMAIN caches'[g] = Remembering
        /\ caches'["transient"] = caches["transient"]
        /\ \A l \in Remembering : caches'["shared"][l] = IF l = first THEN result ELSE caches["shared"][l]
    BY <1>2, <1>3, <2>1
  <2>6. \A l : l # first /\ Handed(l)' => Handed(l)
    <3> SUFFICES ASSUME NEW l, l # first, Handed(l)' PROVE Handed(l)
      OBVIOUS
    <3>1. \A j \in DOMAIN Tail(refresh.sync) : Tail(refresh.sync)[j] # l
      BY <2>4 DEF Handed
    <3>2. \A i \in DOMAIN refresh.sync : refresh.sync[i] # l
      BY <1>3, <3>1, Zenon
    <3> QED
      BY <1>1, <3>2 DEF Handed
  <2>7. Shape'
    BY <1>1, <1>2, <1>3, <2>4, <2>5 DEF IInv, Shape, configurationVars
  <2>8. TransientIsFound'
    BY <1>1, <2>4, <2>5 DEF IInv, TransientIsFound, OnMachine, FoundByRefresh, configurationVars
  <2>9. RegistryIsComplete'
    BY <1>2, <2>3, <2>5 DEF IInv, RegistryIsComplete, Graphs, Synced
  <2>10. HandedIsKept'
    <3> SUFFICES ASSUME NEW l \in Synced, Handed(l)', caches'["transient"][l] # None
                 PROVE  (IF l \in {"Poetry", "WindowsStore"}
                           THEN Settled => \/ caches["shared"][l] = Compute(Current, published.config, l)
                                           \/ l \in late
                           ELSE caches["shared"][l] = caches["transient"][l])'
      BY DEF HandedIsKept
    <3>1. /\ Settled' <=> Settled
          /\ published' = published /\ Current' = Current
      BY <1>1, <2>4 DEF Settled, configurationVars
    <3>2. CASE l # first
      BY <1>2, <2>1, <2>5, <2>6, <3>1, <3>2 DEF IInv, HandedIsKept
    <3>3. CASE l = first
      <4>1. Covers(SyncScope(The.refresh), l)
        BY <1>1 DEF Handed
      <4>2. caches'["shared"][l] = caches["transient"][l]
        BY <1>2, <2>2, <2>5, <3>3, <4>1 DEF replaces
      <4>3. FoundByRefresh(l, caches["transient"][l])
        BY <2>5 DEF IInv, TransientIsFound
      <4>4. Settled => caches["transient"][l] = Compute(Current, published.config, l)
        BY <1>1, <4>1, <4>3, FoundIsLatest
      <4> QED
        BY <2>5, <3>1, <4>2, <4>4
    <3> QED
      BY <3>2, <3>3
  <2>11. \A t \in DOMAIN thread :
           /\ GraphOf(t) = "shared" /\ thread[t].pc = "write" /\ LocatorAt(t) \in Synced
           /\ Handed(LocatorAt(t))' /\ t \notin overtaken'
           => Handed(LocatorAt(t)) /\ t \notin overtaken
    <3> SUFFICES ASSUME NEW t \in DOMAIN thread, GraphOf(t) = "shared", thread[t].pc = "write",
                        Handed(LocatorAt(t))', t \notin overtaken'
                 PROVE  Handed(LocatorAt(t)) /\ t \notin overtaken
      OBVIOUS
    <3>1. LocatorAt(t) # first /\ t \notin overtaken
      BY <2>1 DEF At
    <3> DEFINE l == LocatorAt(t)
    <3>2. l # first /\ Handed(l)' => Handed(l)
      BY <1>1, <1>3, <1>5, <2>4 DEF Handed
    <3> QED
      BY <3>1, <3>2
  <2>12. refresh'.phase \in {"syncing", "synced", "skipped"} /\ refresh'.phase # "synced"
           /\ refresh.phase # "none"
    BY <1>1, <2>4
  <2> QED
    BY <1>1, <1>4, <2>4, <2>7, <2>8, <2>9, <2>10, <2>11, <2>12, SyncStep
<1> QED
  BY <1>6, <1>7

-----------------------------------------------------------------------------
(* The invariant.                                                           *)
LEMMA InitInv ==
  ASSUME Init
  PROVE  IInv
<1>1. /\ scenario \in DOMAIN Scenarios /\ now = 1 /\ told = 1 /\ next = None /\ configuring = <<>>
      /\ published = [generation |-> 1,
                      config |-> ConfigureOptions(The.machines[1], The.configurations[1])]
      /\ input = [g \in Graphs |-> published.config]
      /\ hatch = [g \in Graphs |-> HatchConfigured(NewHatch, published.config)]
      /\ caches = [g \in Graphs |-> NewCaches]
      /\ thread = [t \in Threads(The) |-> NewThread]
      /\ refresh = [phase |-> "none", generation |-> 0, since |-> 0, sync |-> <<>>, merging |-> None]
  BY DEF Init
<1>2. 1 \in 1..Len(The.machines)
  BY <1>1, MachineAssumption DEF The
<1>3. /\ DOMAIN NewCaches = Remembering /\ \A l \in Synced : NewCaches[l] = None
      /\ "WindowsRegistry" \in Synced
  BY DEF NewCaches, Synced, Remembering, StatefulLocators
<1>4. \A g \in Graphs : /\ DOMAIN hatch[g] = DOMAIN NewHatch /\ hatch[g].generation = 1
                        /\ DOMAIN hatch[g].parsed = {}
  BY <1>1, FieldsAre DEF HatchConfigured, NewHatch, Nothing
<1>5. /\ DOMAIN refresh = {"phase", "generation", "since", "sync", "merging"}
      /\ refresh.phase = "none" /\ refresh.generation = 0 /\ refresh.since = 0 /\ refresh.sync = <<>>
  BY <1>1
<1>6. published.generation = 1 /\ \A g \in Graphs : input[g] = published.config /\ caches[g] = NewCaches
  BY <1>1
<1>7. "shared" \in Graphs /\ "transient" \in Graphs
  BY DEF Graphs
<1>8. Shape
  BY <1>1, <1>2, <1>3, <1>4, <1>5, <1>6 DEF Shape
<1>9. InputIsConfiguration /\ RefreshHasConfiguration
  BY <1>1, <1>5, <1>6, <1>7 DEF InputIsConfiguration, RefreshHasConfiguration
<1>10. TransientIsFound /\ RegistryIsComplete
  BY <1>3, <1>6, <1>7 DEF TransientIsFound, RegistryIsComplete
<1>11. HandedIsKept
  BY <1>5 DEF HandedIsKept, Handed
<1>12. HatchEntriesAreCurrent
  BY <1>4 DEF HatchEntriesAreCurrent
<1>13. ThreadsAreSound
  <2> SUFFICES ASSUME NEW t \in DOMAIN thread PROVE Sound(t, thread[t])
    BY DEF ThreadsAreSound
  <2> DEFINE th == thread[t]
  <2>1. /\ DOMAIN th = Fields /\ th.pc = "idle" /\ th.position = 0 /\ th.generation = 0
        /\ th.reported = <<>>
    BY <1>1 DEF Fields, NewThread
  <2> HIDE DEF th
  <2>2. Placed(t, th) /\ ReportsOnce(t, th)
    BY <1>5, <2>1 DEF Placed, ReportsOnce, Labels
  <2> QED
    BY <2>1, <2>2, KnowsNothing DEF th
<1> QED
  BY <1>8, <1>9, <1>10, <1>11, <1>12, <1>13 DEF IInv

LEMMA StutteringStep ==
  ASSUME IInv,
         UNCHANGED <<scenario, now, configurationVars, hatch, caches, thread, refresh, overtaken, late>>
  PROVE  IInv'
<1>1. /\ UNCHANGED <<scenario, now, published, next, configuring, input, told, hatch, caches, thread,
                     refresh, overtaken, late>>
      /\ The' = The /\ Current' = Current
  BY DEF configurationVars, The, Current
<1>2. ThreadsAreSound'
  BY <1>1 DEF IInv, ThreadsAreSound, Sound, Placed, Asks, ReportsOnce, HoldsEntry, HoldsResult,
              Asking, OnMachine, ReadSince, Since, FoundByRefresh, Handed, Settled
<1>3. Shape' /\ InputIsConfiguration' /\ RefreshHasConfiguration'
  BY <1>1 DEF IInv, Shape, InputIsConfiguration, RefreshHasConfiguration
<1>4. TransientIsFound' /\ RegistryIsComplete' /\ HandedIsKept'
  BY <1>1 DEF IInv, TransientIsFound, RegistryIsComplete, HandedIsKept, OnMachine, FoundByRefresh,
              Handed, Settled
<1>5. HatchEntriesAreCurrent'
  BY <1>1 DEF IInv, HatchEntriesAreCurrent, ReadSince, Since
<1> QED
  BY <1>2, <1>3, <1>4, <1>5 DEF IInv

LEMMA NextInv ==
  ASSUME IInv, [Next]_vars
  PROVE  IInv'
<1>1. CASE ChangeMachine
  BY <1>1, ChangeMachineStep
<1>2. CASE Configure
  BY <1>2, ReceiveConfigureStep, ConfigurePoetryStep, ConfigureHatchStep, PublishStep DEF Configure
<1>3. CASE Refresh
  BY <1>3, StartRefreshStep, BeginSyncStep, SyncLocatorStep, EndSyncStep DEF Refresh
<1>4. CASE SearchEverything
  BY <1>4, StutteringStep DEF SearchEverything
<1>5. ASSUME NEW t \in DOMAIN thread, Begin(t) \/ Step(t) PROVE IInv'
  BY <1>5, BeginStep, ContinueStep, UseStep, ClearStep, LookAtCacheStep, SearchStep, WriteStep,
     SearchRegistryStep, WriteRegistryStep, OtherCachesStep, LookForWorkspaceStep,
     ParseWorkspaceStep, WriteWorkspaceStep, UseWorkspacesStep DEF Step
<1>6. CASE UNCHANGED vars
  BY <1>6, StutteringStep DEF vars
<1>7. CASE Quiescent
  BY <1>6, <1>7 DEF Quiescent
<1> QED
  BY <1>1, <1>2, <1>3, <1>4, <1>5, <1>6, <1>7 DEF Next

(* However threads, configures, syncs and changes of the machine            *)
(* interleave, what is known of every thread, cache and handover stays      *)
(* true.                                                                    *)
THEOREM LocatorsInvariance == Spec => []IInv
  BY InitInv, NextInv, PTL DEF Spec

(* A find of WindowsRegistry reports what it found once, and no graph keeps *)
(* a walk that lost a company to a panic (did_walk and had_panic of         *)
(* find_with_cache, crates/pet-windows-registry/src/lib.rs).                *)
THEOREM RegistryIsReportedOnce == Spec => []RegistryReportedOnce
<1>1. ASSUME IInv PROVE RegistryReportedOnce
  <2>1. ASSUME NEW t \in DOMAIN thread, Finds(t), t[2] = "WindowsRegistry", At(t, "done")
        PROVE  Len(thread[t].reported) = IF Covers(SyncScope(The.refresh), t[2]) THEN 1 ELSE 0
    <3>1. Len(<<>>) = 0
      OBVIOUS
    <3>2. ReportsOnce(t, thread[t])
      BY <1>1, SoundThread
    <3> QED
      BY <2>1, <3>1, <3>2 DEF ReportsOnce, At
  <2>2. RegistryIsComplete
    BY <1>1 DEF IInv
  <2> QED
    BY <2>1, <2>2 DEF RegistryReportedOnce, RegistryIsComplete
<1> QED
  BY <1>1, LocatorsInvariance, PTL

(* Hatch never keeps what it read before it was configured, in either graph *)
(* (the generation check of workspace_entry, crates/pet-hatch/src/lib.rs).  *)
THEOREM HatchKeepsCurrentEntries == Spec => []HatchEntriesAreCurrent
<1>1. IInv => HatchEntriesAreCurrent
  BY DEF IInv
<1> QED
  BY <1>1, LocatorsInvariance, PTL

(* When a refresh has synced and nothing has changed, the shared locators   *)
(* in its scope that it found something with remember what a search finds,  *)
(* but for Poetry and WindowsStore after a resolve that was overtaken       *)
(* (sync_refresh_state_from and find_with_cache).                           *)
THEOREM SyncHandsOverTheLatest == Spec => []SyncedCachesAreLatest
<1>1. ASSUME IInv PROVE SyncedCachesAreLatest
  <2> SUFFICES ASSUME refresh.phase = "synced", Settled, NEW l \in Synced,
                      Covers(SyncScope(The.refresh), l), caches["transient"][l] # None
               PROVE  \/ caches["shared"][l] = Compute(Current, published.config, l)
                      \/ l \in late \cap {"Poetry", "WindowsStore"}
    BY DEF SyncedCachesAreLatest
  <2>1. Handed(l)
    <3>1. refresh.sync = <<>>
      BY <1>1 DEF IInv, RefreshHasConfiguration
    <3>2. DOMAIN refresh.sync = {}
      BY <3>1
    <3> QED
      BY <3>2 DEF Handed
  <2>2. CASE l \in {"Poetry", "WindowsStore"}
    BY <1>1, <2>1, <2>2 DEF IInv, HandedIsKept
  <2>3. CASE l \notin {"Poetry", "WindowsStore"}
    <3>1. caches["shared"][l] = caches["transient"][l]
      BY <1>1, <2>1, <2>3 DEF IInv, HandedIsKept
    <3>2. FoundByRefresh(l, caches["transient"][l])
      BY <1>1 DEF IInv, TransientIsFound
    <3> QED
      BY <1>1, <3>1, <3>2, FoundIsLatest
  <2> QED
    BY <2>2, <2>3
<1> QED
  BY <1>1, LocatorsInvariance, PTL
===============================================================================
