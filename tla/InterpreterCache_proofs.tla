------------------------ MODULE InterpreterCache_proofs ------------------------
(***************************************************************************)
(* Proofs about the interpreter cache, for any number of paths, calls and   *)
(* server processes on one cache directory, any number of writes per file,  *)
(* and any number of upgrades, clears and crashes: an answer is about the    *)
(* interpreter that was asked for, and it is stale only if the interpreter   *)
(* changed between its spawn and the store, unless it was read from a file   *)
(* that two calls were writing.  The invariant follows details from the      *)
(* Python that printed them through table entries and cache files into the   *)
(* answers.                                                                  *)
(***************************************************************************)
EXTENDS InterpreterCache, TLAPS

(* No environment, entry, file content or answer is mistaken for none.        *)
LEMMA Fields ==
  /\ \A f \in Findings : /\ f # None /\ f # Torn
                         /\ f.env \in Environments /\ f.stamps \in StampSets
  /\ \A e \in Entries : /\ e # None /\ e.dir \in BOOLEAN
                        /\ e.env \in Environments \cup {None} /\ e.stamps \in StampSets
  /\ \A a \in Answers : /\ a # None /\ a.env \in Environments \cup {None}
                        /\ a.cached \in BOOLEAN /\ a.now \in Nat
  /\ \A v \in Environments : /\ v # None /\ v.executable \in Paths
                             /\ v.version \in Nat /\ v.symlinks \in SUBSET Paths
  /\ \A t \in Contents : t # None
  BY NothingIsNone DEF Findings, Entries, Answers, Environments

(* A call's path, entry and file exist.                                       *)
LEMMA Places ==
  ASSUME IInv, NEW c \in Calls
  PROVE  /\ Path(c) \in Paths /\ Slot(c) \in Slots /\ File(c) \in Files
         /\ asked[c] \in Paths /\ SysExecutable[asked[c]] \in Paths
         /\ version[Target[SysExecutable[asked[c]]]] \in Nat
         /\ Slot(c)[2] = Path(c)
<1>1. Path(c) \in Paths
  BY Fields DEF IInv, TypeOK, AnswerIsSound, Path
<1>2. QED
  BY <1>1, InterpreterAssumption DEF IInv, TypeOK, Slot, Slots, File

(* Soundness of details under given histories.                                *)
ProperIn(env, m) ==
  /\ env.version # 0
  /\ Target[SysExecutable[env.executable]] = Target[env.executable]
  /\ Identity(env) \in m \/
       /\ env.executable \in env.symlinks
       /\ \A q \in env.symlinks : Target[SysExecutable[q]] = Target[env.executable]

AboutIn(env, p, m) ==
  Identity(env) \in m \/ Target[env.executable] = Target[SysExecutable[p]]

BackedIn(env, stamps, h) ==
  \/ Identity(env) \in h
  \/ \E s \in stamps : Target[s[1]] = Target[env.executable] /\ s[2] = env.version

(* What was sound stays so: histories only grow.                              *)
LEMMA SoundStays ==
  ASSUME raced \subseteq raced', mixed \subseteq mixed', NEW env
  PROVE  /\ Proper(env) => ProperIn(env, mixed')
         /\ \A p \in Paths : IsAbout(env, p) => AboutIn(env, p, mixed')
         /\ \A stamps : Backed(env, stamps) => BackedIn(env, stamps, raced' \cup mixed')
  BY DEF Proper, ProperIn, IsAbout, AboutIn, Backed, BackedIn

(* Symlinks of proper details lead to what they are about.                    *)
LEMMA ProperSymlinks ==
  ASSUME NEW env, NEW m, ProperIn(env, m), NEW q \in env.symlinks
  PROVE  AboutIn(env, q, m)
  BY DEF ProperIn, AboutIn

LEMMA InitIInv == Init => IInv
<1> SUFFICES ASSUME Init PROVE IInv
  OBVIOUS
<1>1. TypeOK
  BY InterpreterAssumption DEF Init, TypeOK
<1>2. EntriesAreSound /\ FilesAreSound
  BY DEF Init, EntriesAreSound, FilesAreSound
<1>3. \A c \in Calls : HeldIsSound(c) /\ AnswerIsSound(c)
  BY DEF Init, HeldIsSound, AnswerIsSound
<1>4. QED
  BY <1>1, <1>2, <1>3 DEF IInv

-----------------------------------------------------------------------------
(* A step of a call leaves the other calls where they are.                    *)
OthersStay(c) ==
  \A d \in Calls \ {c} : UNCHANGED <<pc[d], tracking[d], era[d], found[d], result[d]>>

LEMMA CallFrame ==
  ASSUME IInv, NEW c \in Calls, UNCHANGED <<server, asked>>, OthersStay(c),
         raced \subseteq raced', mixed \subseteq mixed',
         \A k \in Slots : entries[k] # None => entries'[k] # None,
         TypeOK', EntriesAreSound', FilesAreSound', HeldIsSound(c)', AnswerIsSound(c)'
  PROVE  IInv'
<1>1. ASSUME NEW d \in Calls, d # c PROVE HeldIsSound(d)' /\ AnswerIsSound(d)'
  <2>1. /\ UNCHANGED <<pc[d], tracking[d], era[d], found[d], result[d], server[d], asked[d]>>
        /\ HeldIsSound(d) /\ AnswerIsSound(d) /\ Slot(d) \in Slots
    BY <1>1, Places DEF OthersStay, IInv
  <2>2. Slot(d)' = Slot(d) /\ Path(d)' = Path(d)
    BY <2>1 DEF Slot, Path
  <2>3. HeldIsSound(d)'
    BY <2>1, <2>2 DEF HeldIsSound, Backed, Proper, IsAbout
  <2>4. AnswerIsSound(d)'
    BY <2>1 DEF AnswerIsSound, Proper, IsAbout
  <2>5. QED
    BY <2>3, <2>4
<1>2. QED
  BY <1>1 DEF IInv

-----------------------------------------------------------------------------
(* How a call goes on.  Locals is the part of TypeOK this touches.            *)
Locals ==
  /\ holder \in [Slots -> Calls \cup {None}]
  /\ pc \in [Calls -> {"directory", "entry", "lock", "verify", "open", "check", "spawn", "store",
                       "create", "write", "done", "panicked", "killed"}]
  /\ tracking \in [Calls -> BOOLEAN]
  /\ found \in [Calls -> Findings \cup {None}]
  /\ result \in [Calls -> Answers \cup {None}]

CallIsSound(c) == HeldIsSound(c) /\ AnswerIsSound(c)

(* `from` returns details of its path; from the cache only current ones, but   *)
(* for the race.                                                               *)
LEMMA ReturnSound ==
  ASSUME IInv, NEW c \in Calls, NEW env \in Environments \cup {None}, NEW cached \in BOOLEAN,
         Return(c, env, cached), UNCHANGED <<server, asked, era>>,
         raced \subseteq raced', mixed \subseteq mixed',
         env # None => Proper(env) /\ IsAbout(env, asked[c]),
         cached => /\ env # None
                   /\ \/ version[Target[SysExecutable[asked[c]]]] \in {0, env.version}
                      \/ Identity(env) \in raced' \cup mixed'
  PROVE  Locals' /\ OthersStay(c) /\ CallIsSound(c)'
<1>0. TypeOK /\ Slot(c) \in Slots /\ version[Target[SysExecutable[asked[c]]]] \in Nat
  BY Places DEF IInv
<1> DEFINE answer == [env |-> env, cached |-> cached, now |-> version[Target[SysExecutable[asked[c]]]]]
<1>1. answer \in Answers
  BY <1>0 DEF Answers
<1>2. /\ result' = [result EXCEPT ![c] = answer]
      /\ tracking' = [tracking EXCEPT ![c] = (env # None)]
      /\ found' = [found EXCEPT ![c] = None]
      /\ holder' = [holder EXCEPT ![Slot(c)] = None]
      /\ \E label \in {"done", "directory"} : pc' = [pc EXCEPT ![c] = label]
  BY DEF Return, Goto
<1> HIDE DEF answer
<1>3. /\ result'[c] = answer /\ tracking'[c] = (env # None)
      /\ pc'[c] \in {"done", "directory"} /\ asked'[c] = asked[c]
  BY <1>0, <1>2 DEF TypeOK
<1>4. Locals'
  BY <1>0, <1>1, <1>2 DEF TypeOK, Locals
<1>5. OthersStay(c)
  BY <1>0, <1>2 DEF TypeOK, OthersStay
<1>6. HeldIsSound(c)'
  BY <1>3 DEF HeldIsSound
<1>7. AnswerIsSound(c)'
  <2>1. /\ result'[c].env = env /\ result'[c].cached = cached
        /\ result'[c].now = version[Target[SysExecutable[asked[c]]]]
    BY <1>3 DEF answer
  <2>2. result'[c] # None
    BY <1>1, <1>3, Fields
  <2>3. QED
    BY <1>3, <2>1, <2>2 DEF AnswerIsSound, Proper, IsAbout
<1>8. QED
  BY <1>4, <1>5, <1>6, <1>7 DEF CallIsSound

(* track_symlinks returns nothing.                                             *)
LEMMA ReturnTrackedSound ==
  ASSUME IInv, NEW c \in Calls, ReturnTracked(c), UNCHANGED <<server, asked, era>>, raced \subseteq raced', mixed \subseteq mixed'
  PROVE  Locals' /\ OthersStay(c) /\ CallIsSound(c)'
<1>0. TypeOK /\ Slot(c) \in Slots /\ AnswerIsSound(c)
  BY Places DEF IInv
<1>1. Locals' /\ OthersStay(c) /\ pc'[c] = "done"
  BY <1>0 DEF TypeOK, ReturnTracked, Goto, Locals, OthersStay
<1>2. HeldIsSound(c)'
  BY <1>1 DEF HeldIsSound
<1>3. AnswerIsSound(c)'
  BY <1>0 DEF AnswerIsSound, ReturnTracked, Proper, IsAbout
<1>4. QED
  BY <1>1, <1>2, <1>3 DEF CallIsSound

(* A call goes on under the guard of its entry.                                *)
LEMMA GoOnSound ==
  ASSUME IInv, NEW c \in Calls, NEW value \in Findings \cup {None},
         NEW label \in {"open", "check", "spawn", "store", "create", "write"},
         GoOn(c, label, value), UNCHANGED <<server, asked, era>>, raced \subseteq raced', mixed \subseteq mixed',
         entries'[Slot(c)] # None,
         label = "spawn" => ~tracking[c],
         label \in {"check", "store", "create", "write"} =>
           value # None /\ ProperIn(value.env, mixed') /\ AboutIn(value.env, Path(c), mixed'),
         label \in {"check", "create", "write"} => BackedIn(value.env, value.stamps, raced' \cup mixed')
  PROVE  Locals' /\ OthersStay(c) /\ CallIsSound(c)'
<1>0. TypeOK /\ AnswerIsSound(c)
  BY DEF IInv
<1>1. Locals' /\ OthersStay(c) /\ pc'[c] = label /\ found'[c] = value
  BY <1>0 DEF TypeOK, GoOn, Goto, Locals, OthersStay
<1>2. UNCHANGED <<Path(c), Slot(c), tracking[c]>>
  BY DEF Path, Slot, GoOn
<1>3. HeldIsSound(c)'
  BY <1>1, <1>2 DEF HeldIsSound, Proper, ProperIn, IsAbout, AboutIn, Backed, BackedIn
<1>4. AnswerIsSound(c)'
  BY <1>0 DEF AnswerIsSound, GoOn, Proper, IsAbout
<1>5. QED
  BY <1>1, <1>3, <1>4 DEF CallIsSound

(* Nothing valid is cached.                                                    *)
LEMMA MissSound ==
  ASSUME IInv, NEW c \in Calls, Miss(c), UNCHANGED <<server, asked, era>>, raced \subseteq raced', mixed \subseteq mixed',
         entries'[Slot(c)] # None
  PROVE  Locals' /\ OthersStay(c) /\ CallIsSound(c)'
  BY ReturnTrackedSound, GoOnSound DEF Miss

(* What was printed is returned.                                               *)
LEMMA FinishSound ==
  ASSUME IInv, NEW c \in Calls, Finish(c), UNCHANGED <<server, asked, era>>, raced \subseteq raced', mixed \subseteq mixed',
         pc[c] \in {"store", "create", "write"}
  PROVE  Locals' /\ OthersStay(c) /\ CallIsSound(c)'
<1>1. CASE tracking[c]
  BY <1>1, ReturnTrackedSound DEF Finish
<1>2. CASE ~tracking[c]
  <2>1. /\ found[c] \in Findings /\ Proper(found[c].env) /\ IsAbout(found[c].env, asked[c])
    BY <1>2 DEF IInv, TypeOK, HeldIsSound, Path
  <2>2. found[c].env \in Environments
    BY <2>1, Fields
  <2>3. Return(c, found[c].env, FALSE)
    BY <1>2 DEF Finish
  <2>4. QED
    BY <2>1, <2>2, <2>3, ReturnSound
<1>3. QED
  BY <1>1, <1>2

-----------------------------------------------------------------------------
(* create_cache.                                                               *)
LEMMA ReadDirectoryIInv ==
  ASSUME IInv, NEW c \in Calls, ReadDirectory(c)
  PROVE  IInv'
<1> USE DEF ReadDirectory, Goto, history, worldVars, processVars, entryVars, fileVars
<1>1. TypeOK'
  BY DEF IInv, TypeOK
<1>2. EntriesAreSound' /\ FilesAreSound'
  BY DEF IInv, EntriesAreSound, FilesAreSound, Backed, Proper, IsAbout, history
<1>3. pc'[c] = "entry" /\ OthersStay(c)
  BY DEF IInv, TypeOK, OthersStay
<1>4. HeldIsSound(c)'
  BY <1>3 DEF HeldIsSound
<1>5. AnswerIsSound(c)'
  BY DEF IInv, AnswerIsSound, Proper, IsAbout
<1>6. QED
  BY <1>1, <1>2, <1>3, <1>4, <1>5, CallFrame

(* A new entry holds nothing.                                                  *)
LEMMA ClaimEntryIInv ==
  ASSUME IInv, NEW c \in Calls, ClaimEntry(c)
  PROVE  IInv'
<1> DEFINE k == <<server[c], Path(c), epoch[server[c]]>>
           new == IF entries[k] = None THEN [dir |-> dir[c], env |-> None, stamps |-> {}] ELSE entries[k]
<1>0. TypeOK /\ k \in Slots /\ epoch[server[c]] \in 0..MaxEvents
  BY Places DEF IInv, TypeOK, Slots
<1>1. /\ entries' = [entries EXCEPT ![k] = new]
      /\ era' = [era EXCEPT ![c] = epoch[server[c]]] /\ dir' = [dir EXCEPT ![c] = FALSE]
      /\ pc' = [pc EXCEPT ![c] = "lock"]
      /\ UNCHANGED <<server, asked, clock, version, cacheDir, epoch, clearing, alive, holder,
                     poisoned, files, writers, written, tracking, found, result, raced, mixed>>
  BY DEF ClaimEntry, Goto, history, worldVars, processVars, fileVars
<1>2. new \in Entries /\ new # None /\ (new.env # None => entries[k] # None /\ new = entries[k])
  <2>1. CASE entries[k] = None
    <3>1. [dir |-> dir[c], env |-> None, stamps |-> {}] \in Entries
      BY <1>0 DEF Entries, TypeOK, StampSets
    <3>2. QED
      BY <2>1, <3>1, Fields
  <2>2. CASE entries[k] # None
    BY <1>0, <2>2 DEF TypeOK
  <2>3. QED
    BY <2>1, <2>2
<1> HIDE DEF new
<1>3. \A l \in Slots : entries'[l] = IF l = k THEN new ELSE entries[l]
  BY <1>0, <1>1 DEF TypeOK
<1>4. TypeOK'
  BY <1>0, <1>1, <1>2 DEF TypeOK
<1>5. EntriesAreSound'
  BY <1>1, <1>2, <1>3 DEF IInv, EntriesAreSound, Backed, Proper, IsAbout
<1>6. FilesAreSound'
  BY <1>1 DEF IInv, FilesAreSound, Backed, Proper
<1>7. pc'[c] = "lock" /\ OthersStay(c) /\ era'[c] = epoch[server[c]]
  BY <1>0, <1>1 DEF TypeOK, OthersStay
<1>8. HeldIsSound(c)'
  <2>1. Slot(c)' = k
    BY <1>1, <1>7 DEF Slot, Path
  <2>2. entries'[Slot(c)'] # None
    BY <1>0, <1>2, <1>3, <2>1
  <2>3. QED
    BY <1>7, <2>2 DEF HeldIsSound
<1>9. AnswerIsSound(c)'
  BY <1>1 DEF IInv, AnswerIsSound, Proper, IsAbout
<1>10. QED
  BY <1>1, <1>2, <1>3, <1>4, <1>5, <1>6, <1>7, <1>8, <1>9, CallFrame

(* The mutex of the entry.                                                     *)
LEMMA LockEntryIInv ==
  ASSUME IInv, NEW c \in Calls, LockEntry(c)
  PROVE  IInv'
<1> USE DEF LockEntry, Goto, history, worldVars, processVars, fileVars
<1>1. TypeOK'
  BY Places DEF IInv, TypeOK
<1>2. EntriesAreSound' /\ FilesAreSound'
  BY DEF IInv, EntriesAreSound, FilesAreSound, Backed, Proper, IsAbout, history
<1>3. pc[c] = "lock" /\ pc'[c] = "verify" /\ OthersStay(c) /\ UNCHANGED <<Slot(c), Path(c)>>
  BY DEF IInv, TypeOK, OthersStay, Slot, Path
<1>4. HeldIsSound(c)'
  BY <1>3 DEF IInv, HeldIsSound
<1>5. AnswerIsSound(c)'
  BY DEF IInv, AnswerIsSound, Proper, IsAbout
<1>6. QED
  BY <1>1, <1>2, <1>3, <1>4, <1>5, CallFrame

LEMMA LockPoisonedIInv ==
  ASSUME IInv, NEW c \in Calls, LockPoisoned(c)
  PROVE  IInv'
<1> USE DEF LockPoisoned, Goto, history, worldVars, processVars, entryVars, fileVars
<1>1. TypeOK'
  BY DEF IInv, TypeOK
<1>2. EntriesAreSound' /\ FilesAreSound'
  BY DEF IInv, EntriesAreSound, FilesAreSound, Backed, Proper, IsAbout, history
<1>3. pc'[c] = "panicked" /\ OthersStay(c)
  BY DEF IInv, TypeOK, OthersStay
<1>4. HeldIsSound(c)'
  BY <1>3 DEF HeldIsSound
<1>5. AnswerIsSound(c)'
  BY DEF IInv, AnswerIsSound, Proper, IsAbout
<1>6. QED
  BY <1>1, <1>2, <1>3, <1>4, <1>5, CallFrame

LEMMA SpawnPanicsIInv ==
  ASSUME IInv, NEW c \in Calls, SpawnPanics(c)
  PROVE  IInv'
<1> USE DEF SpawnPanics, Goto, history, worldVars, processVars, fileVars
<1>1. TypeOK'
  BY Places DEF IInv, TypeOK
<1>2. EntriesAreSound' /\ FilesAreSound'
  BY DEF IInv, EntriesAreSound, FilesAreSound, Backed, Proper, IsAbout, history
<1>3. pc'[c] = "panicked" /\ OthersStay(c)
  BY DEF IInv, TypeOK, OthersStay
<1>4. HeldIsSound(c)'
  BY <1>3 DEF HeldIsSound
<1>5. AnswerIsSound(c)'
  BY DEF IInv, AnswerIsSound, Proper, IsAbout
<1>6. QED
  BY <1>1, <1>2, <1>3, <1>4, <1>5, CallFrame

-----------------------------------------------------------------------------
(* An entry of the table is rewritten; nothing else of it changes.             *)
LEMMA EntryRewritten ==
  ASSUME IInv, NEW k \in Slots, NEW new \in Entries,
         entries' = [entries EXCEPT ![k] = new], raced \subseteq raced', mixed \subseteq mixed',
         new.env # None => ProperIn(new.env, mixed') /\ AboutIn(new.env, k[2], mixed') /\ BackedIn(new.env, new.stamps, raced' \cup mixed')
  PROVE  /\ entries' \in [Slots -> Entries \cup {None}] /\ EntriesAreSound'
         /\ entries'[k] # None
         /\ \A l \in Slots : entries[l] # None => entries'[l] # None
<1>1. \A l \in Slots : entries'[l] = IF l = k THEN new ELSE entries[l]
  BY DEF IInv, TypeOK
<1>2. new # None
  BY Fields
<1>3. EntriesAreSound'
  BY <1>1 DEF IInv, EntriesAreSound, Backed, BackedIn, Proper, ProperIn, IsAbout, AboutIn
<1>4. QED
  BY <1>1, <1>2, <1>3 DEF IInv, TypeOK

(* A cache file that is removed, or whose parts are sound.                     *)
LEMMA FileRewritten ==
  ASSUME IInv, NEW f \in Files, NEW content \in Contents \cup {None},
         files' = [files EXCEPT ![f] = content], raced \subseteq raced', mixed \subseteq mixed',
         \A g \in Files \ {f} : writers'[g] \subseteq writers[g],
         content = None => writers'[f] = {},
         content # None =>
           \A i \in Writes : content[i] # Torn =>
             Proper(content[i].env) /\ Backed(content[i].env, content[i].stamps)
  PROVE  files' \in [Files -> Contents \cup {None}] /\ FilesAreSound'
<1>1. \A g \in Files : files'[g] = IF g = f THEN content ELSE files[g]
  BY DEF IInv, TypeOK
<1>2. ASSUME NEW g \in Files
      PROVE  /\ writers'[g] # {} => files'[g] # None
             /\ files'[g] # None =>
                  \A i \in Writes : files'[g][i] # Torn =>
                    /\ ProperIn(files'[g][i].env, mixed')
                    /\ BackedIn(files'[g][i].env, files'[g][i].stamps, raced' \cup mixed')
  <2>1. CASE g = f
    <3>1. files'[g] = content
      BY <1>1, <2>1
    <3>2. QED
      BY <2>1, <3>1, SoundStays
  <2>2. CASE g # f
    <3>1. files'[g] = files[g] /\ (writers'[g] # {} => writers[g] # {})
      BY <1>1, <2>2
    <3>2. QED
      BY <3>1, SoundStays DEF IInv, FilesAreSound
  <2>3. QED
    BY <2>1, <2>2
<1>3. FilesAreSound'
  BY <1>2 DEF FilesAreSound, Proper, ProperIn, Backed, BackedIn
<1>4. QED
  BY <1>3 DEF IInv, TypeOK

LEMMA FilesStay ==
  ASSUME IInv, UNCHANGED files, \A f \in Files : writers'[f] \subseteq writers[f], raced \subseteq raced', mixed \subseteq mixed'
  PROVE  FilesAreSound'
  BY DEF IInv, FilesAreSound, Backed, Proper

LEMMA EntriesStay ==
  ASSUME IInv, UNCHANGED entries, raced \subseteq raced', mixed \subseteq mixed'
  PROVE  EntriesAreSound'
  BY DEF IInv, EntriesAreSound, Backed, Proper, IsAbout

(* One field of an entry is set.                                               *)
LEMMA EntryEnv ==
  ASSUME NEW e \in Entries, NEW env \in Environments \cup {None}
  PROVE  /\ [e EXCEPT !.env = env] \in Entries
         /\ [e EXCEPT !.env = env].env = env /\ [e EXCEPT !.env = env].stamps = e.stamps
  BY DEF Entries

(* A call that has a guard has its entry.                                      *)
LEMMA EntryIsThere ==
  ASSUME IInv, NEW c \in Calls, pc[c] \in {"verify", "open", "check", "spawn", "store", "create", "write"}
  PROVE  /\ entries[Slot(c)] \in Entries /\ entries[Slot(c)] # None
         /\ entries[Slot(c)].env \in Environments \cup {None}
         /\ entries[Slot(c)].stamps \in StampSets
<1>1. entries[Slot(c)] \in Entries /\ entries[Slot(c)] # None
  BY Places DEF IInv, TypeOK, HeldIsSound
<1>2. QED
  BY <1>1, Fields

(* verify_in_memory_cache: what memory answers is not older than the binary.   *)
LEMMA LookInMemoryIInv ==
  ASSUME IInv, NEW c \in Calls, LookInMemory(c)
  PROVE  IInv'
<1> DEFINE k == Slot(c)
           e == entries[k]
           env == IF Changed(e.stamps) THEN None ELSE e.env
           new == [e EXCEPT !.env = env]
<1>0. /\ TypeOK /\ k \in Slots /\ k[2] = Path(c) /\ File(c) \in Files /\ pc[c] = "verify"
      /\ e \in Entries /\ e # None /\ e.env \in Environments \cup {None} /\ e.stamps \in StampSets
  BY Places, EntryIsThere DEF IInv, LookInMemory
<1>1. /\ entries' = [entries EXCEPT ![k] = new]
      /\ Remove(File(c)) \/ UNCHANGED <<files, writers, written>>
      /\ \/ ~tracking[c] /\ env # None /\ Return(c, env, TRUE)
         \/ ReturnTracked(c)
         \/ GoOn(c, "open", None)
         \/ Miss(c)
      /\ UNCHANGED <<server, asked, clock, version, cacheDir, epoch, clearing, alive, poisoned, dir, era, raced, mixed>>
  BY DEF LookInMemory, Entry, history, worldVars, processVars, fileVars
<1>2. new \in Entries /\ new.env = env /\ new.stamps = e.stamps /\ env \in Environments \cup {None}
  <2>1. env \in Environments \cup {None}
    BY <1>0
  <2> HIDE DEF env, e
  <2>2. QED
    BY <1>0, <2>1, EntryEnv
<1>3. ASSUME env # None
      PROVE  /\ Proper(env) /\ IsAbout(env, Path(c)) /\ Backed(env, e.stamps) /\ ~Changed(e.stamps)
  BY <1>0, <1>3 DEF IInv, EntriesAreSound
<1>4. new.env # None => ProperIn(new.env, mixed') /\ AboutIn(new.env, k[2], mixed') /\ BackedIn(new.env, new.stamps, raced' \cup mixed')
  BY <1>0, <1>1, <1>2, <1>3, Places, SoundStays
<1> HIDE DEF new
<1>5. /\ entries' \in [Slots -> Entries \cup {None}] /\ EntriesAreSound' /\ entries'[k] # None
      /\ \A l \in Slots : entries[l] # None => entries'[l] # None
  BY <1>0, <1>1, <1>2, <1>4, EntryRewritten
<1>6. /\ files' \in [Files -> Contents \cup {None}] /\ FilesAreSound'
      /\ writers' \in [Files -> SUBSET Calls] /\ written' \in [Calls -> 0 .. NumWrites - 1]
  <2>1. CASE Remove(File(c))
    <3>1. files' \in [Files -> Contents \cup {None}] /\ FilesAreSound'
      BY <1>0, <1>1, <2>1, FileRewritten DEF Remove, TypeOK
    <3>2. QED
      BY <1>0, <2>1, <3>1 DEF TypeOK, Remove
  <2>2. CASE UNCHANGED <<files, writers, written>>
    BY <1>0, <1>1, <2>2, FilesStay DEF TypeOK
  <2>3. QED
    BY <1>1, <2>1, <2>2
<1>7. Locals' /\ OthersStay(c) /\ CallIsSound(c)'
  <2>1. CASE ~tracking[c] /\ env # None /\ Return(c, env, TRUE)
    <3>1. IsAbout(env, asked[c]) /\ Proper(env)
      BY <1>3, <2>1 DEF Path
    <3>2. \/ version[Target[SysExecutable[asked[c]]]] \in {0, env.version}
          \/ Identity(env) \in raced' \cup mixed'
      BY <1>1, <1>3, <2>1, <3>1 DEF Backed, BackedIn, Changed, IsAbout
    <3> HIDE DEF env
    <3>3. QED
      BY <1>1, <1>2, <2>1, <3>1, <3>2, ReturnSound
  <2>2. CASE ReturnTracked(c)
    BY <1>1, <2>2, ReturnTrackedSound
  <2>3. CASE GoOn(c, "open", None)
    BY <1>1, <1>5, <2>3, GoOnSound
  <2>4. CASE Miss(c)
    BY <1>1, <1>5, <2>4, MissSound
  <2>5. QED
    BY <1>1, <2>1, <2>2, <2>3, <2>4
<1>8. TypeOK'
  BY <1>0, <1>1, <1>5, <1>6, <1>7 DEF TypeOK, Locals
<1>9. QED
  BY <1>1, <1>5, <1>6, <1>7, <1>8, CallFrame DEF CallIsSound

(* The parts of a file that parses are sound; so are details all of whose      *)
(* fields come from one write, and a hybrid is recorded as such.               *)
LEMMA LoadedSound ==
  ASSUME IInv, NEW c \in Calls, CanParse(c), Load(c), UNCHANGED raced
  PROVE  /\ Deserialized(Content(c)) \in Findings
         /\ mixed \subseteq mixed' /\ mixed' \subseteq Paths \X Nat
         /\ ProperIn(Deserialized(Content(c)).env, mixed')
         /\ BackedIn(Deserialized(Content(c)).env, Deserialized(Content(c)).stamps, raced' \cup mixed')
<1> DEFINE t == Content(c)
           d == Deserialized(t)
           x == t[WriteOf["executable"]]
           v == t[WriteOf["printed"]]
           l == t[WriteOf["symlinks"]]
           w == t[WriteOf["times"]]
<1>1. t \in Contents /\ TypeOK
  BY Places DEF CanParse, Content, IInv, TypeOK
<1>2. \A i \in Writes : t[i] \in Findings /\ Proper(t[i].env) /\ Backed(t[i].env, t[i].stamps)
  BY <1>1, Places DEF CanParse, Parses, Content, Contents, IInv, FilesAreSound
<1>3. /\ WriteOf["executable"] \in Writes /\ WriteOf["printed"] \in Writes
      /\ WriteOf["symlinks"] \in Writes /\ WriteOf["times"] \in Writes
  BY InterpreterAssumption DEF Writes
<1>4. /\ x \in Findings /\ v \in Findings /\ l \in Findings /\ w \in Findings
      /\ Proper(x.env) /\ Proper(v.env) /\ Backed(x.env, x.stamps)
  BY <1>2, <1>3
<1>5. /\ x.env \in Environments /\ v.env \in Environments /\ l.env \in Environments
      /\ w.stamps \in StampSets
  BY <1>4, Fields
<1>6. /\ d = [env |-> [executable |-> x.env.executable, version |-> v.env.version,
                       symlinks |-> l.env.symlinks], stamps |-> w.stamps]
  BY DEF Deserialized
<1>7. mixed' = IF Hybrid(t) THEN mixed \cup {Identity(d.env)} ELSE mixed
  BY DEF Load
<1>8. \/ /\ Hybrid(t) /\ Identity(d.env) \in mixed'
      \/ x = v /\ x = l /\ x = w
  <2>1. CASE Hybrid(t)
    BY <1>7, <2>1
  <2>2. CASE ~Hybrid(t)
    BY <1>3, <2>2 DEF Hybrid
  <2>3. QED
    BY <2>1, <2>2
<1> HIDE DEF t, x, v, l, w, d
<1>9. /\ d \in Findings /\ d.env.executable = x.env.executable /\ d.env.version = v.env.version
      /\ d.env.symlinks = l.env.symlinks /\ d.stamps = w.stamps
      /\ d.env.executable \in Paths /\ d.env.version \in Nat
  BY <1>5, <1>6, Fields DEF Findings, Environments
<1>10. mixed \subseteq mixed' /\ mixed' \subseteq Paths \X Nat
  BY <1>1, <1>7, <1>9 DEF TypeOK, Identity
<1>11. /\ d.env.version # 0
       /\ Target[SysExecutable[d.env.executable]] = Target[d.env.executable]
  BY <1>4, <1>9 DEF Proper
<1>12. CASE Identity(d.env) \in mixed'
  BY <1>9, <1>10, <1>11, <1>12 DEF ProperIn, BackedIn, d, t
<1>13. CASE x = v /\ x = l /\ x = w
  <2>1. Identity(d.env) = Identity(x.env)
    BY <1>9, <1>13 DEF Identity
  <2>2. ProperIn(d.env, mixed')
    BY <1>4, <1>9, <1>10, <1>11, <1>13, <2>1 DEF Proper, ProperIn
  <2>3. BackedIn(d.env, d.stamps, raced' \cup mixed')
    BY <1>4, <1>9, <1>10, <1>13, <2>1 DEF Backed, BackedIn
  <2>4. QED
    BY <1>9, <1>10, <2>2, <2>3 DEF d, t
<1>14. QED
  BY <1>8, <1>12, <1>13

(* get_cache_from_file takes only a file that names the path: whatever other    *)
(* path shares the file's name, its details are about the same binary.          *)
LEMMA OpenFileIInv ==
  ASSUME IInv, NEW c \in Calls, OpenFile(c)
  PROVE  IInv'
<1> DEFINE d == Deserialized(Content(c))
<1>0. TypeOK /\ File(c) \in Files /\ pc[c] = "open" /\ entries[Slot(c)] # None
  BY Places, EntryIsThere DEF IInv, OpenFile
<1>1. UNCHANGED <<server, asked, clock, version, cacheDir, epoch, clearing, alive, entries,
                  poisoned, files, writers, written, dir, era, raced>>
  BY DEF OpenFile, worldVars, processVars, fileVars
<1>2. /\ mixed \subseteq mixed' /\ mixed' \subseteq Paths \X Nat
      /\ Locals' /\ OthersStay(c) /\ CallIsSound(c)'
  <2>1. CASE Miss(c) /\ UNCHANGED mixed
    BY <1>0, <1>1, <2>1, MissSound DEF TypeOK
  <2>2. CASE CanParse(c) /\ Path(c) \in d.env.symlinks /\ Load(c)
    <3>1. /\ d \in Findings /\ mixed \subseteq mixed' /\ mixed' \subseteq Paths \X Nat
          /\ ProperIn(d.env, mixed') /\ BackedIn(d.env, d.stamps, raced' \cup mixed')
      BY <1>1, <2>2, LoadedSound
    <3>2. GoOn(c, "check", d)
      BY <2>2 DEF Load
    <3> HIDE DEF d
    <3>3. AboutIn(d.env, Path(c), mixed')
      BY <2>2, <3>1, ProperSymlinks
    <3>4. d # None
      BY <3>1, Fields
    <3>5. QED
      BY <1>0, <1>1, <3>1, <3>2, <3>3, <3>4, GoOnSound
  <2>3. QED
    BY <2>1, <2>2 DEF OpenFile
<1>3. TypeOK'
  BY <1>0, <1>1, <1>2 DEF TypeOK, Locals
<1>4. QED
  BY <1>1, <1>2, <1>3, EntriesStay, FilesStay, CallFrame DEF CallIsSound

(* ... and the times in it are those of now, so that what is kept in memory,    *)
(* returned or stored again is as current as the file.                          *)
LEMMA CheckFileIInv ==
  ASSUME IInv, NEW c \in Calls, CheckFile(c)
  PROVE  IInv'
<1> DEFINE k == Slot(c)
           e == entries[k]
           env == found[c].env
<1>0. /\ TypeOK /\ k \in Slots /\ k[2] = Path(c) /\ File(c) \in Files /\ pc[c] = "check"
      /\ e \in Entries /\ e # None /\ AnswerIsSound(c)
      /\ asked[c] \in Paths
  BY Places, EntryIsThere DEF IInv, CheckFile
<1>1. /\ found[c] \in Findings /\ Proper(env) /\ IsAbout(env, Path(c)) /\ Backed(env, found[c].stamps)
      /\ env \in Environments /\ found[c].stamps \in StampSets
  BY <1>0, Fields DEF IInv, TypeOK, HeldIsSound
<1>2. /\ UNCHANGED <<server, asked, clock, version, cacheDir, epoch, clearing, alive, poisoned, dir, era, raced>>
      /\ mixed' \in {mixed, mixed \cup {Identity(env)}}
  BY DEF CheckFile, worldVars, processVars
<1>2a. mixed \subseteq mixed' /\ mixed' \subseteq Paths \X Nat
  <2>1. Identity(env) \in Paths \X Nat
    BY <1>1, Fields DEF Identity
  <2>2. QED
    BY <1>0, <1>2, <2>1 DEF TypeOK
<1>3. CASE ~Valid(found[c].stamps)
  <2>1. Remove(File(c)) /\ Miss(c) /\ UNCHANGED entries
    BY <1>3 DEF CheckFile
  <2>2. /\ files' \in [Files -> Contents \cup {None}] /\ FilesAreSound'
        /\ writers' \in [Files -> SUBSET Calls] /\ written' \in [Calls -> 0 .. NumWrites - 1]
    <3>1. files' \in [Files -> Contents \cup {None}] /\ FilesAreSound'
      BY <1>0, <1>2, <1>2a, <2>1, FileRewritten DEF Remove, TypeOK
    <3>2. QED
      BY <1>0, <2>1, <3>1 DEF TypeOK, Remove
  <2>3. Locals' /\ OthersStay(c) /\ CallIsSound(c)'
    BY <1>0, <1>2, <1>2a, <2>1, MissSound
  <2>4. TypeOK'
    BY <1>0, <1>2, <1>2a, <2>1, <2>2, <2>3 DEF TypeOK, Locals
  <2>5. QED
    BY <1>2, <1>2a, <2>1, <2>2, <2>3, <2>4, EntriesStay, CallFrame DEF CallIsSound
<1>4. CASE Valid(found[c].stamps) /\ tracking[c]
  <2> DEFINE more == [found[c] EXCEPT !.env.symlinks = @ \cup Tracked(c)]
  <2>1. GoOn(c, "store", more) /\ UNCHANGED <<entries, files, writers, written>>
    BY <1>4 DEF CheckFile, fileVars
  <2>2. /\ result[c] \in Answers /\ result[c].env \in Environments /\ Proper(result[c].env)
        /\ IsAbout(result[c].env, asked[c]) /\ Path(c) = result[c].env.executable
    BY <1>0, <1>4, Fields DEF TypeOK, AnswerIsSound, Path
  <2>3. Tracked(c) \in SUBSET Paths
    BY <1>0, <2>2, Fields, InterpreterAssumption DEF Tracked
  <2>4. \/ Identity(env) \in mixed'
        \/ \A q \in Tracked(c) : Target[SysExecutable[q]] = Target[env.executable]
    <3>1. CASE Identity(result[c].env) \in mixed
      BY <1>4, <3>1 DEF CheckFile
    <3>2. CASE Identity(env) \in mixed
      BY <1>2a, <3>2
    <3>3. CASE Identity(result[c].env) \notin mixed /\ Identity(env) \notin mixed
      <4>1. Target[env.executable] = Target[result[c].env.executable]
        BY <1>1, <2>2, <3>3 DEF IsAbout, Proper
      <4>2. \A q \in Links[asked[c]] : Target[SysExecutable[q]] = Target[SysExecutable[asked[c]]]
        BY <1>0, InterpreterAssumption
      <4>3. QED
        BY <2>2, <3>3, <4>1, <4>2 DEF Tracked, IsAbout, Proper
    <3>4. QED
      BY <3>1, <3>2, <3>3
  <2>5. /\ more \in Findings /\ more # None /\ more.env.executable = env.executable
        /\ more.env.version = env.version /\ more.env.symlinks = env.symlinks \cup Tracked(c)
    <3>1. more \in Findings
      BY <1>1, <2>3 DEF Findings, Environments
    <3>2. more # None
      BY <3>1, Fields
    <3>3. QED
      BY <1>1, <3>1, <3>2 DEF Findings, Environments
  <2>6. ProperIn(more.env, mixed') /\ AboutIn(more.env, Path(c), mixed')
    <3> HIDE DEF more
    <3>1. Identity(more.env) = Identity(env)
      BY <2>5 DEF Identity
    <3>2. QED
      BY <1>1, <1>2a, <2>4, <2>5, <3>1 DEF Proper, ProperIn, IsAbout, AboutIn
  <2> HIDE DEF more
  <2>7. Locals' /\ OthersStay(c) /\ CallIsSound(c)'
    BY <1>0, <1>2, <1>2a, <2>1, <2>5, <2>6, GoOnSound
  <2>8. TypeOK'
    BY <1>0, <1>2, <1>2a, <2>1, <2>7 DEF TypeOK, Locals
  <2>9. QED
    BY <1>2, <1>2a, <2>1, <2>7, <2>8, EntriesStay, FilesStay, CallFrame DEF CallIsSound
<1>5. CASE Valid(found[c].stamps) /\ ~tracking[c]
  <2> DEFINE new == [e EXCEPT !.env = env, !.stamps = found[c].stamps]
  <2>1. Return(c, env, TRUE) /\ UNCHANGED <<files, writers, written>> /\ entries' = [entries EXCEPT ![k] = new]
    BY <1>0, <1>5 DEF CheckFile, fileVars, TypeOK
  <2>2. new \in Entries /\ new.env = env /\ new.stamps = found[c].stamps
    <3> HIDE DEF e, env
    <3>1. QED
      BY <1>0, <1>1 DEF Entries
  <2>3. ProperIn(new.env, mixed') /\ AboutIn(new.env, k[2], mixed') /\ BackedIn(new.env, new.stamps, raced' \cup mixed')
    BY <1>0, <1>1, <1>2, <1>2a, <2>2, Places, SoundStays
  <2> HIDE DEF new
  <2>4. /\ entries' \in [Slots -> Entries \cup {None}] /\ EntriesAreSound'
        /\ \A l \in Slots : entries[l] # None => entries'[l] # None
    BY <1>0, <1>2, <1>2a, <2>1, <2>2, <2>3, EntryRewritten
  <2>5. IsAbout(env, asked[c]) /\ env # None
    BY <1>1, <1>5, Fields DEF Path
  <2>6. \/ version[Target[SysExecutable[asked[c]]]] \in {0, env.version}
        \/ Identity(env) \in raced' \cup mixed'
    BY <1>1, <1>2, <1>2a, <1>5, <2>5 DEF Backed, Valid, IsAbout
  <2>7. Locals' /\ OthersStay(c) /\ CallIsSound(c)'
    <3>1. env \in Environments \cup {None} /\ Proper(env)
      BY <1>1
    <3> HIDE DEF env
    <3>2. QED
      BY <1>2, <1>2a, <2>1, <2>5, <2>6, <3>1, ReturnSound
  <2>8. TypeOK'
    BY <1>0, <1>2, <1>2a, <2>1, <2>4, <2>7 DEF TypeOK, Locals
  <2>9. QED
    BY <1>2, <1>2a, <2>1, <2>4, <2>7, <2>8, FilesStay, CallFrame DEF CallIsSound
<1>6. QED
  BY <1>3, <1>4, <1>5

(* Python prints what its executable is.                                       *)
LEMMA SpawnIInv ==
  ASSUME IInv, NEW c \in Calls, Spawn(c)
  PROVE  IInv'
<1> DEFINE p == Path(c)
           x == SysExecutable[Path(c)]
           env == [executable |-> x, version |-> version[Target[x]], symlinks |-> {p, x}]
           printed == [env |-> env, stamps |-> {}]
<1>0. TypeOK /\ p \in Paths /\ pc[c] = "spawn" /\ entries[Slot(c)] # None
  BY Places, EntryIsThere DEF IInv, Spawn
<1>1. /\ version[Target[x]] # 0 /\ GoOn(c, "store", printed)
      /\ UNCHANGED <<server, asked, clock, version, cacheDir, epoch, clearing, alive, entries,
                     poisoned, files, writers, written, dir, era, raced, mixed>>
  BY DEF Spawn, history, worldVars, processVars, fileVars
<1>2. x \in Paths /\ Target[SysExecutable[x]] = Target[x] /\ version[Target[x]] \in Nat
  BY <1>0, InterpreterAssumption DEF TypeOK
<1>3. env \in Environments /\ ProperIn(env, mixed') /\ AboutIn(env, p, mixed')
  <2> HIDE DEF x, p
  <2>1. env \in Environments
    BY <1>0, <1>2 DEF Environments
  <2>2. ProperIn(env, mixed')
    BY <1>1, <1>2 DEF ProperIn, x, p
  <2>3. AboutIn(env, p, mixed')
    BY DEF AboutIn, x, p
  <2>4. QED
    BY <2>1, <2>2, <2>3
<1> HIDE DEF env
<1>4. printed \in Findings /\ printed # None /\ printed.env = env
  BY <1>3, Fields DEF Findings, StampSets
<1> HIDE DEF printed
<1>5. Locals' /\ OthersStay(c) /\ CallIsSound(c)'
  BY <1>0, <1>1, <1>3, <1>4, GoOnSound
<1>6. TypeOK'
  BY <1>0, <1>1, <1>5 DEF TypeOK, Locals
<1>7. QED
  BY <1>1, <1>5, <1>6, EntriesStay, FilesStay, CallFrame DEF CallIsSound

LEMMA SpawnFailsIInv ==
  ASSUME IInv, NEW c \in Calls, SpawnFails(c)
  PROVE  IInv'
<1>1. /\ Return(c, None, FALSE) /\ TypeOK
      /\ UNCHANGED <<server, asked, clock, version, cacheDir, epoch, clearing, alive, entries,
                     poisoned, files, writers, written, dir, era, raced, mixed>>
  BY DEF SpawnFails, history, worldVars, processVars, fileVars, IInv
<1>2. Locals' /\ OthersStay(c) /\ CallIsSound(c)'
  BY <1>1, ReturnSound
<1>3. TypeOK'
  BY <1>1, <1>2 DEF TypeOK, Locals
<1>4. QED
  BY <1>1, <1>2, <1>3, EntriesStay, FilesStay, CallFrame DEF CallIsSound

(* store: the times are those of the executable, or the race is recorded.      *)
LEMMA StoreIInv ==
  ASSUME IInv, NEW c \in Calls, Store(c)
  PROVE  IInv'
<1> DEFINE k == Slot(c)
           e == entries[k]
           env == found[c].env
           stamps == Stamps(env.symlinks)
           new == [e EXCEPT !.env = env, !.stamps = stamps]
           kept == [env |-> env, stamps |-> stamps]
<1>0. /\ TypeOK /\ k \in Slots /\ k[2] = Path(c) /\ pc[c] = "store" /\ e \in Entries
  BY Places, EntryIsThere DEF IInv, Store
<1>1. /\ found[c] \in Findings /\ Proper(env) /\ IsAbout(env, Path(c))
      /\ env \in Environments /\ env.executable \in Paths /\ env.version \in Nat /\ env.symlinks \in SUBSET Paths
  <2>1. found[c] \in Findings /\ Proper(env) /\ IsAbout(env, Path(c))
    BY <1>0 DEF IInv, TypeOK, HeldIsSound
  <2>2. QED
    BY <2>1, Fields
<1>2. /\ raced' = IF version[Target[env.executable]] = env.version THEN raced
                  ELSE raced \cup {Identity(env)}
      /\ entries' = [entries EXCEPT ![k] = new]
      /\ GoOn(c, "create", kept) \/ Finish(c)
      /\ UNCHANGED <<server, asked, clock, version, cacheDir, epoch, clearing, alive,
                     poisoned, files, writers, written, dir, era, mixed>>
  BY <1>0 DEF Store, history, worldVars, processVars, fileVars, TypeOK
<1>3. raced \subseteq raced' /\ raced' \subseteq Paths \X Nat
  BY <1>0, <1>1, <1>2 DEF TypeOK, Identity
<1>4. stamps \in StampSets
  BY <1>0, <1>1, InterpreterAssumption DEF Stamps, StampSets, TypeOK
<1>5. BackedIn(env, stamps, raced' \cup mixed')
  <2>1. CASE Identity(env) \in mixed
    BY <1>2, <2>1 DEF BackedIn
  <2>2. CASE version[Target[env.executable]] = env.version /\ Identity(env) \notin mixed
    <3>1. <<env.executable, env.version>> \in stamps
      BY <1>1, <2>2 DEF Stamps, Proper
    <3> HIDE DEF stamps, env
    <3>2. QED
      BY <3>1 DEF BackedIn
  <2>3. CASE version[Target[env.executable]] # env.version
    BY <1>2, <2>3 DEF BackedIn
  <2>4. QED
    BY <2>1, <2>2, <2>3
<1>5a. ProperIn(env, mixed') /\ AboutIn(env, Path(c), mixed')
  BY <1>1, <1>2, <1>3, Places, SoundStays
<1> HIDE DEF env, stamps, e
<1>6. new \in Entries /\ new.env = env /\ new.stamps = stamps
  BY <1>0, <1>1, <1>4 DEF Entries
<1>7. kept \in Findings /\ kept.env = env /\ kept.stamps = stamps /\ kept # None
  BY <1>1, <1>4, Fields DEF Findings
<1> HIDE DEF new, kept
<1>8. /\ entries' \in [Slots -> Entries \cup {None}] /\ EntriesAreSound' /\ entries'[k] # None
      /\ \A l \in Slots : entries[l] # None => entries'[l] # None
  BY <1>0, <1>1, <1>2, <1>3, <1>5, <1>5a, <1>6, EntryRewritten
<1>9. Locals' /\ OthersStay(c) /\ CallIsSound(c)'
  <2>1. CASE GoOn(c, "create", kept)
    BY <1>1, <1>2, <1>3, <1>5, <1>5a, <1>7, <1>8, <2>1, GoOnSound
  <2>2. CASE Finish(c)
    BY <1>0, <1>2, <1>3, <2>2, FinishSound
  <2>3. QED
    BY <1>2, <2>1, <2>2
<1>10. TypeOK'
  BY <1>0, <1>2, <1>3, <1>8, <1>9 DEF TypeOK, Locals
<1>11. QED
  BY <1>2, <1>3, <1>8, <1>9, <1>10, FilesStay, CallFrame DEF CallIsSound

(* store_cache_in_file: a new file has nothing in it ...                       *)
LEMMA CreateFileIInv ==
  ASSUME IInv, NEW c \in Calls, CreateFile(c)
  PROVE  IInv'
<1>0. /\ TypeOK /\ File(c) \in Files /\ pc[c] = "create" /\ entries[Slot(c)] # None
      /\ found[c] \in Findings /\ found[c] # None /\ Proper(found[c].env)
      /\ IsAbout(found[c].env, Path(c)) /\ Backed(found[c].env, found[c].stamps)
  BY Places, EntryIsThere DEF IInv, TypeOK, CreateFile, HeldIsSound
<1>1. /\ files' = [files EXCEPT ![File(c)] = Truncated]
      /\ writers' = [writers EXCEPT ![File(c)] = @ \cup {c}]
      /\ GoOn(c, "write", found[c])
      /\ UNCHANGED <<server, asked, clock, version, cacheDir, epoch, clearing, alive, entries,
                     poisoned, written, dir, era, raced, mixed>>
  BY DEF CreateFile, history, worldVars, processVars
<1>2. files' \in [Files -> Contents \cup {None}] /\ FilesAreSound'
  <2>1. Truncated \in Contents /\ \A i \in Writes : Truncated[i] = Torn
    BY DEF Truncated, Contents
  <2>2. QED
    BY <1>0, <1>1, <2>1, Fields, FileRewritten DEF TypeOK
<1>3. Locals' /\ OthersStay(c) /\ CallIsSound(c)'
  BY <1>0, <1>1, Places, SoundStays, GoOnSound
<1>4. TypeOK'
  BY <1>0, <1>1, <1>2, <1>3 DEF TypeOK, Locals
<1>5. QED
  BY <1>1, <1>2, <1>3, <1>4, EntriesStay, CallFrame DEF CallIsSound

LEMMA CreateFailsIInv ==
  ASSUME IInv, NEW c \in Calls, CreateFails(c)
  PROVE  IInv'
<1>1. /\ Finish(c) /\ TypeOK /\ pc[c] = "create"
      /\ UNCHANGED <<server, asked, clock, version, cacheDir, epoch, clearing, alive, entries,
                     poisoned, files, writers, written, dir, era, raced, mixed>>
  BY DEF CreateFails, history, worldVars, processVars, fileVars, IInv
<1>2. Locals' /\ OthersStay(c) /\ CallIsSound(c)'
  BY <1>1, FinishSound
<1>3. TypeOK'
  BY <1>1, <1>2 DEF TypeOK, Locals
<1>4. QED
  BY <1>1, <1>2, <1>3, EntriesStay, FilesStay, CallFrame DEF CallIsSound

(* ... and each write puts sound details into it, between those of others.     *)
LEMMA WriteFileIInv ==
  ASSUME IInv, NEW c \in Calls, WriteFile(c)
  PROVE  IInv'
<1> DEFINE t == files[File(c)]
           new == IF c \in writers[File(c)] THEN [t EXCEPT ![written[c] + 1] = found[c]] ELSE t
<1>0. /\ TypeOK /\ File(c) \in Files /\ pc[c] = "write" /\ entries[Slot(c)] # None
      /\ found[c] \in Findings /\ found[c] # None /\ Proper(found[c].env)
      /\ IsAbout(found[c].env, Path(c)) /\ Backed(found[c].env, found[c].stamps)
  BY Places, EntryIsThere DEF IInv, TypeOK, WriteFile, HeldIsSound
<1>1. /\ files' = [files EXCEPT ![File(c)] = new]
      /\ \/ Close(c)
         \/ /\ GoOn(c, "write", found[c]) /\ UNCHANGED writers
            /\ written[c] + 1 # NumWrites
            /\ written' = [written EXCEPT ![c] = @ + 1]
      /\ UNCHANGED <<server, asked, clock, version, cacheDir, epoch, clearing, alive, entries,
                     poisoned, dir, era, raced, mixed>>
  BY DEF WriteFile, history, worldVars, processVars
<1>1a. \A g \in Files : writers'[g] \subseteq writers[g]
  BY <1>0, <1>1 DEF TypeOK, Close
<1>2. files' \in [Files -> Contents \cup {None}] /\ FilesAreSound'
  <2>1. CASE c \in writers[File(c)]
    <3>1. t \in Contents
      BY <1>0, <2>1 DEF IInv, FilesAreSound, TypeOK
    <3>2. new \in Contents /\ \A i \in Writes : new[i] \in {t[i], found[c]}
      BY <1>0, <2>1, <3>1 DEF Contents
    <3>3. \A i \in Writes : t[i] # Torn => Proper(t[i].env) /\ Backed(t[i].env, t[i].stamps)
      BY <1>0, <3>1, Fields DEF IInv, FilesAreSound
    <3> HIDE DEF new
    <3>4. QED
      BY <1>0, <1>1, <1>1a, <3>2, <3>3, Fields, FileRewritten
  <2>2. CASE c \notin writers[File(c)]
    <3>1. UNCHANGED files
      BY <1>0, <1>1, <2>2 DEF TypeOK
    <3>2. QED
      BY <1>0, <1>1, <1>1a, <3>1, FilesStay DEF TypeOK
  <2>3. QED
    BY <2>1, <2>2
<1>3. /\ Locals' /\ OthersStay(c) /\ CallIsSound(c)'
      /\ writers' \in [Files -> SUBSET Calls] /\ written' \in [Calls -> 0 .. NumWrites - 1]
  <2>1. CASE Close(c)
    BY <1>0, <1>1, <2>1, InterpreterAssumption, FinishSound DEF Close, TypeOK
  <2>2. CASE ~Close(c)
    <3>1. GoOn(c, "write", found[c]) /\ UNCHANGED writers
      BY <1>1, <2>2
    <3>2. written[c] \in 0 .. NumWrites - 1 /\ written[c] + 1 # NumWrites
      BY <1>0, <1>1, <2>2 DEF TypeOK
    <3>3. written' = [written EXCEPT ![c] = written[c] + 1]
      BY <1>1, <2>2
    <3>4. written' \in [Calls -> 0 .. NumWrites - 1]
      <4>1. written[c] + 1 \in 0 .. NumWrites - 1
        BY <3>2, InterpreterAssumption
      <4>2. QED
        BY <1>0, <3>3, <4>1 DEF TypeOK
    <3>5. Locals' /\ OthersStay(c) /\ CallIsSound(c)'
      BY <1>0, <1>1, <3>1, Places, SoundStays, GoOnSound
    <3>6. QED
      BY <1>0, <3>1, <3>4, <3>5 DEF TypeOK
  <2>3. QED
    BY <2>1, <2>2
<1>4. TypeOK'
  BY <1>0, <1>1, <1>2, <1>3 DEF TypeOK, Locals
<1>5. QED
  BY <1>1, <1>2, <1>3, <1>4, EntriesStay, CallFrame DEF CallIsSound

LEMMA WriteFailsIInv ==
  ASSUME IInv, NEW c \in Calls, WriteFails(c)
  PROVE  IInv'
<1>1. /\ Close(c) /\ TypeOK /\ pc[c] = "write" /\ File(c) \in Files
      /\ UNCHANGED <<server, asked, clock, version, cacheDir, epoch, clearing, alive, entries,
                     poisoned, files, dir, era, raced, mixed>>
  BY Places DEF WriteFails, history, worldVars, processVars, IInv
<1>2. Locals' /\ OthersStay(c) /\ CallIsSound(c)'
  BY <1>1, FinishSound DEF Close
<1>3. TypeOK'
  <2>1. writers' \in [Files -> SUBSET Calls] /\ written' \in [Calls -> 0 .. NumWrites - 1]
    BY <1>1, InterpreterAssumption DEF TypeOK, Close
  <2>2. QED
    BY <1>1, <1>2, <2>1 DEF TypeOK, Locals
<1>4. \A g \in Files : writers'[g] \subseteq writers[g]
  BY <1>1 DEF TypeOK, Close
<1>5. QED
  BY <1>1, <1>2, <1>3, <1>4, EntriesStay, FilesStay, CallFrame DEF CallIsSound

LEMMA CallStepIInv ==
  ASSUME IInv, NEW c \in Calls, CallStep(c)
  PROVE  IInv'
  BY ReadDirectoryIInv, ClaimEntryIInv, LockEntryIInv, LockPoisonedIInv, LookInMemoryIInv,
     OpenFileIInv, CheckFileIInv, SpawnIInv, SpawnFailsIInv, SpawnPanicsIInv, StoreIInv,
     CreateFileIInv, CreateFailsIInv, WriteFileIInv, WriteFailsIInv DEF CallStep

-----------------------------------------------------------------------------
(* Events that leave entries and calls alone: a cache directory, the first half *)
(* of clear(), and changes of binaries.  Nothing at hand depends on what the    *)
(* binaries are now.                                                            *)
LEMMA EventFrame ==
  ASSUME IInv, TypeOK', UNCHANGED <<server, asked, entries, files, writers, pc, tracking, era, found, result, raced, mixed>>
  PROVE  IInv'
<1>1. EntriesAreSound' /\ FilesAreSound'
  BY EntriesStay, FilesStay
<1>2. ASSUME NEW c \in Calls PROVE HeldIsSound(c)' /\ AnswerIsSound(c)'
  <2>1. UNCHANGED <<Slot(c), Path(c)>> /\ HeldIsSound(c) /\ AnswerIsSound(c)
    BY DEF Slot, Path, IInv
  <2>2. HeldIsSound(c)'
    BY <2>1 DEF HeldIsSound, Backed, Proper, IsAbout
  <2>3. AnswerIsSound(c)'
    BY <2>1 DEF AnswerIsSound, Proper, IsAbout
  <2>4. QED
    BY <2>2, <2>3
<1>3. QED
  BY <1>1, <1>2 DEF IInv

LEMMA SetCacheDirectoryIInv ==
  ASSUME IInv, NEW s \in Processes, SetCacheDirectory(s)
  PROVE  IInv'
<1> USE DEF SetCacheDirectory, history, worldVars, entryVars, fileVars, callVars
<1>1. TypeOK'
  BY DEF IInv, TypeOK
<1>2. QED
  BY <1>1, EventFrame

LEMMA ClearEntriesIInv ==
  ASSUME IInv, NEW s \in Processes, ClearEntries(s)
  PROVE  IInv'
<1> USE DEF ClearEntries, history, entryVars, fileVars, callVars
<1>1. /\ clock' \in 0..MaxEvents
      /\ epoch' \in [Processes -> 0..MaxEvents] /\ \A q \in Processes : epoch'[q] <= clock'
  BY InterpreterAssumption DEF IInv, TypeOK, Event
<1>2. TypeOK'
  BY <1>1 DEF IInv, TypeOK
<1>3. QED
  BY <1>2, EventFrame

LEMMA UpgradeIInv ==
  ASSUME IInv, NEW b \in Binaries, Upgrade(b) \/ Uninstall(b)
  PROVE  IInv'
<1> USE DEF Upgrade, Uninstall, processVars, history, entryVars, fileVars, callVars
<1>1. /\ clock' \in 0..MaxEvents /\ version' \in [Binaries -> Nat]
      /\ \A q \in Processes : epoch[q] <= clock'
  BY InterpreterAssumption DEF IInv, TypeOK, Event
<1>2. TypeOK'
  BY <1>1 DEF IInv, TypeOK
<1>3. QED
  BY <1>2, EventFrame

(* The second half of clear() removes files.                                    *)
LEMMA RemoveDirectoryIInv ==
  ASSUME IInv, NEW s \in Processes, RemoveDirectory(s)
  PROVE  IInv'
<1>1. PICK gone \in SUBSET Files :
        /\ files' = [f \in Files |-> IF f \in gone THEN None ELSE files[f]]
        /\ writers' = [f \in Files |-> IF f \in gone THEN {} ELSE writers[f]]
  BY DEF RemoveDirectory
<1>2. /\ clearing' = clearing \ {s}
      /\ UNCHANGED <<server, asked, clock, version, cacheDir, epoch, alive, entries, holder, poisoned,
                     written, pc, tracking, dir, era, found, result, raced, mixed>>
  BY DEF RemoveDirectory, history, worldVars, entryVars, callVars
<1>3. TypeOK'
  BY <1>1, <1>2 DEF IInv, TypeOK
<1>4. EntriesAreSound'
  BY <1>2, EntriesStay
<1>5. FilesAreSound'
  <2>1. \A f \in Files : /\ files'[f] = IF f \in gone THEN None ELSE files[f]
                         /\ writers'[f] = IF f \in gone THEN {} ELSE writers[f]
    BY <1>1
  <2>2. QED
    BY <1>2, <2>1 DEF IInv, FilesAreSound, Backed, Proper
<1>6. ASSUME NEW c \in Calls PROVE HeldIsSound(c)' /\ AnswerIsSound(c)'
  <2>1. UNCHANGED <<Slot(c), Path(c)>> /\ HeldIsSound(c) /\ AnswerIsSound(c)
    BY <1>2 DEF Slot, Path, IInv
  <2>2. QED
    BY <1>2, <2>1 DEF HeldIsSound, AnswerIsSound, Backed, Proper, IsAbout
<1>7. QED
  BY <1>3, <1>4, <1>5, <1>6 DEF IInv

(* A crash takes the entries and the calls of its process and nothing else.     *)
LEMMA CrashIInv ==
  ASSUME IInv, NEW s \in Processes, Crash(s)
  PROVE  IInv'
<1> DEFINE dead == {c \in Calls : server[c] = s}
<1>1. /\ alive' = alive \ {s} /\ cacheDir' = cacheDir \ {s} /\ clearing' = clearing \ {s}
      /\ Event /\ epoch' = [epoch EXCEPT ![s] = 0]
      /\ entries' = [k \in Slots |-> IF k[1] = s THEN None ELSE entries[k]]
      /\ holder' = [k \in Slots |-> IF k[1] = s THEN None ELSE holder[k]]
      /\ poisoned' = {k \in poisoned : k[1] # s}
      /\ writers' = [f \in Files |-> writers[f] \ dead]
      /\ written' = Reset(written, dead, 0)
      /\ pc' = Reset(pc, dead, "killed") /\ tracking' = Reset(tracking, dead, FALSE)
      /\ dir' = Reset(dir, dead, FALSE) /\ era' = Reset(era, dead, 0)
      /\ found' = Reset(found, dead, None) /\ result' = Reset(result, dead, None)
      /\ UNCHANGED <<server, asked, version, files, raced, mixed>>
  BY DEF Crash, history
<1>2. /\ clock' \in 0..MaxEvents
      /\ epoch' \in [Processes -> 0..MaxEvents] /\ \A q \in Processes : epoch'[q] <= clock'
  BY <1>1, InterpreterAssumption DEF IInv, TypeOK, Event
<1>3. TypeOK'
  <2>1. /\ written' \in [Calls -> 0 .. NumWrites - 1] /\ tracking' \in [Calls -> BOOLEAN]
        /\ dir' \in [Calls -> BOOLEAN] /\ era' \in [Calls -> 0..MaxEvents]
        /\ found' \in [Calls -> Findings \cup {None}] /\ result' \in [Calls -> Answers \cup {None}]
    <3>1. TypeOK /\ 0 \in 0 .. NumWrites - 1 /\ 0 \in 0..MaxEvents
      BY InterpreterAssumption DEF IInv
    <3>2. written' \in [Calls -> 0 .. NumWrites - 1]
      BY <1>1, <3>1 DEF TypeOK, Reset
    <3>3. tracking' \in [Calls -> BOOLEAN] /\ dir' \in [Calls -> BOOLEAN]
      BY <1>1, <3>1 DEF TypeOK, Reset
    <3>4. era' \in [Calls -> 0..MaxEvents]
      BY <1>1, <3>1 DEF TypeOK, Reset
    <3>5. found' \in [Calls -> Findings \cup {None}] /\ result' \in [Calls -> Answers \cup {None}]
      BY <1>1, <3>1 DEF TypeOK, Reset
    <3>6. QED
      BY <3>2, <3>3, <3>4, <3>5
  <2>2. QED
    BY <1>1, <1>2, <2>1 DEF IInv, TypeOK, Reset
<1>4. EntriesAreSound' /\ FilesAreSound'
  BY <1>1 DEF IInv, TypeOK, EntriesAreSound, FilesAreSound, Backed, Proper, IsAbout
<1>5. ASSUME NEW c \in Calls PROVE HeldIsSound(c)' /\ AnswerIsSound(c)'
  <2>1. HeldIsSound(c) /\ AnswerIsSound(c) /\ Slot(c) \in Slots
    BY Places DEF IInv
  <2>2. CASE c \in dead
    <3>1. pc'[c] = "killed" /\ ~tracking'[c] /\ result'[c] = None
      BY <1>1, <2>2 DEF Reset
    <3>2. QED
      BY <3>1 DEF HeldIsSound, AnswerIsSound
  <2>3. CASE c \notin dead
    <3>1. /\ UNCHANGED <<pc[c], tracking[c], era[c], found[c], result[c]>>
          /\ entries'[Slot(c)] = entries[Slot(c)]
      BY <1>1, <2>1, <2>3 DEF Slot, Reset
    <3>2. UNCHANGED <<Slot(c), Path(c)>>
      BY <1>1, <3>1 DEF Slot, Path
    <3>3. QED
      BY <1>1, <2>1, <3>1, <3>2 DEF HeldIsSound, AnswerIsSound, Backed, Proper, IsAbout
  <2>4. QED
    BY <2>2, <2>3
<1>6. QED
  BY <1>3, <1>4, <1>5 DEF IInv

LEMMA RestartIInv ==
  ASSUME IInv, NEW s \in Processes, Restart(s)
  PROVE  IInv'
<1> DEFINE again == {c \in Calls : server[c] = s}
<1>1. /\ alive' = alive \cup {s} /\ pc' = Reset(pc, again, "directory")
      /\ UNCHANGED <<server, asked, clock, version, cacheDir, epoch, clearing, entries, holder, poisoned,
                     files, writers, written, tracking, dir, era, found, result, raced, mixed>>
  BY DEF Restart, history, worldVars, entryVars, fileVars
<1>2. TypeOK'
  BY <1>1 DEF IInv, TypeOK, Reset
<1>3. EntriesAreSound' /\ FilesAreSound'
  BY <1>1, EntriesStay, FilesStay
<1>4. ASSUME NEW c \in Calls PROVE HeldIsSound(c)' /\ AnswerIsSound(c)'
  <2>1. /\ UNCHANGED <<Slot(c), Path(c)>> /\ HeldIsSound(c) /\ AnswerIsSound(c)
        /\ pc'[c] \in {pc[c], "directory"}
    BY <1>1 DEF Slot, Path, IInv, TypeOK, Reset
  <2>2. QED
    BY <1>1, <2>1 DEF HeldIsSound, AnswerIsSound, Backed, Proper, IsAbout
<1>5. QED
  BY <1>2, <1>3, <1>4 DEF IInv

LEMMA NextIInv == IInv /\ [Next]_vars => IInv'
<1> SUFFICES ASSUME IInv, [Next]_vars PROVE IInv'
  OBVIOUS
<1>1. CASE UNCHANGED vars
  <2> USE <1>1 DEF vars, history, worldVars, processVars, entryVars, fileVars, callVars
  <2>1. TypeOK'
    BY DEF IInv, TypeOK
  <2>2. QED
    BY <2>1, EventFrame
<1>2. CASE Next
  BY <1>1, <1>2, CallStepIInv, SetCacheDirectoryIInv, ClearEntriesIInv, RemoveDirectoryIInv,
     CrashIInv, RestartIInv, UpgradeIInv DEF Next, Quiescent
<1>3. QED
  BY <1>1, <1>2

-----------------------------------------------------------------------------
(* The inductive invariant holds for any executables and links between them,   *)
(* any calls of any number of servers on one cache directory, and any number of *)
(* upgrades, clears and crashes.                                               *)
THEOREM InterpreterInvariance == Spec => []IInv
  BY InitIInv, NextIInv, PTL DEF Spec

(* `from` answers with details of the binary the request's path leads to, even  *)
(* if paths of different interpreters share a cache file; only a file into      *)
(* which two calls wrote at the same time may bring those of another.           *)
THEOREM AnswersAreAboutTheRequest == Spec => []NoForeignInterpreter
<1>1. IInv => NoForeignInterpreter
  BY DEF IInv, AnswerIsSound, IsAbout, NoForeignInterpreter
<1>2. QED
  BY <1>1, InterpreterInvariance, PTL

(* There are two ways to a stale answer: a change of the executable between its *)
(* spawn and the moment store reads its times, and a cache file that two calls  *)
(* write at the same time.                                                      *)
THEOREM StaleAnswersNeedARace == Spec => []StaleOnlyByRace
<1>1. IInv => StaleOnlyByRace
  BY DEF IInv, AnswerIsSound, StaleOnlyByRace
<1>2. QED
  BY <1>1, InterpreterInvariance, PTL
=============================================================================
