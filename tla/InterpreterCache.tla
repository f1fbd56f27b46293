--------------------------- MODULE InterpreterCache ---------------------------
(***************************************************************************)
(* What a Python executable says of itself, cached in memory and on disk    *)
(* (crates/pet-python-utils/src/{env,cache,fs_cache}.rs).  A call resolves  *)
(* one path: ResolvedPythonEnv::from looks in the entry of the path, in its *)
(* file and at last spawns Python; resolve_environment then adds the        *)
(* symlinks the locators know of to the entry of sys.executable.            *)
(*                                                                         *)
(* Executables are installed, upgraded and removed while this happens.      *)
(* Each change gives a binary a new version, which stands for its mtime and *)
(* for what it prints; metadata() follows links, so a path has the version  *)
(* of its target.  Several server processes may share one cache directory,  *)
(* and each may be killed at any time.                                      *)
(***************************************************************************)
EXTENDS Naturals

CONSTANTS Calls, Processes,
          Paths,          \* paths of executables
          Requests,       \* the paths the calls may resolve, by call
          Resolvers,      \* the calls made by resolve_environment
          Binaries,
          Target,         \* the binary a path leads to
          SysExecutable,  \* sys.executable of a Python started by a path
          Links,          \* the symlinks that the locators know for a path
          Files,
          CacheFile,      \* file of a path: the first 16 digits of a hash
          NumWrites,      \* the writes that make up a cache file
          WriteOf,        \* the write that a field of the file is part of
          MaxEvents,      \* bound on the number of changes of binaries, clear
                          \* requests and crashes
          Torn,           \* a part of a cache file that is not written yet
          None

ASSUME InterpreterAssumption ==
  /\ Requests \subseteq [Calls -> Paths]
  /\ Resolvers \subseteq Calls
  /\ Target \in [Paths -> Binaries]
  /\ SysExecutable \in [Paths -> Paths]
  /\ Links \in [Paths -> SUBSET Paths]
  /\ CacheFile \in [Paths -> Files]
  /\ NumWrites \in Nat \ {0}
  /\ WriteOf \in [{"executable", "printed", "symlinks", "times"} -> 1..NumWrites]
  /\ MaxEvents \in Nat
  /\ None \notin Calls
  (* A path that the locators call a link of an executable is one.          *)
  /\ \A p \in Paths : \A q \in Links[p] \cup {p} :
       /\ Target[SysExecutable[q]] = Target[SysExecutable[p]]
       /\ SysExecutable[SysExecutable[q]] = SysExecutable[q]

(* What an interpreter says, with the times of the paths that lead to it; an  *)
(* entry of the table and an answer of `from`.                                *)
Environments == [executable : Paths, version : Nat, symlinks : SUBSET Paths]
StampSets == SUBSET (Paths \X Nat)
Findings == [env : Environments, stamps : StampSets]
Entries == [dir : BOOLEAN, env : Environments \cup {None}, stamps : StampSets]
Answers == [env : Environments \cup {None}, cached : BOOLEAN, now : Nat]

(* The content of a cache file: for each of the writes it is made of, in      *)
(* their order, the details that were being written.                         *)
Writes == 1 .. NumWrites
Contents == [Writes -> Findings \cup {Torn}]
Truncated == [i \in Writes |-> Torn]
Parses(content) == \A i \in Writes : content[i] # Torn

(* What serde_json reads from a file, each field for itself: the executable,  *)
(* what it printed (prefix, version, is64Bit), its symlinks, and their times. *)
Deserialized(content) ==
  [env |-> [executable |-> content[WriteOf["executable"]].env.executable,
            version |-> content[WriteOf["printed"]].env.version,
            symlinks |-> content[WriteOf["symlinks"]].env.symlinks],
   stamps |-> content[WriteOf["times"]].stamps]

(* The writes of several calls are in the file.                              *)
Hybrid(content) == \E i, j \in Writes : content[i] # content[j]

ASSUME NothingIsNone ==
  /\ None \notin Environments /\ None \notin Findings
  /\ None \notin Entries /\ None \notin Answers /\ None \notin Contents
  /\ Torn \notin Findings /\ Torn # None

VARIABLES
  server, asked,        \* the process of each call and the path it resolves
  clock, version,       \* number of events; each binary's version, 0: none
  cacheDir,             \* processes whose CACHE has a cache directory
  epoch,                \* how often the table `locks` of a process was cleared
  clearing,             \* processes between the two halves of clear()
  entries,              \* CacheEntryImpl by process, path and epoch, or None
  holder, poisoned,     \* the mutex around each entry
  files,                \* what each cache file holds
  writers, written,     \* calls with an open handle on a cache file; how
                        \* many writes each has made
  alive,                \* processes
  pc, tracking,         \* calls; whether one is in add_to_cache
  dir, era,             \* cache_dir as read; epoch of the entry it uses
  found,                \* the environment and stamps it has at hand
  result,               \* what `from` returned, with circumstances
  raced,                \* history: environments stored after a change
  mixed                 \* history: environments read from a file in which
                        \* two calls wrote, or with symlinks of such a one

worldVars == <<server, asked, clock, version>>
processVars == <<cacheDir, epoch, clearing, alive>>
entryVars == <<entries, holder, poisoned>>
fileVars == <<files, writers, written>>
history == <<raced, mixed>>
callVars == <<pc, tracking, dir, era, found, result>>
vars == <<worldVars, processVars, entryVars, fileVars, callVars, history>>

Slots == Processes \X Paths \X (0 .. MaxEvents)

Init ==
  /\ server \in [Calls -> Processes]
  /\ asked \in Requests
  /\ clock = 0
  /\ version = [b \in Binaries |-> 1]
  /\ cacheDir = {} /\ clearing = {}
  /\ alive = {server[c] : c \in Calls}
  /\ epoch = [s \in Processes |-> 0]
  /\ entries = [k \in Slots |-> None]
  /\ holder = [k \in Slots |-> None]
  /\ poisoned = {}
  /\ files = [f \in Files |-> None]
  /\ writers = [f \in Files |-> {}]
  /\ written = [c \in Calls |-> 0]
  /\ pc = [c \in Calls |-> "directory"]
  /\ tracking = [c \in Calls |-> FALSE]
  /\ dir = [c \in Calls |-> FALSE]
  /\ era = [c \in Calls |-> 0]
  /\ found = [c \in Calls |-> None]
  /\ result = [c \in Calls |-> None]
  /\ raced = {} /\ mixed = {}

Path(c) == IF tracking[c] THEN result[c].env.executable ELSE asked[c]
Slot(c) == <<server[c], Path(c), era[c]>>
Entry(c) == entries[Slot(c)]
File(c) == CacheFile[Path(c)]

Goto(c, label) == pc' = [pc EXCEPT ![c] = label]

(* The symlinks that can be read, with their times.                          *)
Stamps(paths) == {<<p, version[Target[p]]>> : p \in {q \in paths : version[Target[q]] # 0}}

(* verify_in_memory_cache: a file that is gone does not count as changed.    *)
Changed(stamps) ==
  \E s \in stamps : version[Target[s[1]]] # 0 /\ version[Target[s[1]]] # s[2]

(* get_cache_from_file: here it does.                                        *)
Valid(stamps) == \A s \in stamps : version[Target[s[1]]] = s[2]

Remove(f) ==
  /\ files' = [files EXCEPT ![f] = None]
  /\ writers' = [writers EXCEPT ![f] = {}]
  /\ UNCHANGED written

-----------------------------------------------------------------------------
(* create_cache: the cache directory, and then the table of entries.         *)
ReadDirectory(c) ==
  /\ pc[c] = "directory"
  /\ dir' = [dir EXCEPT ![c] = server[c] \in cacheDir]
  /\ Goto(c, "entry")
  /\ UNCHANGED <<worldVars, processVars, entryVars, fileVars, tracking, era,
                 found, result, history>>

ClaimEntry(c) ==
  /\ pc[c] = "entry"
  /\ LET s == server[c]
         k == <<s, Path(c), epoch[s]>> IN
     /\ era' = [era EXCEPT ![c] = epoch[s]]
     /\ entries' = [entries EXCEPT ![k] =
          IF @ = None THEN [dir |-> dir[c], env |-> None, stamps |-> {}] ELSE @]
  /\ dir' = [dir EXCEPT ![c] = FALSE]
  /\ Goto(c, "lock")
  /\ UNCHANGED <<worldVars, processVars, holder, poisoned, fileVars, tracking,
                 found, result, history>>

LockEntry(c) ==
  /\ pc[c] = "lock"
  /\ holder[Slot(c)] = None
  /\ Slot(c) \notin poisoned
  /\ holder' = [holder EXCEPT ![Slot(c)] = c]
  /\ Goto(c, "verify")
  /\ UNCHANGED <<worldVars, processVars, entries, poisoned, fileVars, tracking,
                 dir, era, found, result, history>>

(* expect("cache mutex poisoned")                                            *)
LockPoisoned(c) ==
  /\ pc[c] = "lock"
  /\ Slot(c) \in poisoned
  /\ Goto(c, "panicked")
  /\ UNCHANGED <<worldVars, processVars, entryVars, fileVars, tracking, dir, era,
                 found, result, history>>

(* `from` returns, which drops the guard.  resolve_environment goes on to    *)
(* add_to_cache; the locators that call `from` are through.                  *)
Return(c, env, cached) ==
  /\ result' = [result EXCEPT ![c] =
       [env |-> env, cached |-> cached,
        now |-> version[Target[SysExecutable[asked[c]]]]]]
  /\ tracking' = [tracking EXCEPT ![c] = env # None]
  /\ found' = [found EXCEPT ![c] = None]
  /\ holder' = [holder EXCEPT ![Slot(c)] = None]
  /\ \E label \in {"done", "directory"} :
       /\ label = "directory" => env # None /\ c \in Resolvers
       /\ Goto(c, label)

(* track_symlinks returns.                                                   *)
ReturnTracked(c) ==
  /\ holder' = [holder EXCEPT ![Slot(c)] = None]
  /\ found' = [found EXCEPT ![c] = None]
  /\ Goto(c, "done")
  /\ UNCHANGED <<tracking, result>>

GoOn(c, label, value) ==
  /\ found' = [found EXCEPT ![c] = value]
  /\ Goto(c, label)
  /\ UNCHANGED <<holder, tracking, result>>

(* Nothing valid is cached: `from` spawns, track_symlinks gives up.          *)
Miss(c) == IF tracking[c] THEN ReturnTracked(c) ELSE GoOn(c, "spawn", None)

(* What tells an environment from that of another executable or version.     *)
Identity(env) == <<env.executable, env.version>>

Tracked(c) == Links[asked[c]] \cup result[c].env.symlinks

(* verify_in_memory_cache, and get and track_symlinks up to the cache file.  *)
LookInMemory(c) ==
  LET changed == Changed(Entry(c).stamps)
      env == IF changed THEN None ELSE Entry(c).env IN
  /\ pc[c] = "verify"
  /\ entries' = [entries EXCEPT ![Slot(c)].env = env]
  /\ IF changed /\ Entry(c).dir THEN Remove(File(c)) ELSE UNCHANGED fileVars
  /\ CASE ~tracking[c] /\ env # None -> Return(c, env, TRUE)
       [] tracking[c] /\ Tracked(c) \subseteq {s[1] : s \in Entry(c).stamps}
            -> ReturnTracked(c)
       [] OTHER -> IF Entry(c).dir THEN GoOn(c, "open", None) ELSE Miss(c)
  /\ UNCHANGED <<worldVars, processVars, poisoned, dir, era, history>>

(* get_cache_from_file: open, parse ...                                      *)
Content(c) == files[File(c)]
CanParse(c) == Content(c) # None /\ Parses(Content(c))

Load(c) ==
  LET details == Deserialized(Content(c)) IN
  /\ GoOn(c, "check", details)
  /\ mixed' = IF Hybrid(Content(c)) THEN mixed \cup {Identity(details.env)} ELSE mixed

FaultyOpenFile(c) ==                \* takes the file of another executable
  /\ pc[c] = "open"
  /\ IF CanParse(c) THEN Load(c) ELSE Miss(c) /\ UNCHANGED mixed
  /\ UNCHANGED <<worldVars, processVars, entries, poisoned, fileVars, dir, era,
                 raced>>

(* ... and look for a collision of hashes.  A file that cannot be opened,    *)
(* read or parsed is a miss too, ...                                         *)
OpenFile(c) ==
  /\ pc[c] = "open"
  /\ \/ /\ CanParse(c)
        /\ Path(c) \in Deserialized(Content(c)).env.symlinks
        /\ Load(c)
     \/ Miss(c) /\ UNCHANGED mixed
  /\ UNCHANGED <<worldVars, processVars, entries, poisoned, fileVars, dir, era,
                 raced>>

(* ... then compare the times.  get keeps what it read and returns it,       *)
(* track_symlinks stores it once more with the new symlinks.                 *)
CheckFile(c) ==
  /\ pc[c] = "check"
  /\ IF Valid(found[c].stamps)
       THEN /\ IF tracking[c]
                 THEN /\ GoOn(c, "store", [found[c] EXCEPT !.env.symlinks = @ \cup Tracked(c)])
                      /\ mixed' = IF Identity(result[c].env) \in mixed
                                  THEN mixed \cup {Identity(found[c].env)} ELSE mixed
                      /\ UNCHANGED entries
                 ELSE /\ entries' = [entries EXCEPT ![Slot(c)].env = found[c].env,
                                                    ![Slot(c)].stamps = found[c].stamps]
                      /\ Return(c, found[c].env, TRUE)
                      /\ UNCHANGED mixed
            /\ UNCHANGED fileVars
       ELSE /\ Remove(File(c))
            /\ Miss(c)
            /\ UNCHANGED <<entries, mixed>>
  /\ UNCHANGED <<worldVars, processVars, poisoned, dir, era, raced>>

(* get_interpreter_details: Python prints what it is ...                     *)
Spawn(c) ==
  /\ pc[c] = "spawn"
  /\ version[Target[Path(c)]] # 0
  /\ version[Target[SysExecutable[Path(c)]]] # 0
  /\ GoOn(c, "store",
       [env |-> [executable |-> SysExecutable[Path(c)],
                 version |-> version[Target[SysExecutable[Path(c)]]],
                 symlinks |-> {Path(c), SysExecutable[Path(c)]}],
        stamps |-> {}])
  /\ UNCHANGED <<worldVars, processVars, entries, poisoned, fileVars, dir, era,
                 history>>

(* ... or it cannot be started, is killed after the timeout, or prints       *)
(* something else ...                                                       *)
SpawnFails(c) ==
  /\ pc[c] = "spawn"
  /\ Return(c, None, FALSE)
  /\ UNCHANGED <<worldVars, processVars, entries, poisoned, fileVars, dir, era,
                 history>>

(* ... or something that is not UTF-8: unwrap panics under the guard.        *)
SpawnPanics(c) ==
  /\ pc[c] = "spawn"
  /\ poisoned' = poisoned \cup {Slot(c)}
  /\ holder' = [holder EXCEPT ![Slot(c)] = None]
  /\ Goto(c, "panicked")
  /\ UNCHANGED <<worldVars, processVars, entries, fileVars, tracking, dir, era,
                 found, result, history>>

Finish(c) == IF tracking[c] THEN ReturnTracked(c) ELSE Return(c, found[c].env, FALSE)

FaultyStore(c) ==                   \* keeps the symlinks of the last store
  LET env == found[c].env
      stamps == Stamps(env.symlinks) IN
  /\ pc[c] = "store"
  /\ entries' = [entries EXCEPT ![Slot(c)].env = env]
  /\ raced' = IF version[Target[env.executable]] = env.version THEN raced
              ELSE raced \cup {Identity(env)}
  /\ IF Entry(c).dir THEN GoOn(c, "create", [env |-> env, stamps |-> stamps])
                    ELSE Finish(c)
  /\ UNCHANGED <<worldVars, processVars, poisoned, fileVars, dir, era, mixed>>

(* store: the times are read now, after the spawn.                           *)
Store(c) ==
  LET env == found[c].env
      stamps == Stamps(env.symlinks) IN
  /\ pc[c] = "store"
  /\ entries' = [entries EXCEPT ![Slot(c)].env = env, ![Slot(c)].stamps = stamps]
  /\ raced' = IF version[Target[env.executable]] = env.version THEN raced
              ELSE raced \cup {Identity(env)}
  /\ IF Entry(c).dir THEN GoOn(c, "create", [env |-> env, stamps |-> stamps])
                    ELSE Finish(c)
  /\ UNCHANGED <<worldVars, processVars, poisoned, fileVars, dir, era, mixed>>

(* store_cache_in_file: create truncates the file ...                        *)
CreateFile(c) ==
  /\ pc[c] = "create"
  /\ files' = [files EXCEPT ![File(c)] = Truncated]
  /\ writers' = [writers EXCEPT ![File(c)] = @ \cup {c}]
  /\ GoOn(c, "write", found[c])
  /\ UNCHANGED <<worldVars, processVars, entries, poisoned, written, dir, era, history>>

CreateFails(c) ==
  /\ pc[c] = "create"
  /\ Finish(c)
  /\ UNCHANGED <<worldVars, processVars, entries, poisoned, fileVars, dir, era,
                 history>>

Close(c) ==
  /\ writers' = [writers EXCEPT ![File(c)] = @ \ {c}]
  /\ written' = [written EXCEPT ![c] = 0]
  /\ Finish(c)

(* ... and to_writer_pretty writes it token by token, without a buffer: each *)
(* field goes to its place in the file, over what another call has written   *)
(* there.  It is lost if the file was removed in between.                    *)
WriteFile(c) ==
  /\ pc[c] = "write"
  /\ files' = [files EXCEPT ![File(c)] =
       IF c \in writers[File(c)] THEN [@ EXCEPT ![written[c] + 1] = found[c]] ELSE @]
  /\ IF written[c] + 1 = NumWrites
       THEN Close(c)
       ELSE /\ GoOn(c, "write", found[c])
            /\ written' = [written EXCEPT ![c] = @ + 1]
            /\ UNCHANGED writers
  /\ UNCHANGED <<worldVars, processVars, entries, poisoned, dir, era, history>>

WriteFails(c) ==
  /\ pc[c] = "write"
  /\ Close(c)
  /\ UNCHANGED <<worldVars, processVars, entries, poisoned, files, dir, era, history>>

CallStep(c) ==
  \/ ReadDirectory(c) \/ ClaimEntry(c) \/ LockEntry(c) \/ LockPoisoned(c)
  \/ LookInMemory(c) \/ OpenFile(c) \/ CheckFile(c)
  \/ Spawn(c) \/ SpawnFails(c) \/ SpawnPanics(c)
  \/ Store(c) \/ CreateFile(c) \/ CreateFails(c) \/ WriteFile(c)
  \/ WriteFails(c)

-----------------------------------------------------------------------------
(* Something happens from outside.                                           *)
Event == clock < MaxEvents /\ clock' = clock + 1

(* The first configure with a cache directory.                               *)
SetCacheDirectory(s) ==
  /\ s \in alive \ cacheDir
  /\ cacheDir' = cacheDir \cup {s}
  /\ UNCHANGED <<worldVars, epoch, clearing, alive, entryVars, fileVars, callVars,
                 history>>

(* clear(): the table is emptied, entries in use live on with their users.   *)
ClearEntries(s) ==
  /\ s \in alive \ clearing
  /\ Event
  /\ epoch' = [epoch EXCEPT ![s] = @ + 1]
  /\ clearing' = clearing \cup {s}
  /\ UNCHANGED <<server, asked, version, cacheDir, alive, entryVars, fileVars, callVars, history>>

(* Then the directory is removed, or as much of it as can be.                *)
RemoveDirectory(s) ==
  /\ s \in clearing
  /\ clearing' = clearing \ {s}
  /\ \E gone \in SUBSET Files :
       /\ s \notin cacheDir => gone = {}
       /\ files' = [f \in Files |-> IF f \in gone THEN None ELSE files[f]]
       /\ writers' = [f \in Files |-> IF f \in gone THEN {} ELSE writers[f]]
  /\ UNCHANGED <<worldVars, cacheDir, epoch, alive, written, entryVars, callVars, history>>

(* The client kills the server: all it had in memory is gone, and what it     *)
(* was writing stays as it is.                                               *)
Reset(f, cs, value) == [c \in Calls |-> IF c \in cs THEN value ELSE f[c]]

Crash(s) ==
  LET dead == {c \in Calls : server[c] = s} IN
  /\ s \in alive
  /\ Event
  /\ alive' = alive \ {s}
  /\ cacheDir' = cacheDir \ {s}
  /\ clearing' = clearing \ {s}
  /\ epoch' = [epoch EXCEPT ![s] = 0]
  /\ entries' = [k \in Slots |-> IF k[1] = s THEN None ELSE entries[k]]
  /\ holder' = [k \in Slots |-> IF k[1] = s THEN None ELSE holder[k]]
  /\ poisoned' = {k \in poisoned : k[1] # s}
  /\ writers' = [f \in Files |-> writers[f] \ dead]
  /\ written' = Reset(written, dead, 0)
  /\ pc' = Reset(pc, dead, "killed")
  /\ tracking' = Reset(tracking, dead, FALSE)
  /\ dir' = Reset(dir, dead, FALSE)
  /\ era' = Reset(era, dead, 0)
  /\ found' = Reset(found, dead, None)
  /\ result' = Reset(result, dead, None)
  /\ UNCHANGED <<server, asked, version, files, history>>

(* It starts the server again and repeats its requests.                      *)
Restart(s) ==
  /\ s \in {server[c] : c \in Calls} \ alive
  /\ alive' = alive \cup {s}
  /\ pc' = Reset(pc, {c \in Calls : server[c] = s}, "directory")
  /\ UNCHANGED <<worldVars, cacheDir, epoch, clearing, entryVars, fileVars, tracking, dir,
                 era, found, result, history>>

(* A binary is installed or replaced; a binary is removed.                   *)
Upgrade(b) ==
  /\ Event
  /\ version' = [version EXCEPT ![b] = clock + 2]
  /\ UNCHANGED <<server, asked, processVars, entryVars, fileVars, callVars,
                 history>>

Uninstall(b) ==
  /\ version[b] # 0
  /\ Event
  /\ version' = [version EXCEPT ![b] = 0]
  /\ UNCHANGED <<server, asked, processVars, entryVars, fileVars,
                 callVars, history>>

(* Every call is over.                                                       *)
Quiescent ==
  /\ \A c \in Calls : pc[c] \in {"done", "panicked", "killed"}
  /\ UNCHANGED vars

Next ==
  \/ \E c \in Calls : CallStep(c)
  \/ \E s \in Processes :
       SetCacheDirectory(s) \/ ClearEntries(s) \/ RemoveDirectory(s)
       \/ Crash(s) \/ Restart(s)
  \/ \E b \in Binaries : Upgrade(b) \/ Uninstall(b)
  \/ Quiescent

Spec == Init /\ [][Next]_vars

-----------------------------------------------------------------------------
(* A cached answer is about the interpreter that was asked for, also when    *)
(* two paths share a cache file because their hashes collide.  The exception *)
(* is a collision of calls that also write at the same time: the fields of   *)
(* one file may then be about both interpreters.                             *)
NoForeignInterpreter ==
  \A c \in Calls :
    result[c] # None /\ result[c].env # None =>
      \/ Target[result[c].env.executable] = Target[SysExecutable[asked[c]]]
      \/ Identity(result[c].env) \in mixed

(* If a cached answer is not what the installed executable would say, then   *)
(* the executable changed after the answer was printed and before the times  *)
(* were read that are stored with it, or the answer was read from a file     *)
(* that two calls were writing at the same time.  No upgrade at any other    *)
(* moment, no clear, and no crash in the middle of a write makes the cache   *)
(* answer for a replaced executable, and a second server only by writing     *)
(* into an open file of the first.                                           *)
StaleOnlyByRace ==
  \A c \in Calls :
    (/\ result[c] # None
     /\ result[c].cached
     /\ result[c].now # 0
     /\ result[c].env.version # result[c].now)
      => Identity(result[c].env) \in raced \cup mixed

-----------------------------------------------------------------------------
(* The inductive invariant: where the details that are passed on come from.   *)
TypeOK ==
  /\ server \in [Calls -> Processes] /\ asked \in [Calls -> Paths]
  /\ clock \in 0..MaxEvents /\ version \in [Binaries -> Nat]
  /\ cacheDir \subseteq Processes /\ clearing \subseteq Processes /\ alive \subseteq Processes
  /\ epoch \in [Processes -> 0..MaxEvents] /\ \A s \in Processes : epoch[s] <= clock
  /\ entries \in [Slots -> Entries \cup {None}]
  /\ holder \in [Slots -> Calls \cup {None}] /\ poisoned \subseteq Slots
  /\ files \in [Files -> Contents \cup {None}]
  /\ writers \in [Files -> SUBSET Calls] /\ written \in [Calls -> 0 .. NumWrites - 1]
  /\ pc \in [Calls -> {"directory", "entry", "lock", "verify", "open", "check", "spawn", "store",
                       "create", "write", "done", "panicked", "killed"}]
  /\ tracking \in [Calls -> BOOLEAN] /\ dir \in [Calls -> BOOLEAN]
  /\ era \in [Calls -> 0..MaxEvents]
  /\ found \in [Calls -> Findings \cup {None}]
  /\ result \in [Calls -> Answers \cup {None}]
  /\ raced \subseteq Paths \X Nat /\ mixed \subseteq Paths \X Nat

(* Details were printed by an executable among their symlinks, and all of      *)
(* these lead to the same binary, unless a hybrid file is behind them.         *)
Proper(env) ==
  /\ env.version # 0
  /\ Target[SysExecutable[env.executable]] = Target[env.executable]
  /\ Identity(env) \in mixed \/
       /\ env.executable \in env.symlinks
       /\ \A q \in env.symlinks : Target[SysExecutable[q]] = Target[env.executable]

IsAbout(env, p) ==
  Identity(env) \in mixed \/ Target[env.executable] = Target[SysExecutable[p]]

(* The times kept with details are those of the executable that printed them, *)
(* unless a race or a hybrid file is behind them.                             *)
Backed(env, stamps) ==
  \/ Identity(env) \in raced \cup mixed
  \/ \E s \in stamps : Target[s[1]] = Target[env.executable] /\ s[2] = env.version

EntriesAreSound ==
  \A k \in Slots :
    entries[k] # None /\ entries[k].env # None =>
      /\ Proper(entries[k].env) /\ IsAbout(entries[k].env, k[2])
      /\ Backed(entries[k].env, entries[k].stamps)

(* Open files are there, and what has been written into them is sound.        *)
FilesAreSound ==
  \A f \in Files :
    /\ writers[f] # {} => files[f] # None
    /\ files[f] # None =>
         \A i \in Writes : files[f][i] # Torn =>
           Proper(files[f][i].env) /\ Backed(files[f][i].env, files[f][i].stamps)

(* A call has an entry from create_cache on, and what it has at hand is about  *)
(* its path.                                                                   *)
HeldIsSound(c) ==
  /\ pc[c] \in {"lock", "verify", "open", "check", "spawn", "store", "create", "write"} =>
       entries[Slot(c)] # None
  /\ pc[c] = "spawn" => ~tracking[c]
  /\ pc[c] \in {"check", "store", "create", "write"} =>
       found[c] # None /\ Proper(found[c].env) /\ IsAbout(found[c].env, Path(c))
  /\ pc[c] \in {"check", "create", "write"} => Backed(found[c].env, found[c].stamps)

AnswerIsSound(c) ==
  /\ tracking[c] => result[c] # None /\ result[c].env # None
  /\ result[c] # None /\ result[c].env # None =>
       Proper(result[c].env) /\ IsAbout(result[c].env, asked[c])
  /\ result[c] # None /\ result[c].cached =>
       /\ result[c].env # None
       /\ result[c].now # 0 /\ result[c].env.version # result[c].now
            => Identity(result[c].env) \in raced \cup mixed

IInv ==
  /\ TypeOK /\ EntriesAreSound /\ FilesAreSound
  /\ \A c \in Calls : HeldIsSound(c) /\ AnswerIsSound(c)

(* "mtime & ctimes of none of the exes (symlinks) have changed, then we can   *)
(* use the cached info": a cached answer is what the executable says now.     *)
CachedInfoIsCurrent ==
  \A c \in Calls :
    result[c] # None /\ result[c].cached /\ result[c].now # 0
      => result[c].env.version = result[c].now
=============================================================================
