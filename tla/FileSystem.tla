------------------------------ MODULE FileSystem ------------------------------
(***************************************************************************)
(* What the locators see of a machine, and the helpers of crates/pet-fs.     *)
(*                                                                         *)
(* A path is the sequence of its components; whether it was written with a   *)
(* separator at its end does not show.  A machine m is a record of           *)
(*   m.os      "linux", "macos" or "windows"                                 *)
(*   m.disk    what there is at each path that exists: a directory, a file   *)
(*             with its contents, or a symbolic link with its target         *)
(*   m.real    the path without links of every path that leads to something  *)
(*   m.vars    the environment variables of the server, None when not set    *)
(*   m.proper  the spelling on disk of each name that can be written in      *)
(*             another case                                                  *)
(***************************************************************************)
EXTENDS Naturals, FiniteSets, Sequences, SequencesExt

CONSTANTS None,
          MaxLinks,              \* symbolic links followed before giving up
          MaxBraceExpansions     \* MAX_BRACE_EXPANSIONS

ASSUME FileSystemAssumption == MaxLinks \in Nat /\ MaxBraceExpansions \in Nat \ {0}

Windows(m) == m.os = "windows"

Directory == [type |-> "directory"]
File(contents) == [type |-> "file", contents |-> contents]
Link(target) == [type |-> "link", target |-> target]

Paths(m) == DOMAIN m.disk
Parent(p) == Front(p)
FileName(p) == Last(p)
EndsWith(p, name) == p # <<>> /\ Last(p) = name
StartsWith(p, q) == IsPrefix(q, p)
TextStartsWith(s, t) == Len(s) >= Len(t) /\ SubSeq(s, 1, Len(t)) = t

-----------------------------------------------------------------------------
(* The calls of std::fs and std::path.                                       *)
LinksOn(disk, p) ==
  {i \in DOMAIN p : SubSeq(p, 1, i) \in DOMAIN disk /\ disk[SubSeq(p, 1, i)].type = "link"}

FollowOne(disk, p) ==
  LET first == Min(LinksOn(disk, p))
  IN  disk[SubSeq(p, 1, first)].target \o SubSeq(p, first + 1, Len(p))

(* The path without links, None if it leads nowhere or if there are more     *)
(* links on the way.                                                         *)
Follow(disk, p, links) ==
  LET step(q, i) == IF LinksOn(disk, q) = {} THEN q ELSE FollowOne(disk, q)
      end == FoldLeft(step, p, [i \in 1..links |-> i])
  IN  IF LinksOn(disk, end) = {} /\ end \in DOMAIN disk THEN end ELSE None

(* The paths that exist when this many links may be followed.                *)
Reachable(disk, links) ==
  LET throughLink(paths, l) ==
        {l \o SubSeq(p, Len(disk[l].target) + 1, Len(p)) :
           p \in {q \in paths : StartsWith(q, disk[l].target)}}
      step(paths, i) ==
        paths \cup UNION {throughLink(paths, l) : l \in {p \in DOMAIN disk : disk[p].type = "link"}}
  IN  FoldLeft(step, DOMAIN disk, [i \in 1..links |-> i])

RealPaths(disk) ==
  LET existing == {p \in Reachable(disk, MaxLinks) : Follow(disk, p, MaxLinks) # None}
  IN  [p \in existing |-> Follow(disk, p, MaxLinks)]

Canonicalize(m, p) == IF p \in DOMAIN m.real THEN m.real[p] ELSE None

Exists(m, p) == p \in DOMAIN m.real
HasType(m, p, type) == Exists(m, p) /\ m.disk[m.real[p]].type = type
IsFile(m, p) == HasType(m, p, "file")
IsDirectory(m, p) == HasType(m, p, "directory")

(* The path itself, with the links of the directories above it followed.     *)
Entry(m, p) == IF p # <<>> /\ Exists(m, Front(p)) THEN Append(m.real[Front(p)], Last(p)) ELSE p
LinkAt(m, entry) == entry \in Paths(m) /\ m.disk[entry].type = "link"
IsLink(m, p) == LinkAt(m, Entry(m, p))

(* The contents of a file, None if it cannot be read.                        *)
Read(m, p) == IF IsFile(m, p) THEN m.disk[m.real[p]].contents ELSE None

ReadDirectory(m, p) ==
  IF ~Exists(m, p) THEN {}
  ELSE {Append(p, Last(q)) : q \in {q \in Paths(m) : q # <<>> /\ Front(q) = m.real[p]}}

(* The length of a path in characters.                                       *)
PathLength(p) == FoldLeft(LAMBDA n, name : n + 1 + Len(name), 0, p)

-----------------------------------------------------------------------------
(* crates/pet-fs/src/path.rs                                                 *)

(* normalize_case_windows: each component as it is spelled on disk, for a    *)
(* path that exists.                                                         *)
ProperCase(m, p) == [i \in DOMAIN p |-> IF p[i] \in DOMAIN m.proper THEN m.proper[p[i]] ELSE p[i]]

NormalizeCaseWindows(m, p) == IF Exists(m, ProperCase(m, p)) THEN ProperCase(m, p) ELSE p

(* norm_case; its table of earlier answers is left out, since it returns     *)
(* what the call would.                                                      *)
NormCase(m, p) == IF Windows(m) THEN NormalizeCaseWindows(m, p) ELSE p

ResolveAnySymlink(m, p) ==
  IF IsLink(m, p) /\ Canonicalize(m, p) # p THEN Canonicalize(m, p) ELSE None

(* Names that start with python or conda and do not end with -config or      *)
(* -build.                                                                   *)
PythonNames ==
  {"python", "python3", "python3.11", "python3.12",
   "python.exe", "python3.exe", "python3.12.exe"}
CondaNames == {"conda", "conda.exe"}

ResolveSymlink(m, p) ==
  IF p # <<>> /\ FileName(p) \in PythonNames \cup CondaNames
    THEN ResolveAnySymlink(m, p) ELSE None

(* get_user_home of pet-fs, of pet-core on unix and of pet-core on Windows.  *)
FirstSet(values) ==
  LET set == SelectSeq(values, LAMBDA v : v # None)
  IN  IF set = <<>> THEN None ELSE Head(set)

UserHome(m) ==
  LET home == IF Windows(m) THEN FirstSet(<<m.vars["USERPROFILE"], m.vars["HOME"]>>)
                            ELSE m.vars["HOME"]
  IN  IF home = None THEN None ELSE NormCase(m, home)

ExpansionHome(m) ==
  LET home == FirstSet(<<m.vars["HOME"], m.vars["USERPROFILE"]>>)
  IN  IF home = None THEN None ELSE NormCase(m, home)

(* ~ at the start of a path and ${HOME} in it; the latter stands for nothing *)
(* when there is no home.                                                    *)
ExpandPath(m, p) ==
  IF p # <<>> /\ Head(p) = "~" /\ ExpansionHome(m) # None
    THEN ExpansionHome(m) \o Tail(p)
    ELSE FlattenSeq([i \in DOMAIN p |->
           IF p[i] # "${HOME}" THEN <<p[i]>>
           ELSE LET home == FirstSet(<<m.vars["HOME"], m.vars["USERPROFILE"]>>)
                IN  IF home = None THEN <<>> ELSE home])

-----------------------------------------------------------------------------
(* crates/pet-fs/src/glob.rs.  A pattern is a sequence of components, each a *)
(* name, a wildcard that matches one component, the recursive wildcard, or   *)
(* a brace group: a sequence of alternatives.                                *)
Name(n) == [segment |-> "name", name |-> n]
Star == [segment |-> "star"]
StarStar == [segment |-> "starstar"]
Braces(alternatives) == [segment |-> "braces", alternatives |-> alternatives]

HasBracePattern(pattern) == \E i \in DOMAIN pattern : pattern[i].segment = "braces"
HasMetacharacters(pattern) ==
  \E i \in DOMAIN pattern : pattern[i].segment \in {"star", "starstar"}
IsGlobPattern(pattern) == HasMetacharacters(pattern) \/ HasBracePattern(pattern)

(* expand_braces: every choice of alternatives, leftmost slowest, as many as *)
(* the limit allows.                                                         *)
ExpandBraces(pattern) ==
  LET alternatives(s) == IF s.segment = "braces" THEN s.alternatives ELSE <<s>>
      extend(prefixes, s) ==
        FlattenSeq([i \in DOMAIN prefixes |->
          [j \in DOMAIN alternatives(s) |-> Append(prefixes[i], alternatives(s)[j])]])
      all == FoldLeft(extend, << <<>> >>, pattern)
  IN  SubSeq(all, 1, IF Len(all) < MaxBraceExpansions THEN Len(all) ELSE MaxBraceExpansions)

(* The glob crate: paths of the disk that a pattern without braces matches;  *)
(* the recursive wildcard stands for any number of directories.              *)
Matches(pattern, p) ==
  LET fits[i \in 0..Len(pattern), j \in 0..Len(p)] ==
        CASE i = 0 -> j = 0
          [] i > 0 /\ pattern[i].segment = "starstar" ->
               fits[i - 1, j] \/ (j > 0 /\ fits[i, j - 1])
          [] i > 0 /\ pattern[i].segment = "star" -> j > 0 /\ fits[i - 1, j - 1]
          [] OTHER -> j > 0 /\ p[j] = pattern[i].name /\ fits[i - 1, j - 1]
  IN  fits[Len(pattern), Len(p)]

GlobMatches(m, pattern) == {p \in Paths(m) : Matches(pattern, p)}

(* A pattern without wildcards is a path, whether or not there is anything.  *)
Literal(pattern) == [i \in DOMAIN pattern |-> pattern[i].name]

ExpandGlobPattern(m, pattern) ==
  IF ~IsGlobPattern(pattern) THEN {Literal(pattern)}
  ELSE UNION {IF HasMetacharacters(p) THEN GlobMatches(m, p) ELSE {Literal(p)} :
                p \in ToSet(ExpandBraces(pattern))}

ExpandGlobPatterns(m, patterns) == UNION {ExpandGlobPattern(m, p) : p \in patterns}
=============================================================================
