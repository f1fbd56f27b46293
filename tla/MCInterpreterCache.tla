------------------------- MODULE MCInterpreterCache -------------------------
(* An instance of InterpreterCache for TLC.  `python3` is a link to `python`  *)
(* that the locators know of.  `other` is another interpreter whose cache     *)
(* file has the same name because of a collision.                             *)
EXTENDS InterpreterCache, TLC

CONSTANTS c1, python, python3, other

TheTarget == [p \in Paths |-> IF p = other THEN "bOther" ELSE "bPython"]
TheSysExecutable == [p \in Paths |-> p]
TheLinks == [p \in Paths |-> IF p = other THEN {other} ELSE {python, python3}]
TheCacheFile == [p \in Paths |-> "file"]

(* The coarsest cut of a file that lets an executable meet the symlinks of    *)
(* another one, and what it printed the times of an upgrade.                  *)
TheWriteOf ==
  [f \in {"executable", "printed", "symlinks", "times"} |->
     IF f \in {"executable", "printed"} THEN 1 ELSE 2]

(* The resolve request is about `python`, the calls of locators about either. *)
TheRequests == {r \in [Calls -> {python, other}] : r[c1] = python}

(* Processes differ only by name.                                             *)
Symmetry == Permutations(Processes)
=============================================================================
