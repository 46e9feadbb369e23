----------------------------- MODULE MCWorkspace -----------------------------
(* Package app imports package lib, which has an external test package; the  *)
(* documents are a package file and an external test file of one directory,  *)
(* and a file of a dependency.                                               *)
EXTENDS Workspace
MCPkgOf == [f \in File |-> CASE f = "lib1" -> "lib" [] f = "lib2" -> "lib" [] f = "app1" -> "app" [] f = "libx" -> "lib_test"]
MCForTest == [p \in Pkg |-> IF p = "lib_test" THEN "lib" ELSE None]
MCImports == [p \in Pkg |-> IF p = "lib" THEN {} ELSE {"lib"}]
MCUnitOf == [f \in Doc |-> IF f = "base" THEN "u" ELSE IF f = "test" THEN "u_test" ELSE "dep"]
MCBaseOf == [u \in Unit |-> IF u = "u_test" THEN "u" ELSE u]
MCUnitDir == [u \in Unit |-> IF u = "dep" THEN None ELSE "app"]
MCOnDisk == [f \in Doc |-> 0]

Calm == [files |-> {"lib1", "app1"}, cached |-> FALSE, indexed |-> FALSE, shared |-> FALSE, starts |-> 1,
         writes |-> 0, removes |-> 0, mods |-> 0, resends |-> 0, fails |-> 0, kills |-> 0, stops |-> 0,
         opens |-> {}, edits |-> 0, closes |-> 0, imports |-> 0]
Warm == [Calm EXCEPT !.cached = TRUE, !.indexed = TRUE]
Writes   == [Warm EXCEPT !.writes = 2]
Removes  == [Warm EXCEPT !.files = @ \cup {"lib2"}, !.writes = 1, !.removes = 1]
Tests    == [Warm EXCEPT !.files = @ \cup {"libx"}, !.removes = 1, !.writes = 1]
Modules  == [Warm EXCEPT !.mods = 1, !.writes = 1]
Sharing  == [Warm EXCEPT !.shared = TRUE, !.writes = 1]
Failing  == [Warm EXCEPT !.writes = 1, !.resends = 1, !.fails = 1, !.stops = 1]
Restarts == [Calm EXCEPT !.starts = 2, !.kills = 1, !.writes = 1, !.mods = 1]
Decodes  == [Warm EXCEPT !.imports = 2, !.writes = 1]
Undoes   == [Warm EXCEPT !.files = @ \cup {"lib2"}, !.imports = 2, !.removes = 1]
Docs     == [Calm EXCEPT !.opens = {"base", "test"}, !.edits = 1]
Closes   == [Warm EXCEPT !.opens = {"base"}, !.edits = 2, !.closes = 1]
Replaces == [Warm EXCEPT !.opens = {"base"}, !.edits = 1, !.mods = 1]
Deps     == [Warm EXCEPT !.opens = {"dep"}, !.edits = 1, !.writes = 1]
Beside   == [Warm EXCEPT !.opens = {"dep", "base"}, !.edits = 1]
Outlives == [Warm EXCEPT !.opens = {"test"}, !.edits = 1, !.mods = 1]
Early    == [Calm EXCEPT !.opens = {"base"}, !.edits = 1, !.closes = 1]
Unbuilt  == [Calm EXCEPT !.opens = {"base"}, !.fails = 2]
MCLoads == {Writes, Removes, Tests, Modules, Sharing, Failing, Restarts, Decodes, Undoes, Docs, Closes, Replaces, Deps, Beside, Outlives, Early, Unbuilt}
\* One file of a package is removed and written again.
MCRestored == {Removes}
\* An external test stays open while the engine is replaced.
MCOutlives == {Outlives}
\* A document is closed before the first index is built.
MCEarly == {Early}
=============================================================================
