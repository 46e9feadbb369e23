----------------------------- MODULE MCIndexing -----------------------------
(* Two packages, the second importing the first and the first's test files  *)
(* importing the second; two worktrees of one repository.                   *)
EXTENDS Indexing, TLC
MCApi == (1 :> "x") @@ (2 :> "y") @@ (3 :> "x")
MCImports == ("p" :> {}) @@ ("q" :> {"p"})
MCTestImports == ("p" :> {"q"}) @@ ("q" :> {})
MCOrder == <<"p", "q">>

K(p, v, a) == UnitKey(p, v, [d \in directDepImports(p) |-> a])
Blob(v, s) == [facts |-> v, files |-> s, old |-> TRUE]
Ptr(p, v, a, s) == [key |-> K(p, v, a), own |-> v, api |-> MCApi[v], files |-> s]
First(r) == [p \in Pkgs |-> [ver |-> 1, stat |-> <<r, 0>>]]
Indexed(r) == [p \in Pkgs |-> Ptr(p, 1, "x", <<r, 0>>)]
Nothing == [p \in Pkgs |-> NoUnit]
\* Blobs of the current version and of a branch visited long ago.
OldBlobs == [k \in {K("p", 1, "x"), K("q", 1, "x"), K("p", 2, "x"), K("q", 1, "y")} |-> Blob(k.own, NoStat)]
Edit(where, r, p, v) == [where |-> where, root |-> r, pkg |-> p, ver |-> v]
Base == [disk |-> [r \in Roots |-> First(r)], blobs |-> OldBlobs,
         units |-> [r \in Roots |-> Indexed(r)],
         file |-> [r \in Roots |-> [state |-> "current", fp |-> TRUE, member |-> TRUE]],
         holder |-> [r \in Roots |-> IF r = Live THEN "session" ELSE "none"], stamp |-> FALSE,
         budget |-> [edits |-> {}, reindexes |-> 0, builds |-> 0, gcs |-> 0, passes |-> 1, faults |-> 0, kills |-> 0, decodes |-> 0]]
\* Two saves racing each other.
Saves == [Base EXCEPT !.budget.edits = {Edit("text", Live, "p", 2), Edit("disk", Live, "q", 2)},
                      !.budget.reindexes = 2, !.budget.passes = 0]
\* A reindex racing a repair, with a failing write.
Repairs == [Base EXCEPT !.blobs = [k \in {K("p", 1, "x"), K("q", 1, "x")} |-> Blob(1, NoStat)],
                      !.budget.edits = {Edit("text", Live, "p", 2), Edit("disk", Live, "q", 2)},
                      !.budget.reindexes = 1, !.budget.faults = 1]
\* A query's decode racing a save and the repair of a broken dependent.
Queries == [Base EXCEPT !.budget.edits = {Edit("disk", Live, "p", 2), Edit("disk", Live, "q", 3), Edit("disk", Live, "q", 2)},
                        !.budget.reindexes = 2, !.budget.decodes = 2, !.budget.passes = 0]
\* A package edited and edited back, decoded between two saves of it.
Back == [Base EXCEPT !.budget.edits = {Edit("disk", Live, "q", 2), Edit("disk", Live, "q", 1)},
                     !.budget.reindexes = 2, !.budget.decodes = 1, !.budget.passes = 0]
\* A collection while this root reindexes content an old blob already has.
Collect == [Base EXCEPT !.budget.edits = {Edit("disk", Live, "p", 2)}, !.budget.reindexes = 1, !.budget.gcs = 1]
\* A collection while the other worktree's database is built or killed; its
\* disk is on a branch whose blobs are old.
Worktree == [Base EXCEPT !.disk["b"]["p"] = [ver |-> 2, stat |-> <<"b", 1>>], !.budget.gcs = 1, !.budget.builds = 1,
                         !.budget.kills = 1]
\* The session's database was seeded from the other worktree's, and the CAS
\* does not list it when the indexer there collects.
Seeded == [Worktree EXCEPT !.file[Live].member = FALSE, !.budget.gcs = 0, !.budget.kills = 0]
\* Databases in every state a session can find, built, killed, repaired.
Closed(state, us) == [Base EXCEPT !.holder[Live] = "none", !.units[Live] = us, !.stamp = (state = "absent"),
                        !.file[Live] = [state |-> state, fp |-> state # "absent" /\ us # Nothing,
                                         member |-> state # "absent"],
                        !.budget.edits = {Edit("disk", Live, "p", 3)},
                        !.budget.builds = 1, !.budget.kills = 1, !.budget.faults = 1]
Fresh == Closed("absent", Nothing)
Stale == Closed("stale", Indexed(Live))
Partly == Closed("current", [Indexed(Live) EXCEPT !["q"] = Garbled])
MCLoads == {Saves, Repairs, Queries, Back, Collect, Worktree, Seeded, Fresh, Stale, Partly}
=============================================================================
