----------------------------- MODULE MCSession ------------------------------
(* Instance: initialize and shutdown (Interactive), two Background queries on one document, one pool
   token, the client watch and one other task.  The loads split the product of all of them. *)
EXTENDS Session, TLC

CONSTANTS i, s, q1, q2, w, t1, doc, noDoc

MCReqs == {i, s, q1, q2}
MCMethodOf == (i :> "initialize") @@ (s :> "shutdown") @@ (q1 :> "query") @@ (q2 :> "query")
MCDocOf == (i :> noDoc) @@ (s :> noDoc) @@ (q1 :> doc) @@ (q2 :> doc)
MCPriorityOf == (i :> "Interactive") @@ (s :> "Interactive") @@ (q1 :> "Background")
                  @@ (q2 :> "Background")
Load(W, R, n, L, f) ==
  [waits |-> W, requests |-> R, changes |-> (doc :> n) @@ (noDoc :> 0), faults |-> f,
   launches |-> L @@ [x \in MCReqs \cup {doc, noDoc} |-> {}]]
MCLoads == {Load(TRUE, {i, q1, q2}, 1, <<>>, 0),         \* contention for the pool token
            Load(TRUE, {i, q1}, 2, <<>>, 0),             \* two changes around one query
            Load(TRUE, {i, q1}, 1, (q1 :> {t1}), 1),     \* a task and one fault
            Load(FALSE, {i, s}, 0, (i :> {w}), 1),       \* shutdown racing initialize
            Load(FALSE, {i}, 1, (doc :> {t1}), 1),
            Load(FALSE, {i}, 0, (i :> {w, t1}), 2)}      \* a signal, then the client's death
MCBadFrames == {[lines |-> <<>>, whole |-> FALSE], [lines |-> <<"cut">>, whole |-> FALSE]}
=============================================================================
