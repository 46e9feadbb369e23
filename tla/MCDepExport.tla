----------------------------- MODULE MCDepExport -----------------------------
(* A diamond with an edge that skips it, top imports mid and leaf and mid    *)
(* imports leaf, and a package of its own that pushes others out of a cache  *)
(* of one entry.                                                             *)
EXTENDS DepExport, TLC
MCOrder == <<"top", "mid", "leaf", "other">>
MCImports == ("top" :> {"mid", "leaf"}) @@ ("mid" :> {"leaf"}) @@ ("leaf" :> {}) @@ ("other" :> {})
MCCap == ("decl" :> 1) @@ ("full" :> 1)

Req(t, m, l, o) == ("top" :> t) @@ ("mid" :> m) @@ ("leaf" :> l) @@ ("other" :> o)
Base == [req |-> ("decl" :> Zero) @@ ("full" :> Zero), exports |-> Zero, bad |-> {}, cancels |-> 0,
         edits |-> {}, deletes |-> {}, decode |-> FALSE, memo |-> FALSE, plain |-> TRUE]
Plain   == [Base EXCEPT !.req["decl"] = Req(1, 1, 0, 1)]
Cancels == [Base EXCEPT !.req["decl"] = Req(1, 0, 0, 0), !.exports = Req(0, 1, 0, 0), !.cancels = 1]
Broken  == [Base EXCEPT !.req["decl"] = Req(1, 0, 0, 0), !.exports = Req(0, 1, 1, 0), !.bad = {"leaf"}]
Edits   == [Base EXCEPT !.req["decl"] = Req(0, 2, 0, 1), !.edits = {"leaf"}]
Exports == [Base EXCEPT !.exports = Req(0, 1, 2, 0), !.req["decl"] = Req(0, 0, 0, 1)]
Memo    == [Base EXCEPT !.exports = Req(2, 0, 0, 0), !.req["decl"] = Req(0, 0, 0, 1), !.memo = TRUE]
Bodies  == [Base EXCEPT !.req["decl"] = Req(1, 0, 0, 0), !.req["full"] = Req(0, 1, 0, 0), !.plain = FALSE]
Decodes == [Base EXCEPT !.req["decl"] = Req(1, 1, 0, 0), !.decode = TRUE, !.plain = FALSE]
MCLoads == {Plain, Cancels, Broken, Edits, Exports, Memo, Bodies, Decodes}
\* One request with bodies, then ordinary ones.
SplitLoads == {[Bodies EXCEPT !.req["decl"] = Req(1, 0, 0, 1)]}
\* Two goroutines whose calls meet at leaf, one of them nested.
LostLoads == {[Base EXCEPT !.req["decl"] = Req(1, 1, 2, 1)]}
=============================================================================
