--------------------------- MODULE DepExportProofs ---------------------------
(***************************************************************************)
(* Theorems about the export data of dependencies: what is persisted for   *)
(* the whole machine is complete and whole, and the answers of one         *)
(* indexing run agree.  Both rest on one fact about the provider under     *)
(* them: a call that returns has a result or an error, never nothing.      *)
(***************************************************************************)
EXTENDS DepExport, SequenceTheorems, FiniteSetTheorems, WellFoundedInduction, TLAPS

-----------------------------------------------------------------------------
(* Sequences, whatever their elements are.                                 *)

IsSeq(s) == s \in Seq(ToSet(s))

\* A sequence over some set is a sequence of its own elements.
LEMMA SeqOfItsOwn ==
    ASSUME NEW S, NEW s \in Seq(S)
    PROVE  IsSeq(s)
<1>1. Len(s) \in Nat /\ DOMAIN s = 1..Len(s) /\ s \in [1..Len(s) -> S]
  BY LenProperties
<1>2. s \in [1..Len(s) -> ToSet(s)]
  BY <1>1 DEF ToSet
<1>. QED  BY <1>1, <1>2, SeqDef DEF IsSeq

\* The sequences one call makes of its stack: its innermost frame replaced,
\* a frame pushed, and the two innermost replaced by one.
LEMMA TopReplaced ==
    ASSUME NEW s, IsSeq(s), s # <<>>, NEW e
    PROVE  LET t == Front(s) \o <<e>>
           IN  /\ IsSeq(t) /\ Len(t) = Len(s) /\ t # <<>> /\ t[Len(s)] = e /\ Len(s) \in Nat \ {0}
               /\ \A i \in 1..(Len(s) - 1) : t[i] = s[i]
<1>. DEFINE S == ToSet(s) \cup {e}
            u == Front(s)
            t == u \o <<e>>
<1>1. s \in Seq(S) /\ e \in S
  BY SeqMonotonic DEF IsSeq
<1>2. Len(s) \in Nat \ {0} /\ \A i \in 1..Len(s) : s[i] \in S
  BY <1>1, EmptySeq, ElementOfSeq
<1>. HIDE DEF S
<1>3. u \in Seq(S) /\ Len(u) = Len(s) - 1 /\ \A i \in 1..(Len(s) - 1) : u[i] = s[i]
  <2>. DEFINE n == Len(s) - 1
  <2>1. n \in Nat /\ \A i \in 1..n : s[i] \in S
    BY <1>2
  <2>. HIDE DEF n
  <2>2. /\ SubSeq(s, 1, n) \in Seq(S)
        /\ Len(SubSeq(s, 1, n)) = IF 1 <= n THEN n - 1 + 1 ELSE 0
        /\ \A i \in 1..(n - 1 + 1) : SubSeq(s, 1, n)[i] = s[1 + i - 1]
    BY <2>1, SubSeqProperties
  <2>3. Len(SubSeq(s, 1, n)) = n /\ \A i \in 1..n : SubSeq(s, 1, n)[i] = s[i]
    BY <2>1, <2>2
  <2>. QED  BY <2>2, <2>3 DEF Front, n
<1>. HIDE DEF u
<1>4. t \in Seq(S) /\ Len(t) = Len(s) /\ t[Len(s)] = e /\ \A i \in 1..(Len(s) - 1) : t[i] = s[i]
  BY <1>1, <1>2, <1>3
<1>. HIDE DEF t
<1>5. t # <<>>
  BY <1>2, <1>4
<1>6. IsSeq(t)
  BY <1>4, SeqOfItsOwn
<1>. QED  BY <1>2, <1>4, <1>5, <1>6 DEF u, t

\* A sequence with one more element at its end.
LEMMA Pushed ==
    ASSUME NEW s, IsSeq(s), NEW e
    PROVE  LET t == Append(s, e)
           IN  /\ IsSeq(t) /\ Len(t) = Len(s) + 1 /\ t # <<>> /\ t[Len(s) + 1] = e
               /\ Len(s) \in Nat /\ \A i \in 1..Len(s) : t[i] = s[i]
<1>. DEFINE S == ToSet(s) \cup {e}
            t == Append(s, e)
<1>1. s \in Seq(S) /\ e \in S
  BY SeqMonotonic DEF IsSeq
<1>. HIDE DEF S
<1>2. t \in Seq(S) /\ Len(t) = Len(s) + 1 /\ t[Len(s) + 1] = e /\ t # <<>> /\ \A i \in 1..Len(s) : t[i] = s[i]
  BY <1>1, AppendProperties
<1>3. Len(s) \in Nat
  BY <1>1, LenProperties
<1>. HIDE DEF t
<1>4. IsSeq(t)
  BY <1>2, SeqOfItsOwn
<1>. QED  BY <1>2, <1>3, <1>4 DEF t

\* A stack whose top frame returned to the one below it, now e.
LEMMA TopReturned ==
    ASSUME NEW s, IsSeq(s), Len(s) > 1, NEW e
    PROVE  LET t == Append(SubSeq(s, 1, Len(s) - 2), e)
           IN  /\ IsSeq(t) /\ Len(t) = Len(s) - 1 /\ t # <<>> /\ t[Len(s) - 1] = e /\ Len(s) \in Nat
               /\ \A i \in 1..(Len(s) - 2) : t[i] = s[i]
<1>. DEFINE S == ToSet(s) \cup {e}
            u == SubSeq(s, 1, Len(s) - 2)
            t == Append(u, e)
<1>1. s \in Seq(S) /\ e \in S
  BY SeqMonotonic DEF IsSeq
<1>2. Len(s) \in Nat /\ \A i \in 1..Len(s) : s[i] \in S
  BY <1>1, LenProperties, ElementOfSeq
<1>. HIDE DEF S
<1>3. u \in Seq(S) /\ Len(u) = Len(s) - 2 /\ \A i \in 1..(Len(s) - 2) : u[i] = s[i]
  <2>. DEFINE n == Len(s) - 2
  <2>1. n \in Nat /\ \A i \in 1..n : s[i] \in S
    BY <1>2
  <2>. HIDE DEF n
  <2>2. /\ SubSeq(s, 1, n) \in Seq(S)
        /\ Len(SubSeq(s, 1, n)) = IF 1 <= n THEN n - 1 + 1 ELSE 0
        /\ \A i \in 1..(n - 1 + 1) : SubSeq(s, 1, n)[i] = s[1 + i - 1]
    BY <2>1, SubSeqProperties
  <2>3. Len(SubSeq(s, 1, n)) = n /\ \A i \in 1..n : SubSeq(s, 1, n)[i] = s[i]
    BY <2>1, <2>2
  <2>. QED  BY <2>2, <2>3 DEF n
<1>. HIDE DEF u
<1>4. t \in Seq(S) /\ Len(t) = Len(u) + 1 /\ t[Len(u) + 1] = e /\ t # <<>> /\ \A i \in 1..Len(u) : t[i] = u[i]
  BY <1>1, <1>3, AppendProperties
<1>. HIDE DEF t
<1>5. IsSeq(t)
  BY <1>4, SeqOfItsOwn
<1>6. Len(t) = Len(s) - 1 /\ t[Len(s) - 1] = e /\ \A i \in 1..(Len(s) - 2) : t[i] = s[i]
  BY <1>2, <1>3, <1>4
<1>. QED  BY <1>2, <1>4, <1>5, <1>6 DEF u, t

\* A change of every element in place leaves a sequence.
LEMMA Mapped ==
    ASSUME NEW s, IsSeq(s), NEW t, t = [i \in DOMAIN s |-> t[i]]
    PROVE  IsSeq(t) /\ Len(t) = Len(s) /\ Len(s) \in Nat /\ DOMAIN s = 1..Len(s) /\ (t = <<>> <=> s = <<>>)
<1>1. Len(s) \in Nat /\ DOMAIN s = 1..Len(s)
  BY LenProperties DEF IsSeq
<1>2. DOMAIN t = 1..Len(s)
  BY <1>1
<1>3. t \in [1..Len(s) -> ToSet(t)]
  BY <1>1, <1>2 DEF ToSet
<1>4. t \in Seq(ToSet(t))
  BY <1>1, <1>3, SeqDef
<1>5. Len(t) = Len(s)
  BY <1>1, <1>2, <1>4, LenProperties
<1>6. s = <<>> <=> Len(s) = 0
  BY EmptySeq DEF IsSeq
<1>7. t = <<>> <=> Len(t) = 0
  BY <1>4, EmptySeq
<1>. QED  BY <1>1, <1>4, <1>5, <1>6, <1>7 DEF IsSeq

-----------------------------------------------------------------------------
(* The provider: a call that is about to end has a result.                 *)

FrameOK(f) ==
    /\ {"path", "kind", "pc", "res"} \subseteq DOMAIN f
    /\ f.path \in Paths /\ f.kind \in Kinds
    /\ f.pc \in {"exit", "close"} => f.res # None
StackOK(s) == IsSeq(s) /\ \A i \in 1..Len(s) : FrameOK(s[i])
CallInv ==
    /\ DOMAIN stack = Procs /\ DOMAIN ret = Procs /\ "memo" \in DOMAIN load
    /\ IsSeq(inst)
    /\ \A x \in Procs : StackOK(stack[x])
\* x is calling the provider, or has been answered.
Answering(x) == Running(x) \/ ret[x] # None
CallKept == CallInv' /\ load'.memo = load.memo /\ \A x \in Procs : Answering(x) => Answering(x)'

\* The innermost frame of a stack, and the stacks made of it.
LEMMA TopOK ==
    ASSUME NEW s, StackOK(s), s # <<>>
    PROVE  FrameOK(Last(s)) /\ Len(s) \in Nat \ {0}
<1>1. Len(s) \in Nat \ {0}
  BY EmptySeq DEF StackOK, IsSeq
<1>. QED  BY <1>1 DEF StackOK, Last

\* A stack whose top frame is replaced.
LEMMA ReplacedOK ==
    ASSUME NEW s, StackOK(s), s # <<>>, NEW e, FrameOK(e)
    PROVE  StackOK(Front(s) \o <<e>>) /\ Front(s) \o <<e>> # <<>>
<1>. DEFINE t == Front(s) \o <<e>>
<1>1. /\ IsSeq(t) /\ Len(t) = Len(s) /\ t # <<>> /\ t[Len(s)] = e /\ Len(s) \in Nat \ {0}
      /\ \A i \in 1..(Len(s) - 1) : t[i] = s[i]
  BY TopReplaced DEF StackOK
<1>. HIDE DEF t
<1>2. \A i \in 1..Len(t) : FrameOK(t[i])
  <2>. SUFFICES ASSUME NEW i \in 1..Len(t) PROVE FrameOK(t[i])
    OBVIOUS
  <2>1. CASE i = Len(s)
    BY <1>1, <2>1
  <2>2. CASE i # Len(s)
    <3>1. i \in 1..(Len(s) - 1) /\ i \in 1..Len(s)
      BY <1>1, <2>2
    <3>. QED  BY <1>1, <3>1 DEF StackOK
  <2>. QED  BY <2>1, <2>2
<1>3. StackOK(t) /\ t # <<>>
  BY <1>1, <1>2 DEF StackOK
<1>. QED  BY <1>3 DEF t

\* A stack with a frame pushed on it.
LEMMA PushedOK ==
    ASSUME NEW s, StackOK(s), NEW e, FrameOK(e)
    PROVE  StackOK(Append(s, e)) /\ Append(s, e) # <<>>
<1>. DEFINE t == Append(s, e)
<1>1. /\ IsSeq(t) /\ Len(t) = Len(s) + 1 /\ t # <<>> /\ t[Len(s) + 1] = e
      /\ Len(s) \in Nat /\ \A i \in 1..Len(s) : t[i] = s[i]
  BY Pushed DEF StackOK
<1>. HIDE DEF t
<1>2. \A i \in 1..Len(t) : FrameOK(t[i])
  <2>. SUFFICES ASSUME NEW i \in 1..Len(t) PROVE FrameOK(t[i])
    OBVIOUS
  <2>1. CASE i = Len(s) + 1
    BY <1>1, <2>1
  <2>2. CASE i # Len(s) + 1
    <3>1. i \in 1..Len(s)
      BY <1>1, <2>2
    <3>. QED  BY <1>1, <3>1 DEF StackOK
  <2>. QED  BY <2>1, <2>2
<1>3. StackOK(t) /\ t # <<>>
  BY <1>1, <1>2 DEF StackOK
<1>. QED  BY <1>3 DEF t

\* A stack whose top frame has returned.
LEMMA ReturnedOK ==
    ASSUME NEW s, StackOK(s), Len(s) > 1, NEW e, FrameOK(e)
    PROVE  LET t == Append(SubSeq(s, 1, Len(s) - 2), e) IN StackOK(t) /\ t # <<>>
<1>. DEFINE t == Append(SubSeq(s, 1, Len(s) - 2), e)
<1>1. /\ IsSeq(t) /\ Len(t) = Len(s) - 1 /\ t # <<>> /\ t[Len(s) - 1] = e /\ Len(s) \in Nat
      /\ \A i \in 1..(Len(s) - 2) : t[i] = s[i]
  BY TopReturned DEF StackOK
<1>. HIDE DEF t
<1>2. \A i \in 1..Len(t) : FrameOK(t[i])
  <2>. SUFFICES ASSUME NEW i \in 1..Len(t) PROVE FrameOK(t[i])
    OBVIOUS
  <2>1. CASE i = Len(s) - 1
    BY <1>1, <2>1
  <2>2. CASE i # Len(s) - 1
    <3>1. i \in 1..(Len(s) - 2) /\ i \in 1..Len(s)
      BY <1>1, <2>2
    <3>. QED  BY <1>1, <3>1 DEF StackOK
  <2>. QED  BY <2>1, <2>2
<1>3. StackOK(t) /\ t # <<>>
  BY <1>1, <1>2 DEF StackOK
<1>. QED  BY <1>3 DEF t

\* A frame that an import was delivered to is as good as before.
LEMMA ImportedOK ==
    ASSUME NEW f, FrameOK(f), NEW p, NEW ids, NEW degraded
    PROVE  FrameOK(Imported(f, p, ids, degraded))
BY DEF FrameOK, Imported

\* A frame whose call has its result.
LEMMA EndedOK ==
    ASSUME NEW f, FrameOK(f), NEW pc, NEW res, res # None
    PROVE  FrameOK(Ended(f, pc, res))
BY DEF FrameOK, Ended

\* A step that replaces the stack of one goroutine, and leaves it running,
\* keeps the invariant.
LEMMA OneStack ==
    ASSUME CallInv, NEW x \in Procs, NEW s, StackOK(s), s # <<>>,
           stack' = [stack EXCEPT ![x] = s], UNCHANGED <<ret, load>>, IsSeq(inst)'
    PROVE  CallKept
<1>1. \A y \in Procs : stack'[y] = IF y = x THEN s ELSE stack[y]
  BY DEF CallInv
<1>2. CallInv'
  BY <1>1 DEF CallInv
<1>3. \A y \in Procs : Answering(y) => Answering(y)'
  BY <1>1 DEF Answering, Running
<1>. QED  BY <1>2, <1>3 DEF CallKept

\* A running call is the outermost one, or is nested.
LEMMA OneOrMore ==
    ASSUME NEW n \in Nat \ {0}
    PROVE  (n = 1 \/ n > 1) /\ ~(n = 1 /\ n > 1)
OBVIOUS

\* A call that returns a result to its importer, or leaves it to close.
LEMMA ReturnKeeps ==
    ASSUME CallInv, NEW x \in Procs, Running(x), NEW res, res # None, NEW sc, Return(x, res, sc),
           UNCHANGED <<ret, load>>
    PROVE  CallKept
<1>. DEFINE f == Top(x)
            g == stack[x][Len(stack[x]) - 1]
            below == SubSeq(stack[x], 1, Len(stack[x]) - 2)
            ph == Len(inst) + 1
<1>1. StackOK(stack[x]) /\ stack[x] # <<>> /\ FrameOK(f)
  BY TopOK DEF CallInv, Running, Top
<1>4. /\ Len(stack[x]) = 1 \/ Len(stack[x]) > 1
      /\ ~(Len(stack[x]) = 1 /\ Len(stack[x]) > 1)
  BY <1>1, TopOK, OneOrMore, Zenon
<1>2. CASE Len(stack[x]) = 1
  <2>1. stack' = SetTop(x, Ended(f, "close", res)) /\ inst' = inst
    BY <1>2 DEF Return
  <2>2. FrameOK(Ended(f, "close", res))
    BY <1>1, EndedOK
  <2>3. stack' = [stack EXCEPT ![x] = Front(stack[x]) \o <<Ended(f, "close", res)>>]
    BY <2>1 DEF SetTop
  <2>. QED  BY <1>1, <2>1, <2>2, <2>3, ReplacedOK, OneStack DEF CallInv
<1>3. CASE Len(stack[x]) > 1
  <2>1. FrameOK(g)
    BY <1>1, <1>3 DEF StackOK
  <2>. DEFINE e1 == Imported(g, f.path, Reach(res), res > 0 /\ inst[res].failed)
              e2 == [g EXCEPT !.todo = {}]
              e3 == Imported(g, f.path, {ph}, TRUE)
              i3 == [path |-> f.path, ids |-> {ph}, failed |-> TRUE, old |-> FALSE, raced |-> FALSE]
  <2>2. FrameOK(e1) /\ FrameOK(e3)
    BY <2>1, ImportedOK
  <2>3. FrameOK(e2)
    BY <2>1 DEF FrameOK
  <2>4. IsSeq(inst) /\ IsSeq(Append(inst, i3))
    <3>1. IsSeq(inst)
      BY DEF CallInv
    <3>. HIDE DEF i3
    <3>. QED  BY <3>1, Pushed
  <2>5. ASSUME NEW e, FrameOK(e), stack' = [stack EXCEPT ![x] = Append(below, e)], IsSeq(inst')
        PROVE  CallKept
    <3>1. StackOK(Append(below, e)) /\ Append(below, e) # <<>>
      BY <1>1, <1>3, <2>5, ReturnedOK
    <3>. HIDE DEF below
    <3>. QED  BY <2>5, <3>1, OneStack
  <2>6. CASE res # Err
    <3>1. stack' = [stack EXCEPT ![x] = Append(below, e1)] /\ inst' = inst
      BY <1>4, <1>3, <2>6, Zenon DEF Return
    <3>. HIDE DEF e1, below
    <3>. QED  BY <2>2, <2>4, <2>5, <3>1
  <2>7. CASE res = Err /\ x \in canceled
    <3>1. stack' = [stack EXCEPT ![x] = Append(below, e2)] /\ inst' = inst
      BY <1>4, <1>3, <2>7, Zenon DEF Return
    <3>. HIDE DEF e2, below
    <3>. QED  BY <2>3, <2>4, <2>5, <3>1
  <2>8. CASE res = Err /\ x \notin canceled
    <3>1. stack' = [stack EXCEPT ![x] = Append(below, e3)] /\ inst' = Append(inst, i3)
      BY <1>4, <1>3, <2>8, Zenon DEF Return
    <3>. HIDE DEF e3, i3, below
    <3>. QED  BY <2>2, <2>4, <2>5, <3>1
  <2>. QED  BY <2>6, <2>7, <2>8
<1>. QED  BY <1>2, <1>3, <1>4

\* The result of a flight reaches everyone collapsed onto it.
LEMMA EndFlightKeeps ==
    ASSUME CallInv, NEW x \in Procs, Running(x), NEW res, res # None, EndFlight(x, res),
           UNCHANGED <<ret, load>>, IsSeq(inst)'
    PROVE  CallKept
<1>. DEFINE Gets(y) == y = x \/ (At(y, "wait") /\ Top(y).kind = Top(x).kind /\ Top(y).path = Top(x).path)
            t(y) == Front(stack[y]) \o <<Ended(Top(y), "exit", res)>>
<1>1. stack' = [y \in Procs |-> IF Gets(y) THEN t(y) ELSE stack[y]]
  BY Zenon DEF EndFlight
<1>2. ASSUME NEW y \in Procs, Gets(y)
      PROVE  StackOK(t(y)) /\ t(y) # <<>>
  <2>1. stack[y] # <<>> /\ StackOK(stack[y])
    BY <1>2 DEF At, Running, CallInv
  <2>2. FrameOK(Top(y))
    BY <2>1, TopOK DEF Top
  <2>3. FrameOK(Ended(Top(y), "exit", res))
    BY <2>2, EndedOK
  <2>. QED  BY <2>1, <2>3, ReplacedOK
<1>. HIDE DEF Gets, t
<1>3. \A y \in Procs : StackOK(stack'[y]) /\ (stack'[y] = <<>> => stack[y] = <<>>)
  BY <1>1, <1>2 DEF CallInv
<1>4. CallInv'
  BY <1>1, <1>3 DEF CallInv
<1>5. \A y \in Procs : Answering(y) => Answering(y)'
  BY <1>3 DEF Answering, Running
<1>. QED  BY <1>4, <1>5 DEF CallKept

\* A note made on every frame changes no stack's shape.
LEMMA FramesMarked ==
    ASSUME CallInv, DOMAIN stack' = Procs, IsSeq(inst)', UNCHANGED ret,
           "memo" \in DOMAIN load', load'.memo = load.memo,
           \A x \in Procs : /\ stack'[x] = [n \in DOMAIN stack[x] |-> stack'[x][n]]
                            /\ \A n \in DOMAIN stack[x] : FrameOK(stack[x][n]) => FrameOK(stack'[x][n])
    PROVE  CallKept
<1>1. ASSUME NEW x \in Procs
      PROVE  StackOK(stack'[x]) /\ (stack'[x] = <<>> <=> stack[x] = <<>>)
  <2>1. IsSeq(stack[x])
    BY DEF CallInv, StackOK
  <2>2. IsSeq(stack'[x]) /\ Len(stack'[x]) = Len(stack[x]) /\ DOMAIN stack[x] = 1..Len(stack[x])
        /\ (stack'[x] = <<>> <=> stack[x] = <<>>)
    BY <2>1, Mapped
  <2>. QED  BY <2>2 DEF CallInv, StackOK
<1>2. CallInv'
  BY <1>1 DEF CallInv
<1>3. \A y \in Procs : Answering(y) => Answering(y)'
  BY <1>1 DEF Answering, Running
<1>. QED  BY <1>2, <1>3 DEF CallKept

\* The place of an import path in Order.
LEMMA PosIsPlace ==
    ASSUME NEW p \in Paths
    PROVE  Decoded(p) # None /\ Pos(p) \in DOMAIN Order
<1>1. \E i \in DOMAIN Order : Order[i] = p
  BY OrderAssumption DEF ToSet
<1>2. Pos(p) \in DOMAIN Order
  BY <1>1 DEF Pos
<1>3. DOMAIN Order = 1..Len(Order) /\ Len(Order) \in Nat
  BY OrderAssumption, LenProperties
<1>4. Pos(p) \in 1..Len(Order)
  BY <1>2, <1>3
<1>. QED  BY <1>2, <1>3, <1>4 DEF Decoded, None

\* A lookup that hits returns what it found.
LEMMA PinHitKeeps ==
    ASSUME CallInv, NEW x \in Procs, Running(x), NEW k, PinHit(x, k), lru[k].id[Top(x).path] # None,
           UNCHANGED <<ret, load>>
    PROVE  CallKept
<1>. DEFINE i == lru[k].id[Top(x).path]
<1>1. \E sc : Return(x, i, sc)
  BY Zenon DEF PinHit
<1>. HIDE DEF i
<1>2. i # None
  BY DEF i
<1>. QED  BY <1>1, <1>2, ReturnKeeps

\* A frame moves on within its call.
LEMMA TopMoves ==
    ASSUME CallInv, NEW x \in Procs, Running(x), NEW f, FrameOK(f), stack' = SetTop(x, f),
           UNCHANGED <<ret, load>>, IsSeq(inst)'
    PROVE  CallKept
<1>1. stack[x] # <<>> /\ StackOK(stack[x])
  BY DEF Running, CallInv
<1>. DEFINE s == Front(stack[x]) \o <<f>>
<1>2. StackOK(s) /\ s # <<>>
  BY <1>1, ReplacedOK
<1>3. stack' = [stack EXCEPT ![x] = s]
  BY DEF SetTop
<1>. HIDE DEF s
<1>. QED  BY <1>2, <1>3, OneStack

\* Every step of a call.
LEMMA CallStepKeeps ==
    ASSUME CallInv, NEW x \in Procs, CallStep(x)
    PROVE  CallKept
<1>1. ASSUME Running(x) PROVE FrameOK(Top(x)) /\ Top(x).path \in Paths /\ IsSeq(inst)
  BY <1>1, TopOK DEF CallInv, Running, Top, FrameOK
<1>2. CASE ask(x)
  <2>1. Running(x) /\ UNCHANGED <<ret, load>>
    BY <1>2 DEF ask, At
  <2>. DEFINE p == Top(x).path
              f == [Top(x) EXCEPT !.pc = IF Top(x).kind = "full" THEN "enter" ELSE "pin"]
  <2>2. \/ scope[x].got[p] # None /\ Return(x, scope[x].got[p], scope[x])
        \/ Return(x, Err, scope[x])
        \/ lru.full.id[p] # None /\ PinHit(x, "full")
        \/ stack' = SetTop(x, f) /\ inst' = inst
    BY <1>2, Zenon DEF ask
  <2>3. Err # None
    BY DEF Err, None
  <2>4. FrameOK(f)
    BY <1>1, <2>1 DEF FrameOK
  <2>. HIDE DEF f
  <2>. QED  BY <1>1, <2>1, <2>2, <2>3, <2>4, ReturnKeeps, PinHitKeeps, TopMoves
<1>3. CASE tryPin(x)
  <2>1. Running(x) /\ UNCHANGED <<ret, load>>
    BY <1>3 DEF tryPin, At
  <2>. DEFINE p == Top(x).path
              f == [Top(x) EXCEPT !.pc = "enter"]
  <2>2. \/ lru.decl.id[p] # None /\ PinHit(x, "decl")
        \/ Return(x, Decoded(p), scope[x])
        \/ stack' = SetTop(x, f) /\ inst' = inst
    BY <1>3, Zenon DEF tryPin
  <2>3. Decoded(p) # None
    BY <1>1, <2>1, PosIsPlace
  <2>4. FrameOK(f)
    BY <1>1, <2>1 DEF FrameOK
  <2>. HIDE DEF f
  <2>. QED  BY <1>1, <2>1, <2>2, <2>3, <2>4, ReturnKeeps, PinHitKeeps, TopMoves
<1>4. CASE enterWait(x)
  <2>. DEFINE f == [Top(x) EXCEPT !.pc = "do"]
  <2>1. Running(x) /\ UNCHANGED <<ret, load, inst>> /\ stack' = SetTop(x, f)
    BY <1>4 DEF enterWait, At
  <2>2. FrameOK(f)
    BY <1>1, <2>1 DEF FrameOK
  <2>. HIDE DEF f
  <2>. QED  BY <1>1, <2>1, <2>2, TopMoves
<1>5. CASE join(x)
  <2>. DEFINE f == [Top(x) EXCEPT !.pc = IF flight[Top(x).kind][Top(x).path] THEN "wait" ELSE "lead"]
  <2>1. Running(x) /\ UNCHANGED <<ret, load, inst>> /\ stack' = SetTop(x, f)
    BY <1>5, Zenon DEF join, At
  <2>2. FrameOK(f)
    BY <1>1, <2>1 DEF FrameOK
  <2>. HIDE DEF f
  <2>. QED  BY <1>1, <2>1, <2>2, TopMoves
<1>6. CASE lead(x)
  <2>1. Running(x) /\ UNCHANGED <<ret, load, inst>>
    BY <1>6 DEF lead, At
  <2>. DEFINE p == Top(x).path
              Found(k) ==
                 \/ k = "full" /\ lru.full.id[p] # None
                 \/ k = "decl" /\ Top(x).kind = "decl" /\ lru.full.id[p] = None /\ lru.decl.id[p] # None
                 \/ k = "none" /\ lru.full.id[p] = None /\ (Top(x).kind = "full" \/ lru.decl.id[p] = None)
              hit == CHOOSE k \in {"full", "decl", "none"} : Found(k)
              f == [Top(x) EXCEPT !.pc = "check", !.todo = Imports[p]]
  <2>2. \/ hit # "none" /\ EndFlight(x, lru[hit].id[p])
        \/ EndFlight(x, Err)
        \/ stack' = SetTop(x, f)
    BY <1>6, Zenon DEF lead
  <2>3. hit # "none" => lru[hit].id[p] # None
    <3>1. Top(x).kind \in Kinds
      BY <1>1, <2>1 DEF FrameOK
    <3>2. \E k \in {"full", "decl", "none"} : Found(k)
      BY <3>1 DEF Kinds
    <3>3. hit \in {"full", "decl", "none"} /\ Found(hit)
      BY <3>2
    <3>. QED  BY <3>3
  <2>4. Err # None
    BY DEF Err, None
  <2>5. FrameOK(f)
    BY <1>1, <2>1 DEF FrameOK
  <2>. HIDE DEF f, hit
  <2>. QED  BY <1>1, <2>1, <2>2, <2>3, <2>4, <2>5, EndFlightKeeps, TopMoves
<1>7. CASE \E d \in Paths : ImportFrom(x, d)
  <2>. PICK d \in Paths : ImportFrom(x, d)
    BY <1>7
  <2>. DEFINE f1 == [Top(x) EXCEPT !.todo = {}]
              f2 == Imported(Top(x), d, {scope[x].holder[d]}, TRUE)
              f3 == Frame(d, "decl", TRUE)
  <2>1. Running(x) /\ UNCHANGED <<ret, load, inst>>
    BY DEF ImportFrom, At
  <2>2. \/ stack' = [stack EXCEPT ![x] = Front(@) \o <<f1>>]
        \/ stack' = [stack EXCEPT ![x] = Front(@) \o <<f2>>]
        \/ stack' = [stack EXCEPT ![x] = Append(@, f3)]
    <3>1. CASE x \in canceled
      BY <3>1 DEF ImportFrom
    <3>2. CASE x \notin canceled /\ scope[x].holder[d] # None
      BY <3>2 DEF ImportFrom
    <3>3. CASE x \notin canceled /\ scope[x].holder[d] = None
      BY <3>3 DEF ImportFrom
    <3>. QED  BY <3>1, <3>2, <3>3
  <2>3. FrameOK(f1)
    BY <1>1, <2>1 DEF FrameOK
  <2>4. FrameOK(f2)
    BY <1>1, <2>1, ImportedOK
  <2>5. FrameOK(f3)
    BY DEF FrameOK, Frame, Kinds
  <2>. HIDE DEF f1, f2, f3
  <2>6. CASE stack' = SetTop(x, f1)
    BY <1>1, <2>1, <2>3, <2>6, TopMoves
  <2>7. CASE stack' = SetTop(x, f2)
    BY <1>1, <2>1, <2>4, <2>7, TopMoves
  <2>8. CASE stack' = [stack EXCEPT ![x] = Append(stack[x], f3)]
    <3>. DEFINE s == Append(stack[x], f3)
    <3>1. StackOK(s) /\ s # <<>>
      BY <2>5, PushedOK DEF CallInv
    <3>. HIDE DEF s
    <3>. QED  BY <1>1, <2>1, <2>8, <3>1, OneStack DEF s
  <2>. QED  BY <2>2, <2>6, <2>7, <2>8 DEF SetTop
<1>8. CASE finishCheck(x)
  <2>. DEFINE id == Len(inst) + 1
              e == [path |-> Top(x).path, ids |-> Top(x).ids \cup {id}, failed |-> Top(x).failed,
                    old |-> Top(x).old, raced |-> Top(x).raced]
  <2>1. Running(x) /\ UNCHANGED <<ret, load>>
    BY <1>8 DEF finishCheck, At
  <2>2. \/ EndFlight(x, Err) /\ inst' = inst
        \/ EndFlight(x, id) /\ inst' = Append(inst, e)
    <3>1. CASE x \in canceled
      BY <1>8, <3>1, Zenon DEF finishCheck
    <3>2. CASE x \notin canceled
      BY <1>8, <3>2, Zenon DEF finishCheck
    <3>. QED  BY <3>1, <3>2
  <2>. HIDE DEF e
  <2>3. IsSeq(Append(inst, e)) /\ Len(inst) \in Nat
    BY <1>1, <2>1, Pushed
  <2>4. id # None /\ Err # None
    BY <2>3 DEF None, Err
  <2>. HIDE DEF id
  <2>. QED  BY <1>1, <2>1, <2>2, <2>3, <2>4, EndFlightKeeps
<1>9. CASE exitWait(x)
  <2>. DEFINE res == Top(x).res
  <2>1. Running(x) /\ UNCHANGED <<ret, load>> /\ Top(x).pc = "exit"
    BY <1>9 DEF exitWait, At
  <2>2. \E sc : Return(x, res, sc)
    BY <1>9, Zenon DEF exitWait
  <2>3. res # None
    BY <1>1, <2>1 DEF FrameOK
  <2>. HIDE DEF res
  <2>. QED  BY <2>1, <2>2, <2>3, ReturnKeeps
<1>10. CASE closeScope(x)
  <2>1. /\ Running(x) /\ Top(x).pc = "close" /\ UNCHANGED <<inst, load>>
        /\ ret' = [ret EXCEPT ![x] = Top(x).res] /\ stack' = [stack EXCEPT ![x] = <<>>]
    BY <1>10 DEF closeScope, At
  <2>2. Top(x).res # None
    BY <1>1, <2>1 DEF FrameOK
  <2>3. StackOK(<<>>)
    BY DEF StackOK, IsSeq, ToSet
  <2>4. \A y \in Procs : /\ stack'[y] = IF y = x THEN <<>> ELSE stack[y]
                         /\ ret'[y] = IF y = x THEN Top(x).res ELSE ret[y]
    BY <2>1 DEF CallInv
  <2>5. CallInv'
    BY <2>1, <2>3, <2>4 DEF CallInv
  <2>6. \A y \in Procs : Answering(y) => Answering(y)'
    BY <2>2, <2>4 DEF Answering, Running
  <2>. QED  BY <2>1, <2>5, <2>6 DEF CallKept
<1>. QED  BY <1>2, <1>3, <1>4, <1>5, <1>6, <1>7, <1>8, <1>9, <1>10 DEF CallStep

\* The steps that are not a call's own.
LEMMA PackageKeeps ==
    ASSUME CallInv, NEW x \in Procs, NEW p \in Paths, NEW k \in Kinds, Package(x, p, k)
    PROVE  CallInv' /\ load'.memo = load.memo
           /\ \A y \in Procs : (y # x /\ Answering(y)) => Answering(y)'
<1>. DEFINE s == <<Frame(p, k, FALSE)>>
<1>1. /\ stack' = [stack EXCEPT ![x] = s] /\ ret' = [ret EXCEPT ![x] = None]
      /\ inst' = inst /\ load' = [load EXCEPT !.req[k][p] = @ - 1]
  BY Zenon DEF Package
<1>2. load'.memo = load.memo /\ "memo" \in DOMAIN load'
  BY <1>1 DEF CallInv
<1>3. FrameOK(Frame(p, k, FALSE))
  BY DEF FrameOK, Frame
<1>4. StackOK(s)
  <2>1. s \in Seq({Frame(p, k, FALSE)}) /\ Len(s) = 1 /\ s[1] = Frame(p, k, FALSE)
    OBVIOUS
  <2>2. IsSeq(s)
    BY <2>1, SeqOfItsOwn
  <2>3. \A i \in 1..1 : i = 1
    OBVIOUS
  <2>. HIDE DEF s
  <2>. QED  BY <1>3, <2>1, <2>2, <2>3, Zenon DEF StackOK
<1>. HIDE DEF s
<1>5. \A y \in Procs : /\ stack'[y] = IF y = x THEN s ELSE stack[y]
                       /\ y # x => ret'[y] = ret[y]
  BY <1>1 DEF CallInv
<1>6. CallInv'
  BY <1>1, <1>2, <1>4, <1>5 DEF CallInv
<1>. QED  BY <1>2, <1>5, <1>6 DEF Answering, Running

\* cancel keeps the exporters' invariant.
LEMMA cancelKeeps ==
    ASSUME CallInv, NEW x \in Procs, cancel(x)
    PROVE  CallKept
<1>1. UNCHANGED <<stack, ret, inst>> /\ load' = [load EXCEPT !.cancels = @ - 1]
  BY DEF cancel
<1>2. load'.memo = load.memo /\ "memo" \in DOMAIN load'
  BY <1>1 DEF CallInv
<1>. QED  BY <1>1, <1>2 DEF CallKept, CallInv, Answering, Running

\* edit keeps the exporters' invariant.
LEMMA editKeeps ==
    ASSUME CallInv, NEW p \in Paths, edit(p)
    PROVE  CallKept
<1>1. /\ UNCHANGED ret /\ load' = [load EXCEPT !.edits = @ \ {p}, !.deletes = @ \cup {p}]
      /\ inst' = [i \in DOMAIN inst |-> [inst[i] EXCEPT !.old = @ \/ inst[i].path = p]]
      /\ stack' = [x \in Procs |-> [n \in DOMAIN stack[x] |->
                    [stack[x][n] EXCEPT !.old = @ \/ (stack[x][n].path = p /\ stack[x][n].pc = "check")]]]
  BY Zenon DEF edit
<1>2. load'.memo = load.memo /\ "memo" \in DOMAIN load'
  BY <1>1 DEF CallInv
<1>3. IsSeq(inst')
  <2>1. inst' = [i \in DOMAIN inst |-> inst'[i]] /\ IsSeq(inst)
    BY <1>1, Zenon DEF CallInv
  <2>. QED  BY <2>1, Mapped
<1>4. DOMAIN stack' = Procs
  BY <1>1, Zenon
<1>5. ASSUME NEW x \in Procs
      PROVE  /\ stack'[x] = [n \in DOMAIN stack[x] |-> stack'[x][n]]
             /\ \A n \in DOMAIN stack[x] : FrameOK(stack[x][n]) => FrameOK(stack'[x][n])
  <2>. DEFINE g(n) == [stack[x][n] EXCEPT !.old = @ \/ (stack[x][n].path = p /\ stack[x][n].pc = "check")]
  <2>1. stack'[x] = [n \in DOMAIN stack[x] |-> g(n)]
    BY <1>1, Zenon
  <2>2. \A n \in DOMAIN stack[x] : FrameOK(stack[x][n]) => FrameOK(g(n))
    BY DEF FrameOK
  <2>. HIDE DEF g
  <2>. QED  BY <2>1, <2>2, Zenon
<1>. QED  BY <1>1, <1>2, <1>3, <1>4, <1>5, FramesMarked

\* Delete keeps the exporters' invariant.
LEMMA DeleteKeeps ==
    ASSUME CallInv, NEW p \in Paths, Delete(p)
    PROVE  CallKept
<1>1. /\ UNCHANGED <<ret, inst>> /\ load' = [load EXCEPT !.deletes = @ \ {p}]
      /\ stack' = [x \in Procs |-> [n \in DOMAIN stack[x] |->
                    [stack[x][n] EXCEPT !.raced = @ \/ stack[x][n].old]]]
  BY Zenon DEF Delete
<1>2. load'.memo = load.memo /\ "memo" \in DOMAIN load'
  BY <1>1 DEF CallInv
<1>3. IsSeq(inst')
  BY <1>1 DEF CallInv
<1>4. DOMAIN stack' = Procs
  BY <1>1, Zenon
<1>5. ASSUME NEW x \in Procs
      PROVE  /\ stack'[x] = [n \in DOMAIN stack[x] |-> stack'[x][n]]
             /\ \A n \in DOMAIN stack[x] : FrameOK(stack[x][n]) => FrameOK(stack'[x][n])
  <2>. DEFINE g(n) == [stack[x][n] EXCEPT !.raced = @ \/ stack[x][n].old]
  <2>1. stack'[x] = [n \in DOMAIN stack[x] |-> g(n)]
    BY <1>1, Zenon
  <2>2. \A n \in DOMAIN stack[x] : FrameOK(stack[x][n]) => FrameOK(g(n))
    BY DEF FrameOK
  <2>. HIDE DEF g
  <2>. QED  BY <2>1, <2>2, Zenon
<1>. QED  BY <1>1, <1>2, <1>3, <1>4, <1>5, FramesMarked

-----------------------------------------------------------------------------
(* The export data.                                                        *)

JobOK(j) ==
    /\ {"pc", "path", "blob"} \subseteq DOMAIN j
    /\ j.pc # "idle" => j.path \in Paths
    /\ j.pc = "memo" => j.blob # NoBlob
\* An answer of a memoized run is the one the run has settled on.
SettledOn(j) ==
    (load.memo /\ j.pc = "done" /\ j.blob # BadBlob) => j.blob = memo[j.path] /\ j.blob # NoBlob
ExportInv ==
    /\ CallInv
    /\ DOMAIN cas = Paths /\ DOMAIN memo = Paths /\ DOMAIN job = Procs
    /\ \A x \in Procs : JobOK(job[x]) /\ SettledOn(job[x]) /\ (job[x].pc = "check" => Answering(x))

\* A call that is answered.
LEMMA AnsweredOK ==
    ASSUME NEW j, JobOK(j), NEW pc, NEW b
    PROVE  LET a == Answered(j, pc, b)
           IN  /\ {"pc", "path", "blob"} \subseteq DOMAIN a
               /\ a.pc = pc /\ a.blob = b /\ a.path = j.path
BY DEF JobOK, Answered

\* The two blobs that encode nothing are told apart.
LEMMA BlobsDiffer == NoBlob # BadBlob
BY DEF NoBlob, BadBlob, None, Err

\* Nothing of the export data changes, and the provider keeps its invariant.
LEMMA CallsOnly ==
    ASSUME ExportInv, CallKept, UNCHANGED exportVars
    PROVE  ExportInv'
<1>1. \A x \in Procs : SettledOn(job[x])'
  BY DEF ExportInv, CallKept, SettledOn, exportVars
<1>2. \A x \in Procs : JobOK(job'[x]) /\ (job'[x].pc = "check" => Answering(x)')
  BY DEF ExportInv, CallKept, exportVars
<1>. QED  BY <1>1, <1>2 DEF ExportInv, CallKept, exportVars, JobOK

\* A step of the export data that leaves the provider alone changes the calls
\* of some goroutines to others that satisfy the invariant.
LEMMA JobsOnly ==
    ASSUME ExportInv, UNCHANGED depVars, UNCHANGED memo, DOMAIN job' = Procs, DOMAIN cas' = Paths,
           \A x \in Procs : job'[x] = job[x] \/ (JobOK(job'[x]) /\ SettledOn(job[x])' /\ job'[x].pc # "check")
    PROVE  ExportInv'
<1>1. CallInv' /\ \A x \in Procs : Answering(x)' <=> Answering(x)
  BY DEF ExportInv, CallInv, Answering, Running, depVars
<1>2. load' = load
  BY DEF depVars
<1>3. \A x \in Procs : SettledOn(job[x])'
  BY <1>2 DEF ExportInv, SettledOn
<1>4. \A x \in Procs : JobOK(job'[x]) /\ (job'[x].pc = "check" => Answering(x)')
  BY <1>1 DEF ExportInv
<1>. QED  BY <1>1, <1>3, <1>4 DEF ExportInv, JobOK

\* ExportData.
LEMMA ExportDataKeeps ==
    ASSUME ExportInv, NEW x \in Procs, NEW p \in Paths, ExportData(x, p)
    PROVE  ExportInv'
<1>. DEFINE j == [JobIdle EXCEPT !.pc = "ask", !.path = p]
<1>1. /\ job' = [job EXCEPT ![x] = j] /\ load' = [load EXCEPT !.exports[p] = @ - 1]
      /\ UNCHANGED <<inst, stack, ret, cas, memo>>
  BY Zenon DEF ExportData
<1>2. load'.memo = load.memo /\ "memo" \in DOMAIN load'
  BY <1>1 DEF ExportInv, CallInv
<1>3. JobOK(j) /\ j.pc = "ask"
  BY DEF JobOK, JobIdle
<1>. HIDE DEF j
<1>4. DOMAIN job' = Procs /\ \A y \in Procs : job'[y] = IF y = x THEN j ELSE job[y]
  BY <1>1 DEF ExportInv
<1>5. CallInv' /\ \A y \in Procs : Answering(y)' <=> Answering(y)
  BY <1>1, <1>2 DEF ExportInv, CallInv, Answering, Running
<1>6. \A y \in Procs : SettledOn(job[y])'
  BY <1>1, <1>2, <1>3, <1>4 DEF ExportInv, SettledOn
<1>7. \A y \in Procs : JobOK(job'[y]) /\ (job'[y].pc = "check" => Answering(y)')
  BY <1>3, <1>4, <1>5 DEF ExportInv
<1>. QED  BY <1>1, <1>4, <1>5, <1>6, <1>7 DEF ExportInv, JobOK

\* The memo, the store, or the slow path.
LEMMA resolveKeeps ==
    ASSUME ExportInv, NEW x \in Procs, resolve(x)
    PROVE  ExportInv'
<1>. DEFINE p == job[x].path
            j1 == Answered(job[x], "done", memo[p])
            j2 == Answered(job[x], "memo", cas[p])
            j3 == [job[x] EXCEPT !.pc = "do"]
<1>1. job[x].pc = "ask" /\ UNCHANGED <<depVars, cas, memo>>
  BY DEF resolve
<1>2. \/ load.memo /\ memo[p] # NoBlob /\ job' = [job EXCEPT ![x] = j1]
      \/ cas[p] # NoBlob /\ job' = [job EXCEPT ![x] = j2]
      \/ job' = [job EXCEPT ![x] = j3]
  BY DEF resolve
<1>3. JobOK(job[x]) /\ p \in Paths
  BY <1>1 DEF ExportInv, JobOK
<1>4. /\ {"pc", "path", "blob"} \subseteq DOMAIN j1 /\ j1.pc = "done" /\ j1.blob = memo[p] /\ j1.path = p
      /\ {"pc", "path", "blob"} \subseteq DOMAIN j2 /\ j2.pc = "memo" /\ j2.blob = cas[p] /\ j2.path = p
  BY <1>3, AnsweredOK
<1>5. {"pc", "path", "blob"} \subseteq DOMAIN j3 /\ j3.pc = "do" /\ j3.path = p
  BY <1>3 DEF JobOK
<1>. HIDE DEF j1, j2, j3, p
<1>6. ASSUME NEW j, job' = [job EXCEPT ![x] = j], JobOK(j), j.pc # "check",
             j.pc = "done" => j.blob = memo[j.path] /\ j.blob # NoBlob
      PROVE  ExportInv'
  <2>1. DOMAIN job' = Procs /\ \A y \in Procs : job'[y] = IF y = x THEN j ELSE job[y]
    BY <1>6 DEF ExportInv
  <2>2. SettledOn(job[x])'
    BY <1>1, <1>6, <2>1 DEF SettledOn, depVars
  <2>3. DOMAIN cas' = Paths
    BY <1>1 DEF ExportInv
  <2>. QED  BY <1>1, <1>6, <2>1, <2>2, <2>3, JobsOnly
<1>. QED
  <2>1. CASE load.memo /\ memo[p] # NoBlob /\ job' = [job EXCEPT ![x] = j1]
    BY <2>1, <1>3, <1>4, <1>6 DEF JobOK
  <2>2. CASE cas[p] # NoBlob /\ job' = [job EXCEPT ![x] = j2]
    BY <2>2, <1>3, <1>4, <1>6 DEF JobOK
  <2>3. CASE job' = [job EXCEPT ![x] = j3]
    BY <2>3, <1>3, <1>5, <1>6 DEF JobOK
  <2>. QED  BY <1>2, <2>1, <2>2, <2>3

\* joinExport keeps the exporters' invariant.
LEMMA joinExportKeeps ==
    ASSUME ExportInv, NEW x \in Procs, joinExport(x)
    PROVE  ExportInv'
<1>. DEFINE j == [job[x] EXCEPT !.pc = IF eflight[job[x].path] THEN "wait" ELSE "lead"]
<1>1. job[x].pc = "do" /\ UNCHANGED <<depVars, cas, memo>> /\ job' = [job EXCEPT ![x] = j]
  BY DEF joinExport
<1>2. JobOK(job[x])
  BY DEF ExportInv
<1>3. JobOK(j) /\ j.pc \in {"wait", "lead"}
  BY <1>1, <1>2 DEF JobOK
<1>. HIDE DEF j
<1>4. DOMAIN job' = Procs /\ \A y \in Procs : job'[y] = IF y = x THEN j ELSE job[y]
  BY <1>1 DEF ExportInv
<1>5. SettledOn(job[x])'
  BY <1>3, <1>4 DEF SettledOn
<1>6. DOMAIN cas' = Paths
  BY <1>1 DEF ExportInv
<1>. QED  BY <1>1, <1>3, <1>4, <1>5, <1>6, JobsOnly

\* takeAnswer keeps the exporters' invariant.
LEMMA takeAnswerKeeps ==
    ASSUME ExportInv, NEW x \in Procs, takeAnswer(x)
    PROVE  ExportInv'
<1>1. UNCHANGED <<depVars, cas, memo>> /\ job' = [job EXCEPT ![x] = JobIdle]
  BY DEF takeAnswer
<1>2. JobOK(JobIdle) /\ JobIdle.pc = "idle"
  BY DEF JobOK, JobIdle
<1>3. DOMAIN job' = Procs /\ \A y \in Procs : job'[y] = IF y = x THEN JobIdle ELSE job[y]
  BY <1>1 DEF ExportInv
<1>4. SettledOn(job[x])'
  BY <1>2, <1>3 DEF SettledOn
<1>5. DOMAIN cas' = Paths
  BY <1>1 DEF ExportInv
<1>. QED  BY <1>1, <1>2, <1>3, <1>4, <1>5, JobsOnly

\* The answer of a flight goes to everyone collapsed onto it.
LEMMA EndExportEffect ==
    ASSUME ExportInv, NEW x \in Procs, job[x].pc \in {"lead", "check"}, NEW b, b # NoBlob, EndExport(x, b)
    PROVE  /\ DOMAIN job' = Procs
           /\ \A y \in Procs : job'[y] = job[y] \/ (JobOK(job'[y]) /\ SettledOn(job[y])' /\ job'[y].pc = "memo")
<1>. DEFINE Gets(y) == y = x \/ (job[y].pc = "wait" /\ job[y].path = job[x].path)
            a(y) == Answered(job[y], "memo", b)
<1>1. job' = [y \in Procs |-> IF Gets(y) THEN a(y) ELSE job[y]]
  BY Zenon DEF EndExport
<1>2. ASSUME NEW y \in Procs, Gets(y)
      PROVE  JobOK(a(y)) /\ a(y).pc = "memo"
  <2>1. JobOK(job[y]) /\ job[y].path \in Paths
    BY <1>2 DEF ExportInv, JobOK
  <2>2. /\ {"pc", "path", "blob"} \subseteq DOMAIN a(y)
        /\ a(y).pc = "memo" /\ a(y).blob = b /\ a(y).path = job[y].path
    BY <2>1, AnsweredOK
  <2>. HIDE DEF a
  <2>. QED  BY <2>1, <2>2 DEF JobOK
<1>. HIDE DEF Gets, a
<1>3. ASSUME NEW y \in Procs, Gets(y)
      PROVE  job'[y] = a(y)
  BY <1>1, <1>3
<1>4. ASSUME NEW y \in Procs, ~Gets(y)
      PROVE  job'[y] = job[y]
  BY <1>1, <1>4
<1>5. ASSUME NEW y \in Procs, Gets(y)
      PROVE  SettledOn(job[y])'
  BY <1>2, <1>3, <1>5 DEF SettledOn
<1>. QED  BY <1>1, <1>2, <1>3, <1>4, <1>5

\* The store once more, or a call of the provider.
LEMMA leadExportKeeps ==
    ASSUME ExportInv, NEW x \in Procs, leadExport(x)
    PROVE  ExportInv'
<1>. DEFINE p == job[x].path
<1>1. job[x].pc = "lead" /\ UNCHANGED <<lru, waiters, flight, inst, birth, slips, load, cas, memo>>
  BY DEF leadExport
<1>2. JobOK(job[x]) /\ p \in Paths
  BY <1>1 DEF ExportInv, JobOK
<1>3. DOMAIN cas' = Paths
  BY <1>1 DEF ExportInv
<1>4. CASE cas[p] # NoBlob
  <2>1. EndExport(x, cas[p]) /\ UNCHANGED <<stack, scope, ret, canceled>>
    BY <1>4, Zenon DEF leadExport
  <2>2. UNCHANGED depVars /\ UNCHANGED memo
    BY <1>1, <2>1 DEF depVars
  <2>. HIDE DEF p
  <2>3. /\ DOMAIN job' = Procs
        /\ \A y \in Procs : job'[y] = job[y] \/ (JobOK(job'[y]) /\ SettledOn(job[y])' /\ job'[y].pc = "memo")
    BY <1>1, <1>4, <2>1, EndExportEffect
  <2>. QED  BY <1>3, <2>2, <2>3, JobsOnly
<1>5. CASE cas[p] = NoBlob
  <2>. DEFINE j == [job[x] EXCEPT !.pc = "check"]
              s == <<Frame(p, "decl", FALSE)>>
  <2>1. /\ job' = [job EXCEPT ![x] = j] /\ stack' = [stack EXCEPT ![x] = s]
        /\ ret' = [ret EXCEPT ![x] = None]
    <3>1. /\ job' = [job EXCEPT ![x].pc = "check"] /\ stack' = [stack EXCEPT ![x] = s]
          /\ ret' = [ret EXCEPT ![x] = None]
      BY <1>5, Zenon DEF leadExport
    <3>. QED  BY <3>1
  <2>2. JobOK(j) /\ j.pc = "check"
    BY <1>2 DEF JobOK
  <2>3. FrameOK(Frame(p, "decl", FALSE))
    BY <1>2 DEF FrameOK, Frame, Kinds
  <2>4. StackOK(s) /\ s # <<>>
    <3>1. s \in Seq({Frame(p, "decl", FALSE)}) /\ Len(s) = 1 /\ s[1] = Frame(p, "decl", FALSE)
      OBVIOUS
    <3>2. IsSeq(s) /\ s # <<>>
      BY <3>1, SeqOfItsOwn
    <3>3. \A i \in 1..1 : i = 1
      OBVIOUS
    <3>. HIDE DEF s
    <3>. QED  BY <2>3, <3>1, <3>2, <3>3, Zenon DEF StackOK
  <2>. HIDE DEF j, s
  <2>5. /\ DOMAIN job' = Procs
        /\ \A y \in Procs : /\ job'[y] = IF y = x THEN j ELSE job[y]
                            /\ stack'[y] = IF y = x THEN s ELSE stack[y]
                            /\ y # x => ret'[y] = ret[y]
    BY <2>1 DEF ExportInv, CallInv
  <2>6. CallInv'
    BY <1>1, <2>1, <2>4, <2>5 DEF ExportInv, CallInv
  <2>7. \A y \in Procs : JobOK(job'[y]) /\ (job'[y].pc = "check" => Answering(y)')
    BY <2>2, <2>4, <2>5 DEF ExportInv, Answering, Running
  <2>8. \A y \in Procs : SettledOn(job[y])'
    BY <1>1, <2>2, <2>5 DEF ExportInv, SettledOn
  <2>. QED  BY <1>1, <1>3, <2>5, <2>6, <2>7, <2>8 DEF ExportInv, JobOK
<1>. QED  BY <1>4, <1>5

\* The end of a call of the provider: a failure, or a blob that says whether
\* it is complete.
LEMMA persistKeeps ==
    ASSUME ExportInv, NEW x \in Procs, persist(x)
    PROVE  ExportInv'
<1>. DEFINE p == job[x].path
            b == BlobOf(ret[x])
<1>1. job[x].pc = "check" /\ ~Running(x) /\ UNCHANGED <<depVars, memo>>
  BY DEF persist
<1>2. ret[x] # None /\ p \in Paths
  BY <1>1 DEF ExportInv, Answering, JobOK
<1>3. b # NoBlob /\ BadBlob # NoBlob
  BY <1>2, BlobsDiffer DEF BlobOf, NoBlob
<1>4. \/ EndExport(x, BadBlob) /\ cas' = cas
      \/ EndExport(x, b) /\ cas' = cas
      \/ EndExport(x, b) /\ b.complete /\ b.whole /\ cas' = [cas EXCEPT ![p] = b]
  <2>. HIDE DEF b
  <2>1. CASE ret[x] = Err \/ ~b.whole
    BY <2>1 DEF persist, b
  <2>2. CASE ~(ret[x] = Err \/ ~b.whole) /\ b.complete /\ p \in Immutable
    BY <2>2 DEF persist, b
  <2>3. CASE ~(ret[x] = Err \/ ~b.whole) /\ ~(b.complete /\ p \in Immutable)
    BY <2>3 DEF persist, b
  <2>. QED  BY <2>1, <2>2, <2>3
<1>. HIDE DEF b, p
<1>5. /\ DOMAIN job' = Procs
      /\ \A y \in Procs : job'[y] = job[y] \/ (JobOK(job'[y]) /\ SettledOn(job[y])' /\ job'[y].pc = "memo")
  BY <1>1, <1>3, <1>4, EndExportEffect
<1>6. DOMAIN cas' = Paths
  BY <1>4 DEF ExportInv
<1>. QED  BY <1>1, <1>5, <1>6, JobsOnly

\* The first answer for a path stays: one already given out is not replaced.
LEMMA memoizeKeeps ==
    ASSUME ExportInv, NEW x \in Procs, memoize(x)
    PROVE  ExportInv'
<1>. DEFINE p == job[x].path
            keep == load.memo /\ job[x].blob # BadBlob
            b == IF keep /\ memo[p] # NoBlob THEN memo[p] ELSE job[x].blob
            j == Answered(job[x], "done", b)
<1>1. job[x].pc = "memo" /\ UNCHANGED <<depVars, cas>> /\ job' = [job EXCEPT ![x] = j]
  BY Zenon DEF memoize
<1>2. memo' = IF keep THEN [memo EXCEPT ![p] = b] ELSE memo
  BY Zenon DEF memoize
<1>3. JobOK(job[x]) /\ p \in Paths /\ job[x].blob # NoBlob
  BY <1>1 DEF ExportInv, JobOK
<1>4. b # NoBlob
  BY <1>3
<1>5. (keep /\ memo[p] # NoBlob => b = memo[p]) /\ (~keep => b = job[x].blob)
  OBVIOUS
<1>6. {"pc", "path", "blob"} \subseteq DOMAIN j /\ j.pc = "done" /\ j.blob = b /\ j.path = p
  BY <1>3, AnsweredOK
<1>. HIDE DEF b, j
<1>7. DOMAIN job' = Procs /\ \A y \in Procs : job'[y] = IF y = x THEN j ELSE job[y]
  BY <1>1 DEF ExportInv
<1>8. /\ DOMAIN memo' = Paths
      /\ keep => memo'[p] = b
      /\ \A q \in Paths : memo[q] # NoBlob => memo'[q] = memo[q]
  <2>1. CASE keep
    <3>1. memo' = [memo EXCEPT ![p] = b]
      BY <1>2, <2>1
    <3>. HIDE DEF p
    <3>2. \A q \in Paths : memo'[q] = IF q = p THEN b ELSE memo[q]
      BY <3>1 DEF ExportInv
    <3>. QED  BY <1>3, <1>5, <2>1, <3>1, <3>2 DEF ExportInv, p
  <2>2. CASE ~keep
    BY <1>2, <2>2 DEF ExportInv
  <2>. QED  BY <2>1, <2>2
<1>9. load' = load
  BY <1>1 DEF depVars
<1>10. ASSUME NEW y \in Procs
       PROVE  SettledOn(job[y])'
  <2>1. CASE y = x
    <3>1. load.memo /\ b # BadBlob => keep
      BY <1>5
    <3>2. job'[y] = j
      BY <1>7, <2>1
    <3>. HIDE DEF keep, p
    <3>. QED  BY <1>4, <1>6, <1>8, <1>9, <3>1, <3>2 DEF SettledOn
  <2>2. CASE y # x
    <3>1. job'[y] = job[y] /\ SettledOn(job[y]) /\ (job[y].pc = "done" => job[y].path \in Paths)
      BY <1>7, <2>2 DEF ExportInv, JobOK
    <3>. QED  BY <1>8, <1>9, <3>1 DEF SettledOn
  <2>. QED  BY <2>1, <2>2
<1>11. JobOK(j)
  BY <1>3, <1>6 DEF JobOK
<1>12. CallInv' /\ \A y \in Procs : Answering(y)' <=> Answering(y)
  BY <1>1 DEF ExportInv, CallInv, Answering, Running, depVars
<1>13. \A y \in Procs : JobOK(job'[y]) /\ (job'[y].pc = "check" => Answering(y)')
  BY <1>6, <1>7, <1>11, <1>12 DEF ExportInv
<1>14. DOMAIN cas' = Paths
  BY <1>1 DEF ExportInv
<1>. QED  BY <1>7, <1>8, <1>10, <1>12, <1>13, <1>14 DEF ExportInv, JobOK

\* A request of the provider by a goroutine that is not exporting.
LEMMA RequestKeeps ==
    ASSUME ExportInv, NEW x \in Procs, job[x].pc = "idle", NEW p \in Paths, NEW k \in Kinds, Package(x, p, k),
           UNCHANGED exportVars
    PROVE  ExportInv'
<1>1. CallInv' /\ load'.memo = load.memo /\ \A y \in Procs : (y # x /\ Answering(y)) => Answering(y)'
  BY PackageKeeps DEF ExportInv
<1>2. \A y \in Procs : SettledOn(job[y])'
  BY <1>1 DEF ExportInv, SettledOn, exportVars
<1>3. \A y \in Procs : JobOK(job'[y]) /\ (job'[y].pc = "check" => Answering(y)')
  BY <1>1 DEF ExportInv, exportVars
<1>. QED  BY <1>1, <1>2, <1>3 DEF ExportInv, exportVars, JobOK

\* Exporters start with their invariant.
LEMMA InitExport == Init => ExportInv
<1>. SUFFICES ASSUME Init PROVE ExportInv
  OBVIOUS
<1>1. StackOK(<<>>)
  BY DEF StackOK, IsSeq, ToSet
<1>2. IsSeq(inst) /\ "memo" \in DOMAIN load
  BY LoadsAssumption DEF Init, DepInit, IsSeq, ToSet
<1>3. CallInv
  BY <1>1, <1>2 DEF Init, DepInit, CallInv
<1>4. JobOK(JobIdle) /\ JobIdle.pc = "idle"
  BY DEF JobOK, JobIdle
<1>5. \A x \in Procs : JobOK(job[x]) /\ SettledOn(job[x]) /\ (job[x].pc = "check" => Answering(x))
  BY <1>4 DEF Init, SettledOn
<1>. QED  BY <1>3, <1>5 DEF ExportInv, Init, JobOK

\* Every step keeps the exporters' invariant.
LEMMA StepExport == ExportInv /\ [Next]_vars => ExportInv'
<1>. SUFFICES ASSUME ExportInv, [Next]_vars PROVE ExportInv'
  OBVIOUS
<1>1. CASE UNCHANGED vars
  <2>1. CallKept /\ UNCHANGED exportVars
    BY <1>1 DEF vars, depVars, CallKept, ExportInv, CallInv, Answering, Running
  <2>. QED  BY <2>1, CallsOnly
<1>2. ASSUME NEW x \in Procs, ExportStep(x) PROVE ExportInv'
  BY <1>2, resolveKeeps, joinExportKeeps, leadExportKeeps, persistKeeps, memoizeKeeps, takeAnswerKeeps DEF ExportStep
<1>3. ASSUME NEW x \in Procs, CallStep(x), UNCHANGED exportVars PROVE ExportInv'
  BY <1>3, CallStepKeeps, CallsOnly DEF ExportInv
<1>4. ASSUME NEW x \in Procs, cancel(x), UNCHANGED exportVars PROVE ExportInv'
  BY <1>4, cancelKeeps, CallsOnly DEF ExportInv
<1>5. ASSUME NEW x \in Procs, NEW p \in Paths, ExportData(x, p) PROVE ExportInv'
  BY <1>5, ExportDataKeeps
<1>6. ASSUME NEW x \in Procs, NEW p \in Paths, NEW k \in Kinds, job[x].pc = "idle", Package(x, p, k), UNCHANGED exportVars
      PROVE  ExportInv'
  BY <1>6, RequestKeeps
<1>7. ASSUME NEW p \in Paths, edit(p) \/ Delete(p), UNCHANGED exportVars PROVE ExportInv'
  BY <1>7, editKeeps, DeleteKeeps, CallsOnly DEF ExportInv
<1>. QED  BY <1>1, <1>2, <1>3, <1>4, <1>5, <1>6, <1>7 DEF Next

\* The inductive invariant holds: what the two theorems rest on.
LEMMA ExportAlways == Spec => []ExportInv
BY InitExport, StepExport, PTL DEF Spec

\* Within one indexing run every goroutine is answered with the blob the run
\* has memoized for the path: a late or concurrent check never gives a caller
\* another one than an earlier caller got.
THEOREM RunAnswersAgreeHolds == Spec => []RunAnswersAgree
<1>1. ExportInv => RunAnswersAgree
  BY DEF ExportInv, SettledOn, RunAnswersAgree
<1>. QED  BY <1>1, ExportAlways, PTL

\* A caller that leads the flight of its path.
LeadsExport(j) == j.pc \in {"lead", "check"}

\* One caller leads a path's flight, and whoever checks has found nothing
\* persisted, which stays so until it persists.
LeadInv ==
    /\ eflight \in [Paths -> BOOLEAN]
    /\ \A x \in Procs : LeadsExport(job[x]) => eflight[job[x].path]
    /\ \A x, y \in Procs : (LeadsExport(job[x]) /\ LeadsExport(job[y]) /\ job[x].path = job[y].path) => x = y
    /\ \A x \in Procs : job[x].pc = "check" => cas[job[x].path] = NoBlob

\* A step that makes nobody a leader and leaves the flights and the store alone.
LEMMA OthersLead ==
    ASSUME LeadInv, UNCHANGED <<eflight, cas>>, \A y \in Procs : job'[y] = job[y] \/ ~LeadsExport(job'[y])
    PROVE  LeadInv'
BY DEF LeadInv, LeadsExport

\* A call of x that goes on without leading.
LEMMA StepAside ==
    ASSUME LeadInv, DOMAIN job = Procs, NEW x \in Procs, NEW j, ~LeadsExport(j), job' = [job EXCEPT ![x] = j],
           UNCHANGED <<eflight, cas>>
    PROVE  LeadInv'
<1>1. \A y \in Procs : job'[y] = IF y = x THEN j ELSE job[y]
  OBVIOUS
<1>. QED  BY <1>1, OthersLead

\* joinExport: the one who finds no flight leads the new one.
LEMMA joinExportLeads ==
    ASSUME ExportInv, LeadInv, NEW x \in Procs, joinExport(x)
    PROVE  LeadInv'
<1>1. PICK p : p = job[x].path
  OBVIOUS
<1>2. job[x].pc = "do" /\ p \in Paths /\ {"pc", "path", "blob"} \subseteq DOMAIN job[x]
  BY <1>1 DEF joinExport, ExportInv, JobOK
<1>3. eflight' = [eflight EXCEPT ![p] = TRUE] /\ cas' = cas
  BY <1>1 DEF joinExport
<1>4. PICK j : j = [job[x] EXCEPT !.pc = IF eflight[p] THEN "wait" ELSE "lead"]
  OBVIOUS
<1>5. j.path = p /\ j.pc = IF eflight[p] THEN "wait" ELSE "lead"
  BY <1>1, <1>2, <1>4
<1>6. \A y \in Procs : job'[y] = IF y = x THEN j ELSE job[y]
  BY <1>1, <1>4 DEF joinExport, ExportInv
<1>7. /\ eflight' \in [Paths -> BOOLEAN] /\ eflight'[p]
      /\ \A q \in Paths : eflight[q] => eflight'[q]
  BY <1>2, <1>3 DEF LeadInv
<1>8. \A y \in Procs : LeadsExport(job[y]) => job[y].path \in Paths
  BY DEF ExportInv, JobOK, LeadsExport
<1>9. CASE eflight[p]
  BY <1>3, <1>5, <1>6, <1>7, <1>8, <1>9 DEF LeadInv, LeadsExport
<1>10. CASE ~eflight[p]
  BY <1>1, <1>3, <1>5, <1>6, <1>7, <1>8, <1>10 DEF LeadInv, LeadsExport
<1>. QED  BY <1>9, <1>10

\* The end of a flight: nobody leads it any more, so what its leader persists
\* is under no other check.
LEMMA EndExportLeads ==
    ASSUME ExportInv, LeadInv, NEW x \in Procs, LeadsExport(job[x]), NEW b, EndExport(x, b),
           \A q \in Paths : q # job[x].path => cas'[q] = cas[q]
    PROVE  LeadInv'
<1>1. PICK p : p = job[x].path
  OBVIOUS
<1>2. eflight' = [eflight EXCEPT ![p] = FALSE]
  BY <1>1 DEF EndExport
<1>3. ASSUME NEW y \in Procs
      PROVE  \/ job'[y].pc = "memo"
             \/ job'[y] = job[y] /\ y # x
  <2>1. job'[y] = IF y = x \/ (job[y].pc = "wait" /\ job[y].path = job[x].path)
                  THEN Answered(job[y], "memo", b) ELSE job[y]
    BY DEF EndExport
  <2>2. (y = x \/ job[y].pc = "wait") => Answered(job[y], "memo", b).pc = "memo"
    BY AnsweredOK DEF ExportInv
  <2>. QED  BY <2>1, <2>2
<1>4. ASSUME NEW y \in Procs, LeadsExport(job'[y])
      PROVE  job'[y] = job[y] /\ y # x /\ job[y].path # p /\ job[y].path \in Paths
  <2>1. job'[y] = job[y] /\ y # x
    BY <1>3, <1>4 DEF LeadsExport
  <2>. QED  BY <1>1, <1>4, <2>1 DEF LeadInv, ExportInv, JobOK, LeadsExport
<1>5. eflight' \in [Paths -> BOOLEAN] /\ \A q \in Paths : q # p => eflight'[q] = eflight[q]
  BY <1>2 DEF LeadInv
<1>. QED  BY <1>1, <1>4, <1>5 DEF LeadInv, LeadsExport

\* leadExport: a check begins only where nothing is persisted.
LEMMA leadExportLeads ==
    ASSUME ExportInv, LeadInv, NEW x \in Procs, leadExport(x)
    PROVE  LeadInv'
<1>1. PICK p : p = job[x].path
  OBVIOUS
<1>2. job[x].pc = "lead" /\ LeadsExport(job[x]) /\ cas' = cas /\ {"pc", "path", "blob"} \subseteq DOMAIN job[x]
  BY DEF leadExport, LeadsExport, ExportInv, JobOK
<1>3. CASE cas[p] # NoBlob
  <2>1. EndExport(x, cas[p])
    BY <1>1, <1>3, Zenon DEF leadExport
  <2>. QED  BY <1>2, <2>1, EndExportLeads
<1>4. CASE cas[p] = NoBlob
  <2>1. PICK j : j = [job[x] EXCEPT !.pc = "check"]
    OBVIOUS
  <2>2. j.pc = "check" /\ j.path = p
    BY <1>1, <1>2, <2>1
  <2>3. job' = [job EXCEPT ![x].pc = "check"] /\ eflight' = eflight
    BY <1>1, <1>4, Zenon DEF leadExport
  <2>4. \A y \in Procs : job'[y] = IF y = x THEN j ELSE job[y]
    BY <2>1, <2>3 DEF ExportInv
  <2>. QED  BY <1>1, <1>2, <1>4, <2>2, <2>3, <2>4 DEF LeadInv, LeadsExport
<1>. QED  BY <1>3, <1>4

\* persist: only the leader's own path, where nothing was persisted, changes.
LEMMA persistLeads ==
    ASSUME ExportInv, LeadInv, NEW x \in Procs, persist(x)
    PROVE  LeadInv' /\ \A q \in Paths : cas[q] # NoBlob => cas'[q] = cas[q]
<1>1. PICK p : p = job[x].path
  OBVIOUS
<1>2. PICK b : b = BlobOf(ret[x])
  OBVIOUS
<1>3. job[x].pc = "check" /\ LeadsExport(job[x])
  BY Zenon DEF persist, LeadsExport
<1>4. /\ cas' = cas \/ cas' = [cas EXCEPT ![p] = b]
      /\ EndExport(x, BadBlob) \/ EndExport(x, b)
  <2>1. IF ret[x] = Err \/ ~b.whole
        THEN EndExport(x, BadBlob) /\ UNCHANGED cas
        ELSE /\ EndExport(x, b)
             /\ cas' = IF b.complete /\ p \in Immutable THEN [cas EXCEPT ![p] = b] ELSE cas
    BY <1>1, <1>2, Zenon DEF persist
  <2>. QED  BY <2>1
<1>5. \A q \in Paths : q # p => cas'[q] = cas[q]
  BY <1>4 DEF ExportInv
<1>6. cas[p] = NoBlob
  BY <1>1, <1>3 DEF LeadInv
<1>. QED  BY <1>1, <1>3, <1>4, <1>5, <1>6, EndExportLeads

\* Exporters start with nobody leading.
LEMMA InitLead == Init => LeadInv
BY DEF Init, LeadInv, LeadsExport, JobIdle

\* Every step keeps the leaders apart and replaces nothing that is persisted.
LEMMA StepLead ==
    ExportInv /\ LeadInv /\ [Next]_vars => LeadInv' /\ \A q \in Paths : cas[q] # NoBlob => cas'[q] = cas[q]
<1>. SUFFICES ASSUME ExportInv, LeadInv, [Next]_vars
              PROVE  LeadInv' /\ \A q \in Paths : cas[q] # NoBlob => cas'[q] = cas[q]
  OBVIOUS
<1>1. DOMAIN job = Procs
  BY DEF ExportInv
<1>2. ASSUME UNCHANGED exportVars
      PROVE  LeadInv' /\ cas' = cas
  <2>1. UNCHANGED <<eflight, cas, job>>
    BY <1>2 DEF exportVars
  <2>. QED  BY <2>1, OthersLead
<1>3. ASSUME NEW x \in Procs, NEW p \in Paths, ExportData(x, p)
      PROVE  LeadInv' /\ cas' = cas
  <2>1. job' = [job EXCEPT ![x] = [JobIdle EXCEPT !.pc = "ask", !.path = p]] /\ UNCHANGED <<eflight, cas>>
    BY <1>3, Zenon DEF ExportData
  <2>2. ~LeadsExport([JobIdle EXCEPT !.pc = "ask", !.path = p])
    BY DEF LeadsExport, JobIdle
  <2>. QED  BY <1>1, <2>1, <2>2, StepAside
<1>4. ASSUME NEW x \in Procs, resolve(x)
      PROVE  LeadInv' /\ cas' = cas
  <2>1. job[x].pc = "ask" /\ UNCHANGED <<eflight, cas>>
    BY <1>4, Zenon DEF resolve
  <2>2. JobOK(job[x])
    BY DEF ExportInv
  <2>3. \/ job' = [job EXCEPT ![x] = Answered(job[x], "done", memo[job[x].path])]
        \/ job' = [job EXCEPT ![x] = Answered(job[x], "memo", cas[job[x].path])]
        \/ job' = [job EXCEPT ![x] = [job[x] EXCEPT !.pc = "do"]]
    BY <1>4 DEF resolve
  <2>4. /\ ~LeadsExport(Answered(job[x], "done", memo[job[x].path]))
        /\ ~LeadsExport(Answered(job[x], "memo", cas[job[x].path]))
    BY <2>2, AnsweredOK DEF LeadsExport
  <2>5. ~LeadsExport([job[x] EXCEPT !.pc = "do"])
    BY <2>2 DEF LeadsExport, JobOK
  <2>. QED  BY <1>1, <2>1, <2>3, <2>4, <2>5, StepAside
<1>5. ASSUME NEW x \in Procs, memoize(x)
      PROVE  LeadInv' /\ cas' = cas
  <2>1. PICK b : job' = [job EXCEPT ![x] = Answered(job[x], "done", b)]
    BY <1>5 DEF memoize
  <2>2. UNCHANGED <<eflight, cas>>
    BY <1>5, Zenon DEF memoize
  <2>3. JobOK(job[x])
    BY DEF ExportInv
  <2>4. ~LeadsExport(Answered(job[x], "done", b))
    BY <2>3, AnsweredOK DEF LeadsExport
  <2>. QED  BY <1>1, <2>1, <2>2, <2>4, StepAside
<1>6. ASSUME NEW x \in Procs, takeAnswer(x)
      PROVE  LeadInv' /\ cas' = cas
  <2>1. job' = [job EXCEPT ![x] = JobIdle] /\ UNCHANGED <<eflight, cas>>
    BY <1>6, Zenon DEF takeAnswer
  <2>2. ~LeadsExport(JobIdle)
    BY DEF LeadsExport, JobIdle
  <2>. QED  BY <1>1, <2>1, <2>2, StepAside
<1>7. ASSUME NEW x \in Procs, joinExport(x) \/ leadExport(x)
      PROVE  LeadInv' /\ cas' = cas
  <2>1. cas' = cas
    BY <1>7, Zenon DEF joinExport, leadExport
  <2>. QED  BY <1>7, <2>1, joinExportLeads, leadExportLeads
<1>8. ASSUME NEW x \in Procs, persist(x)
      PROVE  LeadInv' /\ \A q \in Paths : cas[q] # NoBlob => cas'[q] = cas[q]
  BY <1>8, persistLeads
<1>9. CASE UNCHANGED vars
  BY <1>2, <1>9 DEF vars, exportVars
<1>10. CASE Next
  <2>1. ASSUME NEW x \in Procs, ExportStep(x)
        PROVE  LeadInv' /\ \A q \in Paths : cas[q] # NoBlob => cas'[q] = cas[q]
    BY <2>1, <1>4, <1>5, <1>6, <1>7, <1>8 DEF ExportStep
  <2>2. \/ \E x \in Procs : ExportStep(x)
        \/ \E x \in Procs, p \in Paths : ExportData(x, p)
        \/ UNCHANGED exportVars
    BY <1>10, Zenon DEF Next
  <2>. QED  BY <1>2, <1>3, <2>1, <2>2
<1>. QED  BY <1>9, <1>10

\* A process never replaces what it has persisted for a path, for any number
\* of goroutines, any import graph and any cache size: resolveUnmemoized's
\* singleflight and checkAndPersist's second look at the store together make
\* the first complete check of a path the one that every later caller is
\* answered from.
THEOREM PersistedIsFinalHolds == Spec => PersistedIsFinal
<1>1. ExportInv /\ LeadInv /\ [Next]_vars => LeadInv' /\ [\A p \in Paths : cas[p] # NoBlob => cas'[p] = cas[p]]_vars
  BY StepLead
<1>. QED  BY <1>1, InitLead, ExportAlways, PTL DEF Spec, PersistedIsFinal

-----------------------------------------------------------------------------
(* Import paths, and the least of some numbers.                            *)

\* Nat is well ordered.
LEMMA LeastNat ==
    ASSUME NEW S \in SUBSET Nat, S # {}
    PROVE  \E n \in S : \A m \in S : n <= m
<1>. DEFINE R == OpToRel(<, Nat)
<1>1. IsWellFoundedOn(R, Nat)
  BY NatLessThanWellFounded
<1>2. \A x, y \in Nat : <<y, x>> \in R <=> y < x
  BY DEF OpToRel
<1>. HIDE DEF R
<1>3. \E x \in S : \A y \in S : ~(<<y, x>> \in R)
  BY <1>1, WFMin
<1>4. PICK n \in S : \A y \in S : ~(<<y, n>> \in R)
  BY <1>3
<1>5. ASSUME NEW m \in S PROVE n <= m
  <2>1. m \in Nat /\ n \in Nat
    OBVIOUS
  <2>2. ~(m < n)
    BY <1>2, <1>4, <2>1, Zenon
  <2>. QED  BY <2>1, <2>2
<1>. QED  BY <1>4, <1>5

\* The import paths are finitely many.
LEMMA PathsFinite == IsFiniteSet(Paths)
<1>1. Len(Order) \in Nat /\ Order \in [1..Len(Order) -> Paths]
  BY OrderAssumption, LenProperties
<1>2. \A p \in Paths : \E i \in 1..Len(Order) : Order[i] = p
  BY <1>1, OrderAssumption DEF ToSet
<1>3. Order \in Surjection(1..Len(Order), Paths)
  BY <1>1, <1>2 DEF Surjection
<1>4. IsFiniteSet(1..Len(Order))
  BY <1>1, FS_Interval
<1>. QED  BY <1>3, <1>4, FS_Surjection

\* The size of a set of import paths.
LEMMA PathsCounted ==
    ASSUME NEW S \in SUBSET Paths
    PROVE  IsFiniteSet(S) /\ Cardinality(S) \in Nat /\ (Cardinality(S) = 0 <=> S = {})
BY PathsFinite, FS_Subset, FS_CardinalityType, FS_EmptySet

\* A set of import paths counts no more than one it is part of.
LEMMA FewerPaths ==
    ASSUME NEW S \in SUBSET Paths, NEW T \in SUBSET S
    PROVE  Cardinality(T) <= Cardinality(S)
BY PathsCounted, FS_Subset

\* Two disjoint sets of import paths.
LEMMA PathsSplit ==
    ASSUME NEW S \in SUBSET Paths, NEW T \in SUBSET Paths
    PROVE  Cardinality(S) = Cardinality(S \ T) + Cardinality(S \cap T)
<1>1. IsFiniteSet(S) /\ Cardinality(S) \in Nat /\ Cardinality(S \cap T) \in Nat /\ Cardinality(S \ T) \in Nat
  BY PathsCounted
<1>2. Cardinality(S \ T) = Cardinality(S) - Cardinality(S \cap T)
  BY <1>1, FS_Difference
<1>. QED  BY <1>1, <1>2

\* Every import comes later in Order, and two paths have two places.
LEMMA PosOfPath ==
    ASSUME NEW p \in Paths
    PROVE  Pos(p) \in 1..Len(Order) /\ Pos(p) \in Nat /\ Len(Order) \in Nat /\ Order[Pos(p)] = p
<1>1. \E i \in DOMAIN Order : Order[i] = p
  BY OrderAssumption DEF ToSet
<1>2. Pos(p) \in DOMAIN Order /\ Order[Pos(p)] = p
  BY <1>1 DEF Pos
<1>3. DOMAIN Order = 1..Len(Order) /\ Len(Order) \in Nat
  BY OrderAssumption, LenProperties
<1>. QED  BY <1>2, <1>3

\* An import is a path, and is later in the order than its importer.
LEMMA ImportsLater ==
    ASSUME NEW p \in Paths, NEW d \in Imports[p]
    PROVE  d \in Paths /\ Pos(p) < Pos(d)
<1>1. d \in Paths
  BY ImportsAssumption
<1>2. Pos(p) \in DOMAIN Order /\ Pos(d) \in DOMAIN Order /\ Order[Pos(p)] = p /\ Order[Pos(d)] = d
  BY <1>1, PosIsPlace, PosOfPath
<1>. QED  BY <1>1, <1>2, ImportsGoForward

-----------------------------------------------------------------------------
(* One cache.                                                              *)

LruType == [newer : [Paths -> SUBSET Paths], id : [Paths -> Nat], pins : [Paths -> Nat], pending : SUBSET Paths]
\* Its list is in order, and deletes are only put off for what is pinned.
LruOK(l) == l \in LruType /\ ListOK(l) /\ \A p \in l.pending : l.pins[p] > 0

\* p's package becomes i, and p the most recently used: get, and the insertion of put.
LEMMA TouchedOK ==
    ASSUME NEW l, LruOK(l), NEW p \in Paths, NEW i \in Nat \ {0}
    PROVE  LET m == Touch([l EXCEPT !.id[p] = i], p)
           IN  LruOK(m) /\ m.id = [l.id EXCEPT ![p] = i] /\ m.pins = l.pins /\ m.pending = l.pending
<1>. DEFINE h == [l EXCEPT !.id[p] = i]
            ord == [q \in Paths |-> IF q # p /\ h.id[q] # None THEN h.newer[q] \cup {p} ELSE {}]
            m == Touch(h, p)
<1>1. h = [newer |-> l.newer, id |-> [l.id EXCEPT ![p] = i], pins |-> l.pins, pending |-> l.pending]
  BY DEF LruOK, LruType
<1>2. m = [newer |-> ord, id |-> [l.id EXCEPT ![p] = i], pins |-> l.pins, pending |-> l.pending]
  <2>1. m = [h EXCEPT !.newer = ord]
    BY Zenon DEF Touch
  <2>. HIDE DEF ord, m
  <2>. QED  BY <1>1, <2>1
<1>3. \A q \in Paths : ord[q] = IF q # p /\ l.id[q] # None THEN l.newer[q] \cup {p} ELSE {}
  BY <1>1 DEF LruOK, LruType
<1>4. ord \in [Paths -> SUBSET Paths]
  BY <1>1 DEF LruOK, LruType
<1>. HIDE DEF ord
<1>5. m \in LruType /\ Cached(m) = Cached(l) \cup {p}
  BY <1>2, <1>4 DEF LruOK, LruType, Cached, None
<1>6. ListOK(m)
  <2>0. m.newer = ord
    BY <1>2
  <2>. HIDE DEF m
  <2>1. m.newer \in [Paths -> SUBSET Cached(m)] /\ \A q \in Paths \ Cached(m) : m.newer[q] = {}
    BY <1>3, <1>4, <1>5, <2>0 DEF LruOK, ListOK, Cached
  <2>2. ASSUME NEW a \in Cached(m), NEW b \in Cached(m)
        PROVE  /\ a # b => (b \in m.newer[a] <=> a \notin m.newer[b])
               /\ a \notin m.newer[a] /\ (b \in m.newer[a] => m.newer[b] \subseteq m.newer[a])
    <3>1. a \in Paths /\ b \in Paths /\ (a # p => a \in Cached(l)) /\ (b # p => b \in Cached(l))
      BY <1>5 DEF Cached
    <3>2. CASE a = p
      BY <1>3, <2>0, <3>1, <3>2 DEF Cached
    <3>3. CASE b = p /\ a # p
      <4>1. b \in m.newer[a] /\ m.newer[b] = {}
        BY <1>3, <2>0, <3>1, <3>3 DEF Cached
      <4>2. a \notin m.newer[a]
        <5>1. a \in Cached(l) /\ m.newer[a] = l.newer[a] \cup {p}
          BY <1>3, <2>0, <3>1, <3>3 DEF Cached
        <5>2. a \notin l.newer[a]
          BY <5>1, Zenon DEF LruOK, ListOK
        <5>. QED  BY <3>3, <5>1, <5>2
      <4>. QED  BY <4>1, <4>2
    <3>4. CASE a # p /\ b # p
      <4>1. a \in Cached(l) /\ b \in Cached(l) /\ m.newer[a] = l.newer[a] \cup {p} /\ m.newer[b] = l.newer[b] \cup {p}
        BY <1>3, <2>0, <3>1, <3>4 DEF Cached
      <4>2. /\ a # b => (b \in l.newer[a] <=> a \notin l.newer[b])
            /\ a \notin l.newer[a] /\ (b \in l.newer[a] => l.newer[b] \subseteq l.newer[a])
        BY <4>1, Zenon DEF LruOK, ListOK
      <4>. QED  BY <3>4, <4>1, <4>2
    <3>. QED  BY <3>2, <3>3, <3>4
  <2>. QED  BY <2>1, <2>2 DEF ListOK
<1>7. \A q \in m.pending : m.pins[q] > 0
  BY <1>2 DEF LruOK
<1>. QED  BY <1>2, <1>5, <1>6, <1>7 DEF LruOK

\* get, of an entry that is there.
LEMMA TouchOK ==
    ASSUME NEW l, LruOK(l), NEW p \in Paths, l.id[p] # None
    PROVE  LET m == Touch(l, p)
           IN  LruOK(m) /\ m.id = l.id /\ m.pins = l.pins /\ m.pending = l.pending
<1>. DEFINE i == l.id[p]
<1>1. i \in Nat \ {0} /\ [l EXCEPT !.id[p] = i] = l /\ [l.id EXCEPT ![p] = i] = l.id
  BY DEF LruOK, LruType, None
<1>. HIDE DEF i
<1>2. LET m == Touch([l EXCEPT !.id[p] = i], p)
      IN  LruOK(m) /\ m.id = [l.id EXCEPT ![p] = i] /\ m.pins = l.pins /\ m.pending = l.pending
  BY <1>1, TouchedOK
<1>. QED  BY <1>1, <1>2

\* A change of the pins that takes none away.
LEMMA PinsGrow ==
    ASSUME NEW l, LruOK(l), NEW m, NEW n \in [Paths -> Nat], m = [l EXCEPT !.pins = n],
           \A p \in Paths : n[p] >= l.pins[p]
    PROVE  LruOK(m) /\ m.pins = n /\ m.id = l.id /\ m.pending = l.pending /\ m.newer = l.newer
<1>1. m = [newer |-> l.newer, id |-> l.id, pins |-> n, pending |-> l.pending]
  BY DEF LruOK, LruType
<1>2. m \in LruType /\ Cached(m) = Cached(l) /\ m.newer = l.newer
  BY <1>1 DEF LruOK, LruType, Cached
<1>3. ListOK(m)
  BY <1>2 DEF LruOK, ListOK
<1>4. \A p \in m.pending : m.pins[p] > 0
  <2>. SUFFICES ASSUME NEW p \in l.pending PROVE n[p] > 0
    BY <1>1
  <2>. QED  BY DEF LruOK, LruType
<1>. QED  BY <1>1, <1>2, <1>3, <1>4 DEF LruOK

\* pin.
LEMMA PinOK ==
    ASSUME NEW l, LruOK(l), NEW p \in Paths
    PROVE  LET m == pin(l, p)
           IN  /\ LruOK(m) /\ m.id = l.id /\ m.pending = l.pending
               /\ \A q \in Paths : m.pins[q] = l.pins[q] + (IF q = p THEN 1 ELSE 0)
<1>. DEFINE n == [l.pins EXCEPT ![p] = @ + 1]
<1>1. pin(l, p) = [l EXCEPT !.pins = n]
  BY DEF pin, LruOK, LruType
<1>2. n \in [Paths -> Nat] /\ \A q \in Paths : n[q] = l.pins[q] + (IF q = p THEN 1 ELSE 0)
  BY DEF LruOK, LruType
<1>. HIDE DEF n
<1>3. \A q \in Paths : n[q] >= l.pins[q]
  BY <1>2 DEF LruOK, LruType
<1>. QED  BY <1>1, <1>2, <1>3, PinsGrow

\* pinAll.
LEMMA PinAllOK ==
    ASSUME NEW l, LruOK(l), NEW ps \in SUBSET Paths
    PROVE  LET m == pinAll(l, ps)
           IN  /\ LruOK(m) /\ m.id = l.id /\ m.pending = l.pending
               /\ \A q \in Paths : m.pins[q] = l.pins[q] + (IF q \in ps THEN 1 ELSE 0)
<1>. DEFINE n == [q \in Paths |-> IF q \in ps THEN l.pins[q] + 1 ELSE l.pins[q]]
<1>1. pinAll(l, ps) = [l EXCEPT !.pins = n]
  BY DEF pinAll
<1>2. n \in [Paths -> Nat] /\ \A q \in Paths : n[q] = l.pins[q] + (IF q \in ps THEN 1 ELSE 0)
  BY DEF LruOK, LruType
<1>. HIDE DEF n
<1>3. \A q \in Paths : n[q] >= l.pins[q]
  BY <1>2 DEF LruOK, LruType
<1>. QED  BY <1>1, <1>2, <1>3, PinsGrow

\* Once per path.
LEMMA OnceOK ==
    ASSUME NEW ps \in SUBSET Paths
    PROVE  Once(ps) \in [Paths -> Nat] /\ \A p \in Paths : Once(ps)[p] = IF p \in ps THEN 1 ELSE 0
BY DEF Once

\* The cached packages of a cache that import p.
Importers(l, p) == {q \in Paths : l.id[q] # None /\ p \in Imports[q]}

\* What a release frees: the least set of pending entries closed under
\* "released as often as it is pinned", which is a fixed point.
LEMMA ReleasesOK ==
    ASSUME NEW l, NEW n \in [Paths -> Nat], NEW p \in Paths, NEW G \in SUBSET Paths
    PROVE  /\ Releases(l, n, p, G) = n[p] + Cardinality(Importers(l, p) \cap G)
           /\ Releases(l, n, p, G) \in Nat
           /\ \A H \in SUBSET G : Releases(l, n, p, H) \in Nat /\ Releases(l, n, p, H) <= Releases(l, n, p, G)
<1>1. ASSUME NEW H \in SUBSET Paths
      PROVE  /\ Releases(l, n, p, H) = n[p] + Cardinality(Importers(l, p) \cap H)
             /\ Importers(l, p) \cap H \in SUBSET Paths /\ Cardinality(Importers(l, p) \cap H) \in Nat
  <2>1. {q \in H : l.id[q] # None /\ p \in Imports[q]} = Importers(l, p) \cap H
    BY DEF Importers
  <2>. QED  BY <2>1, PathsCounted DEF Releases
<1>2. ASSUME NEW H \in SUBSET G
      PROVE  Releases(l, n, p, H) \in Nat /\ Releases(l, n, p, H) <= Releases(l, n, p, G)
  <2>1. Cardinality(Importers(l, p) \cap H) <= Cardinality(Importers(l, p) \cap G)
    BY <1>1, FewerPaths
  <2>. QED  BY <1>1, <2>1
<1>. QED  BY <1>1, <1>2

\* What unpinAll frees had its delete put off, and frees nothing more.
LEMMA GoneIsFixed ==
    ASSUME NEW l, LruOK(l), NEW n \in [Paths -> Nat]
    PROVE  Gone(l, n) \in SUBSET l.pending /\ Freed(l, n, Gone(l, n)) = Gone(l, n)
<1>. DEFINE g == Gone(l, n)
<1>1. l.pending \in SUBSET Paths /\ \A p \in Paths : l.pins[p] \in Nat
  BY DEF LruOK, LruType
<1>2. ASSUME NEW G \in SUBSET l.pending, NEW H \in SUBSET G
      PROVE  Freed(l, n, H) \subseteq Freed(l, n, G)
  <2>. SUFFICES ASSUME NEW p \in Freed(l, n, H) PROVE p \in Freed(l, n, G)
    OBVIOUS
  <2>1. p \in l.pending /\ Releases(l, n, p, H) > 0 /\ Releases(l, n, p, H) >= l.pins[p]
    BY DEF Freed
  <2>2. /\ Releases(l, n, p, G) \in Nat /\ Releases(l, n, p, H) \in Nat
        /\ Releases(l, n, p, H) <= Releases(l, n, p, G)
    BY <1>1, <2>1, ReleasesOK
  <2>3. Releases(l, n, p, G) > 0 /\ Releases(l, n, p, G) >= l.pins[p]
    BY <1>1, <2>1, <2>2
  <2>. QED  BY <2>1, <2>3 DEF Freed
<1>3. g \in SUBSET l.pending /\ Freed(l, n, g) \in SUBSET l.pending
  BY DEF Gone, Freed
<1>4. ASSUME NEW G \in SUBSET l.pending, Freed(l, n, G) \subseteq G
      PROVE  g \subseteq G
  BY <1>4, Zenon DEF Gone
<1>5. Freed(l, n, g) \subseteq g
  <2>. SUFFICES ASSUME NEW p \in Freed(l, n, g) PROVE p \in g
    OBVIOUS
  <2>1. \A G \in SUBSET l.pending : Freed(l, n, G) \subseteq G => p \in G
    <3>. SUFFICES ASSUME NEW G \in SUBSET l.pending, Freed(l, n, G) \subseteq G PROVE p \in G
      OBVIOUS
    <3>. HIDE DEF g
    <3>. QED  BY <1>2, <1>4
  <2>. QED  BY <1>3, <2>1 DEF Gone
<1>6. g \subseteq Freed(l, n, g)
  <2>. HIDE DEF g
  <2>1. Freed(l, n, Freed(l, n, g)) \subseteq Freed(l, n, g)
    BY <1>2, <1>3, <1>5
  <2>. QED  BY <1>3, <1>4, <2>1
<1>. QED  BY <1>3, <1>5, <1>6

\* Some entries leave the list.
LEMMA ShortenedOK ==
    ASSUME NEW l, LruOK(l), NEW R \in SUBSET Paths, NEW m,
           m.newer = Shortened(l.newer, R), m.id \in [Paths -> Nat],
           \A p \in Paths : m.id[p] = IF p \in R THEN None ELSE l.id[p]
    PROVE  ListOK(m) /\ m.newer \in [Paths -> SUBSET Paths]
<1>1. /\ m.newer \in [Paths -> SUBSET Paths]
      /\ \A p \in Paths : m.newer[p] = IF p \in R THEN {} ELSE l.newer[p] \ R
  BY DEF Shortened, LruOK, LruType
<1>2. Cached(m) = Cached(l) \ R
  BY DEF Cached
<1>3. /\ \A p \in Paths : l.newer[p] \subseteq Cached(l)
      /\ \A p \in Paths \ Cached(l) : l.newer[p] = {}
  BY DEF LruOK, ListOK
<1>4. m.newer \in [Paths -> SUBSET Cached(m)] /\ \A p \in Paths \ Cached(m) : m.newer[p] = {}
  <2>. DEFINE c == Cached(m)
              d == Cached(l)
  <2>. HIDE DEF c, d
  <2>1. \A p \in Paths : m.newer[p] \subseteq c
    BY <1>1, <1>2, <1>3 DEF c
  <2>2. \A p \in Paths \ c : m.newer[p] = {}
    BY <1>1, <1>2, <1>3 DEF c
  <2>3. m.newer \in [Paths -> SUBSET c]
    BY <1>1, <2>1
  <2>. QED  BY <2>2, <2>3 DEF c
<1>5. ASSUME NEW a \in Cached(m), NEW b \in Cached(m)
      PROVE  /\ a # b => (b \in m.newer[a] <=> a \notin m.newer[b])
             /\ a \notin m.newer[a] /\ (b \in m.newer[a] => m.newer[b] \subseteq m.newer[a])
  <2>1. /\ a \in Cached(l) /\ b \in Cached(l) /\ a \notin R /\ b \notin R /\ a \in Paths /\ b \in Paths
        /\ m.newer[a] = l.newer[a] \ R /\ m.newer[b] = l.newer[b] \ R
    BY <1>1, <1>2 DEF Cached
  <2>2. /\ a # b => (b \in l.newer[a] <=> a \notin l.newer[b])
        /\ a \notin l.newer[a] /\ (b \in l.newer[a] => l.newer[b] \subseteq l.newer[a])
    BY <2>1, Zenon DEF LruOK, ListOK
  <2>. QED  BY <2>1, <2>2
<1>. QED  BY <1>1, <1>4, <1>5 DEF ListOK

\* Entries of m that were entries of l, and deletes of l that m still puts off
\* or has done.
Shrunk(l, m) ==
    /\ \A p \in Paths : m.id[p] \in {l.id[p], None}
    /\ \A p \in l.pending : p \in m.pending \/ m.id[p] = None

\* unpinAll.
LEMMA UnpinOK ==
    ASSUME NEW l, LruOK(l), NEW n \in [Paths -> Nat]
    PROVE  LET m == unpinAll(l, n) IN LruOK(m) /\ Shrunk(l, m)
<1>. DEFINE m == unpinAll(l, n)
            gone == Gone(l, n)
            r(p) == Releases(l, n, p, gone)
            pins == [p \in Paths |-> LET left == l.pins[p] - r(p) IN IF left > 0 THEN left ELSE 0]
            id == [p \in Paths |-> IF p \in gone THEN None ELSE l.id[p]]
<1>1. gone \in SUBSET l.pending /\ gone \in SUBSET Paths /\ Freed(l, n, gone) = gone
  BY GoneIsFixed DEF LruOK, LruType
<1>2. m = [newer |-> Shortened(l.newer, gone), id |-> id, pins |-> pins, pending |-> l.pending \ gone]
  BY Zenon DEF unpinAll
<1>. HIDE DEF gone, m
<1>3. \A p \in Paths : r(p) \in Nat /\ l.pins[p] \in Nat /\ l.id[p] \in Nat
  BY <1>1, ReleasesOK DEF LruOK, LruType
<1>4. id \in [Paths -> Nat] /\ pins \in [Paths -> Nat]
  <2>. HIDE DEF r
  <2>. QED  BY <1>3 DEF None
<1>5. ListOK(m) /\ m.newer \in [Paths -> SUBSET Paths]
  <2>1. m.newer = Shortened(l.newer, gone) /\ m.id = id
    BY <1>2
  <2>2. \A p \in Paths : m.id[p] = IF p \in gone THEN None ELSE l.id[p]
    BY <2>1
  <2>. HIDE DEF id, pins
  <2>. QED  BY <1>1, <1>4, <2>1, <2>2, ShortenedOK
<1>6. ASSUME NEW p \in l.pending, p \notin gone
      PROVE  pins[p] > 0
  <2>1. p \in Paths /\ l.pins[p] > 0
    BY DEF LruOK, LruType
  <2>2. ~(r(p) > 0 /\ r(p) >= l.pins[p])
    BY <1>1, <1>6 DEF Freed
  <2>. HIDE DEF r
  <2>3. l.pins[p] - r(p) > 0
    BY <1>3, <2>1, <2>2
  <2>. QED  BY <2>1, <2>3
<1>7. m.pending \in SUBSET Paths
  BY <1>2 DEF LruOK, LruType
<1>. HIDE DEF pins
<1>8. LruOK(m)
  BY <1>2, <1>4, <1>5, <1>6, <1>7 DEF LruOK, LruType
<1>9. Shrunk(l, m)
  BY <1>1, <1>2 DEF Shrunk, LruOK, LruType
<1>. QED  BY <1>8, <1>9 DEF m

\* The least recently used of some cached entries.
LEMMA OldestThere ==
    ASSUME NEW l, LruOK(l), NEW ps \in SUBSET Cached(l), ps # {}
    PROVE  Oldest(l, ps) \in ps
<1>. DEFINE c(p) == Cardinality(l.newer[p])
            S == {Cardinality(Paths) - c(p) : p \in ps}
<1>1. \A p \in ps : p \in Paths /\ l.newer[p] \in SUBSET Paths /\ p \in Cached(l)
  BY DEF LruOK, LruType, Cached
<1>2. \A p \in ps : c(p) \in Nat /\ c(p) <= Cardinality(Paths)
  BY <1>1, PathsCounted, FewerPaths
<1>3. Cardinality(Paths) \in Nat
  BY PathsCounted
<1>. HIDE DEF c
<1>4. S \in SUBSET Nat /\ S # {}
  BY <1>2, <1>3
<1>5. PICK p \in ps : \A q \in ps : c(q) <= c(p)
  <2>1. PICK k \in S : \A m \in S : k <= m
    BY <1>4, LeastNat
  <2>2. PICK p \in ps : k = Cardinality(Paths) - c(p)
    BY <2>1
  <2>3. \A q \in ps : Cardinality(Paths) - c(p) <= Cardinality(Paths) - c(q)
    BY <2>1, <2>2
  <2>. QED  BY <1>2, <1>3, <2>3
<1>6. ASSUME NEW q \in ps, q # p, q \notin l.newer[p]
      PROVE  FALSE
  <2>1. p \in l.newer[q]
    BY <1>1, <1>6, Zenon DEF LruOK, ListOK
  <2>2. l.newer[p] \subseteq l.newer[q] /\ p \notin l.newer[p]
    BY <1>1, <2>1, Zenon DEF LruOK, ListOK
  <2>3. c(p) <= c(q) /\ (c(q) = c(p) => l.newer[q] = l.newer[p])
    <3>1. IsFiniteSet(l.newer[q]) /\ l.newer[p] \in SUBSET l.newer[q]
      BY <1>1, <2>2, PathsCounted
    <3>. QED  BY <3>1, FS_Subset DEF c
  <2>4. c(p) = c(q)
    BY <1>2, <1>5, <2>3
  <2>. QED  BY <2>1, <2>2, <2>3, <2>4
<1>7. ps \ {p} \subseteq l.newer[p]
  BY <1>6
<1>. QED  BY <1>7 DEF Oldest

\* removeElement, of an entry that nothing pins.
LEMMA RemoveOK ==
    ASSUME NEW l, LruOK(l), NEW p \in Paths, l.pins[p] = 0
    PROVE  LET m == removeElement(l, p) IN LruOK(m) /\ Shrunk(l, m) /\ m.id[p] = None
<1>. DEFINE h == removeEntry(l, p)
            id == [l.id EXCEPT ![p] = None]
<1>1. h = [newer |-> Shortened(l.newer, {p}), id |-> id, pins |-> l.pins, pending |-> l.pending]
  <2>1. h = [l EXCEPT !.id = id, !.newer = Shortened(l.newer, {p})]
    BY DEF removeEntry, LruOK, LruType
  <2>. HIDE DEF id, h
  <2>. QED  BY <2>1 DEF LruOK, LruType
<1>2. id \in [Paths -> Nat] /\ \A q \in Paths : id[q] = IF q \in {p} THEN None ELSE l.id[q]
  BY DEF LruOK, LruType, None
<1>. HIDE DEF id, h
<1>3. ListOK(h) /\ h.newer \in [Paths -> SUBSET Paths]
  BY <1>1, <1>2, ShortenedOK
<1>4. LruOK(h)
  BY <1>1, <1>2, <1>3 DEF LruOK, LruType
<1>5. Once(Imports[p]) \in [Paths -> Nat]
  BY OnceOK, ImportsAssumption
<1>6. LruOK(removeElement(l, p)) /\ Shrunk(h, removeElement(l, p))
  BY <1>4, <1>5, UnpinOK DEF removeElement, h
<1>. QED  BY <1>1, <1>2, <1>6 DEF Shrunk, None, LruOK, LruType

\* Evicting one path.
LEMMA EvictOK ==
    ASSUME NEW l, LruOK(l)
    PROVE  LET m == evictOldest(l) IN LruOK(m) /\ Shrunk(l, m)
<1>. DEFINE free == {p \in Cached(l) : l.pins[p] = 0}
<1>1. CASE free = {}
  BY <1>1 DEF evictOldest, Shrunk, LruOK, LruType
<1>2. CASE free # {}
  <2>1. Oldest(l, free) \in free
    BY <1>2, OldestThere
  <2>2. Oldest(l, free) \in Paths /\ l.pins[Oldest(l, free)] = 0
    BY <2>1 DEF Cached
  <2>3. evictOldest(l) = removeElement(l, Oldest(l, free))
    BY <1>2, Zenon DEF evictOldest
  <2>. HIDE DEF free
  <2>. QED  BY <2>2, <2>3, RemoveOK
<1>. QED  BY <1>1, <1>2

\* A cache after put has made room in it.
Room(k, l) == IF Cardinality(Cached(l)) >= Cap[k] THEN evictOldest(l) ELSE l

\* put, of a path that is not cached.
LEMMA PutOK ==
    ASSUME NEW l, LruOK(l), NEW k, NEW p \in Paths, l.id[p] = None, NEW i \in Nat \ {0}
    PROVE  LET r == Room(k, l)
               m == lruPut(k, l, p, i)
           IN  /\ LruOK(r) /\ Shrunk(l, r) /\ LruOK(m) /\ m.id = [r.id EXCEPT ![p] = i] /\ m.pending = r.pending
               /\ \A q \in Paths : m.pins[q] = r.pins[q] + (IF q \in Imports[p] THEN 1 ELSE 0)
<1>. DEFINE r == Room(k, l)
            t == Touch([r EXCEPT !.id[p] = i], p)
<1>1. lruPut(k, l, p, i) = pinAll(t, Imports[p])
  BY Zenon DEF lruPut, Room
<1>2. LruOK(r) /\ Shrunk(l, r)
  <2>1. Shrunk(l, l)
    BY DEF Shrunk, LruOK, LruType
  <2>. QED  BY <2>1, EvictOK DEF Room
<1>. HIDE DEF r
<1>3. LruOK(t) /\ t.id = [r.id EXCEPT ![p] = i] /\ t.pins = r.pins /\ t.pending = r.pending
  BY <1>2, TouchedOK
<1>4. Imports[p] \in SUBSET Paths
  BY ImportsAssumption
<1>. HIDE DEF t
<1>5. LET m == pinAll(t, Imports[p])
      IN  /\ LruOK(m) /\ m.id = t.id /\ m.pending = t.pending
          /\ \A q \in Paths : m.pins[q] = t.pins[q] + (IF q \in Imports[p] THEN 1 ELSE 0)
  BY <1>3, <1>4, PinAllOK
<1>6. LET m == lruPut(k, l, p, i)
      IN  /\ LruOK(m) /\ m.id = [r.id EXCEPT ![p] = i] /\ m.pending = r.pending
          /\ \A q \in Paths : m.pins[q] = r.pins[q] + (IF q \in Imports[p] THEN 1 ELSE 0)
  BY <1>1, <1>3, <1>5
<1>. QED  BY <1>2, <1>6 DEF r

\* Delete: the entry goes, or it waits for its last pin.
LEMMA DeleteOK ==
    ASSUME NEW l, LruOK(l), NEW p \in Paths
    PROVE  LET m == lruDelete(l, p)
           IN  LruOK(m) /\ Shrunk(l, m) /\ (m.id[p] # None => p \in m.pending)
<1>1. CASE l.pins[p] > 0
  <2>. DEFINE m == [l EXCEPT !.pending = l.pending \cup {p}]
  <2>1. lruDelete(l, p) = m
    BY <1>1, Zenon DEF lruDelete
  <2>2. m = [newer |-> l.newer, id |-> l.id, pins |-> l.pins, pending |-> l.pending \cup {p}]
    <3>. DEFINE P == l.pending \cup {p}
    <3>. HIDE DEF P
    <3>1. [l EXCEPT !.pending = P] = [newer |-> l.newer, id |-> l.id, pins |-> l.pins, pending |-> P]
      BY DEF LruOK, LruType
    <3>. QED  BY <3>1 DEF P
  <2>. HIDE DEF m
  <2>3. m \in LruType /\ Cached(m) = Cached(l) /\ m.newer = l.newer
    BY <2>2 DEF LruOK, LruType, Cached
  <2>4. ListOK(m)
    BY <2>3 DEF LruOK, ListOK
  <2>5. LruOK(m) /\ Shrunk(l, m) /\ p \in m.pending
    BY <1>1, <2>2, <2>3, <2>4 DEF LruOK, LruType, Shrunk
  <2>. QED  BY <2>1, <2>5
<1>2. CASE ~(l.pins[p] > 0) /\ l.id[p] # None
  <2>1. lruDelete(l, p) = removeElement(l, p)
    BY <1>2, Zenon DEF lruDelete
  <2>2. l.pins[p] = 0
    BY <1>2 DEF LruOK, LruType
  <2>. QED  BY <2>1, <2>2, RemoveOK
<1>3. CASE ~(l.pins[p] > 0) /\ l.id[p] = None
  <2>1. lruDelete(l, p) = l
    BY <1>3, Zenon DEF lruDelete
  <2>. QED  BY <1>3, <2>1 DEF Shrunk, LruOK, LruType
<1>. QED  BY <1>1, <1>2, <1>3

-----------------------------------------------------------------------------
(* Frames and stacks.                                                      *)

Pcs == {"ask", "pin", "enter", "do", "wait", "lead", "check", "exit", "close"}
FrameType(I) ==
    [path : Paths, kind : Kinds, pc : Pcs, todo : SUBSET Paths, ids : SUBSET I,
     failed : BOOLEAN, old : BOOLEAN, raced : BOOLEAN, res : I, import : BOOLEAN]
ScopeType(I) == [got : [Paths -> I], via : [Paths -> {"none"} \cup Kinds], holder : [Paths -> I]]
InstType(I) == [path : Paths, ids : SUBSET I, failed : BOOLEAN, old : BOOLEAN, raced : BOOLEAN]

\* A frame of a call whose scope has the packages got.
FrameInv(f, got, I) ==
    /\ f \in FrameType(I)
    /\ f.pc \in {"exit", "close"} => f.res # None
    /\ f.pc = "check" => f.todo \subseteq Imports[f.path]
    /\ f.pc \notin {"ask", "close"} => got[f.path] = None
\* A frame called for an import of the frame g.
Nested(g, f) == g.pc = "check" /\ f.kind = "decl" /\ f.pc # "close" /\ f.path \in Imports[g.path]
\* The frames of a stack: a call waits in its check for the calls above it,
\* which are for later and later paths.
StackInv(s, got, I) ==
    /\ IsSeq(s)
    /\ \A n \in 1..Len(s) : FrameInv(s[n], got, I)
    /\ \A n \in 1..(Len(s) - 1) : Nested(s[n], s[n + 1])
    /\ \A m, n \in 1..Len(s) : m < n => Pos(s[m].path) < Pos(s[n].path)

\* t has the first frames of s, then e.
Cut(s, t, n, e) ==
    /\ IsSeq(t) /\ n \in Nat \ {0} /\ Len(t) = n /\ t # <<>> /\ n - 1 <= Len(s) /\ Len(s) \in Nat
    /\ t[n] = e /\ \A i \in 1..(n - 1) : t[i] = s[i]
\* x's stack is cut so, the others stay.
OneCut(x, n, e) ==
    /\ DOMAIN stack' = Procs /\ Cut(stack[x], stack'[x], n, e)
    /\ \A y \in Procs \ {x} : stack'[y] = stack[y]

\* A stack cut at its top.
LEMMA TopCut ==
    ASSUME DOMAIN stack = Procs, NEW x \in Procs, IsSeq(stack[x]), Running(x), NEW e, stack' = SetTop(x, e)
    PROVE  OneCut(x, Len(stack[x]), e)
<1>. DEFINE s == stack[x]
            t == Front(s) \o <<e>>
<1>1. /\ IsSeq(t) /\ Len(t) = Len(s) /\ t # <<>> /\ t[Len(s)] = e /\ Len(s) \in Nat \ {0}
      /\ \A i \in 1..(Len(s) - 1) : t[i] = s[i]
  BY TopReplaced DEF Running
<1>2. stack' = [stack EXCEPT ![x] = t]
  BY DEF SetTop
<1>. HIDE DEF t
<1>3. Cut(s, t, Len(s), e)
  BY <1>1 DEF Cut
<1>. QED  BY <1>2, <1>3 DEF OneCut

\* A stack cut above its top.
LEMMA PushCut ==
    ASSUME DOMAIN stack = Procs, NEW x \in Procs, IsSeq(stack[x]), NEW e, stack' = [stack EXCEPT ![x] = Append(stack[x], e)]
    PROVE  OneCut(x, Len(stack[x]) + 1, e)
<1>. DEFINE s == stack[x]
            t == Append(s, e)
<1>1. /\ IsSeq(t) /\ Len(t) = Len(s) + 1 /\ t # <<>> /\ t[Len(s) + 1] = e
      /\ Len(s) \in Nat /\ \A i \in 1..Len(s) : t[i] = s[i]
  BY Pushed
<1>. HIDE DEF t
<1>3. Cut(s, t, Len(s) + 1, e)
  BY <1>1 DEF Cut
<1>. QED  BY <1>3 DEF OneCut, t

\* A stack cut below its top.
LEMMA BelowCut ==
    ASSUME DOMAIN stack = Procs, NEW x \in Procs, IsSeq(stack[x]), Len(stack[x]) > 1, NEW e,
           stack' = [stack EXCEPT ![x] = Append(SubSeq(stack[x], 1, Len(stack[x]) - 2), e)]
    PROVE  OneCut(x, Len(stack[x]) - 1, e)
<1>. DEFINE s == stack[x]
            t == Append(SubSeq(s, 1, Len(s) - 2), e)
<1>1. /\ IsSeq(t) /\ Len(t) = Len(s) - 1 /\ t # <<>> /\ t[Len(s) - 1] = e /\ Len(s) \in Nat
      /\ \A i \in 1..(Len(s) - 2) : t[i] = s[i]
  BY TopReturned
<1>. HIDE DEF t
<1>3. Cut(s, t, Len(s) - 1, e)
  BY <1>1 DEF Cut
<1>. QED  BY <1>3 DEF OneCut, t

\* A stack of one frame.
LEMMA FirstCut ==
    ASSUME DOMAIN stack = Procs, NEW x \in Procs, NEW e, stack' = [stack EXCEPT ![x] = <<e>>], stack[x] = <<>>
    PROVE  OneCut(x, 1, e)
<1>. DEFINE t == <<e>>
<1>1. t \in Seq({e}) /\ Len(t) = 1 /\ t[1] = e
  OBVIOUS
<1>2. IsSeq(t)
  BY <1>1, SeqOfItsOwn
<1>3. t # <<>> /\ Len(<<>>) = 0
  OBVIOUS
<1>. HIDE DEF t
<1>4. Cut(stack[x], t, 1, e)
  BY <1>1, <1>2, <1>3 DEF Cut
<1>. QED  BY <1>4 DEF OneCut, t

\* The innermost frame.
LEMMA TopFrame ==
    ASSUME NEW s, s # <<>>, NEW got, NEW I, StackInv(s, got, I)
    PROVE  /\ Len(s) \in Nat \ {0} /\ Last(s) = s[Len(s)] /\ FrameInv(Last(s), got, I)
           /\ \A n \in 1..(Len(s) - 1) : Pos(s[n].path) < Pos(Last(s).path) /\ s[n].path # Last(s).path
<1>1. Len(s) \in Nat \ {0}
  BY EmptySeq DEF StackInv, IsSeq
<1>2. Last(s) = s[Len(s)] /\ FrameInv(Last(s), got, I)
  BY <1>1 DEF StackInv, Last
<1>3. ASSUME NEW n \in 1..(Len(s) - 1)
      PROVE  Pos(s[n].path) < Pos(Last(s).path) /\ s[n].path # Last(s).path
  <2>1. n \in 1..Len(s) /\ Len(s) \in 1..Len(s) /\ n < Len(s)
    BY <1>1
  <2>2. Pos(s[n].path) < Pos(Last(s).path)
    BY <1>2, <2>1 DEF StackInv
  <2>3. Pos(Last(s).path) \in Nat
    BY <1>2, PosOfPath DEF FrameInv, FrameType
  <2>. QED  BY <2>2, <2>3
<1>. QED  BY <1>1, <1>2, <1>3

\* What a cut must put on top for the stack to stay in shape.
LEMMA CutInShape ==
    ASSUME NEW s, NEW got, NEW I, StackInv(s, got, I), NEW t, NEW n, NEW e, Cut(s, t, n, e),
           NEW got2, NEW J, I \subseteq J, FrameInv(e, got2, J),
           \A m \in 1..(n - 1) : got2[s[m].path] = got[s[m].path],
           n > 1 => Nested(s[n - 1], e)
    PROVE  StackInv(t, got2, J)
<1>1. /\ IsSeq(t) /\ n \in Nat \ {0} /\ Len(t) = n /\ n - 1 <= Len(s) /\ Len(s) \in Nat
      /\ t[n] = e /\ \A i \in 1..(n - 1) : t[i] = s[i] /\ i \in 1..Len(s)
  BY DEF Cut
<1>2. \A f : f \in FrameType(I) => f \in FrameType(J)
  BY DEF FrameType
<1>3. ASSUME NEW i \in 1..n PROVE FrameInv(t[i], got2, J)
  <2>1. CASE i = n
    BY <1>1, <2>1
  <2>2. CASE i # n
    <3>1. i \in 1..(n - 1) /\ t[i] = s[i] /\ FrameInv(s[i], got, I)
      BY <1>1, <2>2 DEF StackInv
    <3>. QED  BY <1>2, <3>1 DEF FrameInv
  <2>. QED  BY <2>1, <2>2
<1>4. ASSUME NEW i \in 1..(n - 1) PROVE Nested(t[i], t[i + 1])
  <2>1. CASE i = n - 1
    BY <1>1, <2>1
  <2>2. CASE i # n - 1
    <3>1. i \in 1..(Len(s) - 1) /\ i + 1 \in 1..(n - 1) /\ t[i] = s[i] /\ t[i + 1] = s[i + 1]
      BY <1>1, <2>2
    <3>. QED  BY <3>1 DEF StackInv
  <2>. QED  BY <2>1, <2>2
<1>5. ASSUME NEW a \in 1..n, NEW b \in 1..n, a < b PROVE Pos(t[a].path) < Pos(t[b].path)
  <2>1. CASE b # n
    <3>1. a \in 1..(n - 1) /\ b \in 1..(n - 1) /\ a \in 1..Len(s) /\ b \in 1..Len(s) /\ t[a] = s[a] /\ t[b] = s[b]
      BY <1>1, <1>5, <2>1
    <3>. QED  BY <1>5, <3>1 DEF StackInv
  <2>2. CASE b = n
    <3>1. a \in 1..(n - 1) /\ n - 1 \in 1..(n - 1) /\ n - 1 \in 1..Len(s) /\ a \in 1..Len(s) /\ n > 1 /\ t[a] = s[a]
      BY <1>1, <1>5, <2>2
    <3>2. s[n - 1].path \in Paths /\ s[a].path \in Paths
      BY <3>1 DEF StackInv, FrameInv, FrameType
    <3>3. e.path \in Paths /\ Pos(s[n - 1].path) < Pos(e.path)
      BY <3>1, <3>2, ImportsLater DEF Nested
    <3>4. a = n - 1 \/ Pos(s[a].path) < Pos(s[n - 1].path)
      BY <1>1, <3>1 DEF StackInv
    <3>5. Pos(s[n - 1].path) \in Nat /\ Pos(e.path) \in Nat /\ Pos(s[a].path) \in Nat
      BY <3>2, <3>3, PosOfPath
    <3>. QED  BY <1>1, <2>2, <3>1, <3>3, <3>4, <3>5
  <2>. QED  BY <2>1, <2>2
<1>. QED  BY <1>1, <1>3, <1>4, <1>5 DEF StackInv

-----------------------------------------------------------------------------
(* Who is registered for, and who is making, the flight of a path.         *)

\* The flights that the frames of a stack at pcs are calls of.
In(s, pcs) == {<<s[n].kind, s[n].path>> : n \in {m \in 1..Len(s) : s[m].pc \in pcs}}
Pair(f) == <<f.kind, f.path>>

\* The pairs in a cut stack.
LEMMA InCut ==
    ASSUME NEW s, NEW t, NEW n, NEW e, Cut(s, t, n, e), NEW pcs, NEW z
    PROVE  z \in In(t, pcs) <=> \/ z = Pair(e) /\ e.pc \in pcs
                                \/ \E m \in 1..(n - 1) : z = Pair(s[m]) /\ s[m].pc \in pcs
<1>1. /\ n \in Nat \ {0} /\ Len(t) = n /\ t[n] = e /\ \A i \in 1..(n - 1) : t[i] = s[i]
  BY DEF Cut
<1>2. z \in In(t, pcs) <=> \E m \in 1..n : t[m].pc \in pcs /\ z = Pair(t[m])
  BY <1>1 DEF In, Pair
<1>3. \A m \in 1..n : m = n \/ m \in 1..(n - 1)
  BY <1>1
<1>4. n \in 1..n /\ \A m \in 1..(n - 1) : m \in 1..n
  BY <1>1
<1>. QED  BY <1>1, <1>2, <1>3, <1>4, Zenon

\* The pair of the top frame is in the stack.
LEMMA InTop ==
    ASSUME NEW s, s # <<>>, NEW got, NEW I, StackInv(s, got, I), NEW pcs, NEW z
    PROVE  /\ z \in In(s, pcs) <=> \/ z = Pair(Last(s)) /\ Last(s).pc \in pcs
                                   \/ \E m \in 1..(Len(s) - 1) : z = Pair(s[m]) /\ s[m].pc \in pcs
           /\ \A m \in 1..(Len(s) - 1) : Pair(s[m]) # Pair(Last(s))
<1>1. /\ Len(s) \in Nat \ {0} /\ Last(s) = s[Len(s)]
      /\ \A n \in 1..(Len(s) - 1) : s[n].path # Last(s).path
  BY TopFrame
<1>2. z \in In(s, pcs) <=> \E m \in 1..Len(s) : s[m].pc \in pcs /\ z = Pair(s[m])
  BY DEF In, Pair
<1>3. \A m \in 1..Len(s) : m = Len(s) \/ m \in 1..(Len(s) - 1)
  BY <1>1
<1>4. Len(s) \in 1..Len(s) /\ \A m \in 1..(Len(s) - 1) : m \in 1..Len(s)
  BY <1>1
<1>5. \A m \in 1..(Len(s) - 1) : Pair(s[m]) # Pair(Last(s))
  BY <1>1 DEF Pair
<1>. QED  BY <1>1, <1>2, <1>3, <1>4, <1>5, Zenon

\* The innermost call goes on.
LEMMA InReplaced ==
    ASSUME NEW s, s # <<>>, NEW got, NEW I, StackInv(s, got, I), NEW t, NEW e, Cut(s, t, Len(s), e),
           Pair(e) = Pair(Last(s)), NEW pcs, NEW z
    PROVE  /\ z \in In(t, pcs) <=> IF z = Pair(Last(s)) THEN e.pc \in pcs ELSE z \in In(s, pcs)
           /\ Pair(Last(s)) \in In(s, pcs) <=> Last(s).pc \in pcs
<1>1. z \in In(t, pcs) <=> \/ z = Pair(e) /\ e.pc \in pcs
                           \/ \E m \in 1..(Len(s) - 1) : z = Pair(s[m]) /\ s[m].pc \in pcs
  BY InCut
<1>2. /\ z \in In(s, pcs) <=> \/ z = Pair(Last(s)) /\ Last(s).pc \in pcs
                              \/ \E m \in 1..(Len(s) - 1) : z = Pair(s[m]) /\ s[m].pc \in pcs
      /\ \A m \in 1..(Len(s) - 1) : Pair(s[m]) # Pair(Last(s))
  BY InTop
<1>3. Pair(Last(s)) \in In(s, pcs) <=>
        \/ Pair(Last(s)) = Pair(Last(s)) /\ Last(s).pc \in pcs
        \/ \E m \in 1..(Len(s) - 1) : Pair(Last(s)) = Pair(s[m]) /\ s[m].pc \in pcs
  BY InTop
<1>. QED  BY <1>1, <1>2, <1>3, Zenon

\* A nested call begins.
LEMMA InPushed ==
    ASSUME NEW s, s # <<>>, NEW got, NEW I, StackInv(s, got, I), NEW t, NEW e, Cut(s, t, Len(s) + 1, e),
           NEW pcs, e.pc \notin pcs, NEW z
    PROVE  z \in In(t, pcs) <=> z \in In(s, pcs)
<1>0. Len(s) \in Nat /\ Len(s) + 1 - 1 = Len(s)
  BY TopFrame
<1>1. z \in In(t, pcs) <=> \E m \in 1..Len(s) : z = Pair(s[m]) /\ s[m].pc \in pcs
  BY <1>0, InCut
<1>2. z \in In(s, pcs) <=> \E m \in 1..Len(s) : s[m].pc \in pcs /\ z = Pair(s[m])
  BY DEF In, Pair
<1>. QED  BY <1>1, <1>2, Zenon

\* The innermost call returns to its importer.
LEMMA InReturned ==
    ASSUME NEW s, s # <<>>, NEW got, NEW I, StackInv(s, got, I), Len(s) > 1,
           NEW t, NEW e, Cut(s, t, Len(s) - 1, e),
           Pair(e) = Pair(s[Len(s) - 1]), e.pc = s[Len(s) - 1].pc, NEW pcs, NEW z
    PROVE  /\ z \in In(t, pcs) <=> (z # Pair(Last(s)) /\ z \in In(s, pcs))
           /\ Pair(Last(s)) \in In(s, pcs) <=> Last(s).pc \in pcs
<1>. DEFINE k == Len(s) - 1
            Lower(c) == \E m \in 1..c : z = Pair(s[m]) /\ s[m].pc \in pcs
<1>1. k \in Nat \ {0}
  BY TopFrame
<1>2. z \in In(t, pcs) <=> (z = Pair(e) /\ e.pc \in pcs) \/ Lower(k - 1)
  BY InCut
<1>3. Lower(k) <=> (z = Pair(s[k]) /\ s[k].pc \in pcs) \/ Lower(k - 1)
  <2>1. \A m : m \in 1..k <=> (m = k \/ m \in 1..(k - 1))
    BY <1>1
  <2>. QED  BY <2>1, Zenon
<1>4. /\ z \in In(s, pcs) <=> (z = Pair(Last(s)) /\ Last(s).pc \in pcs) \/ Lower(k)
      /\ \A m \in 1..k : Pair(s[m]) # Pair(Last(s))
  BY InTop
<1>5. Pair(Last(s)) \in In(s, pcs) <=>
        \/ Pair(Last(s)) = Pair(Last(s)) /\ Last(s).pc \in pcs
        \/ \E m \in 1..(Len(s) - 1) : Pair(Last(s)) = Pair(s[m]) /\ s[m].pc \in pcs
  BY InTop
<1>6. Lower(k) => z # Pair(Last(s))
  BY <1>4
<1>. HIDE DEF Lower
<1>7. z \in In(t, pcs) <=> Lower(k)
  BY <1>2, <1>3
<1>8. (z # Pair(Last(s)) /\ z \in In(s, pcs)) <=> Lower(k)
  BY <1>4, <1>6
<1>. QED  BY <1>4, <1>5, <1>7, <1>8, Zenon

-----------------------------------------------------------------------------
(* Types.                                                                  *)

LoadType == [req : [Kinds -> [Paths -> Nat]], exports : [Paths -> Nat], bad : SUBSET Paths, cancels : Nat,
             edits : SUBSET Paths, deletes : SUBSET Paths, decode : BOOLEAN, memo : BOOLEAN, plain : BOOLEAN]
Registering == {"do", "wait", "lead", "check", "exit"}
Leading == {"lead", "check"}
Callers(z, pcs) == {x \in Procs : z \in In(stack[x], pcs)}

\* The scopes and stacks of the calls.
CallsTyped ==
    /\ DOMAIN stack = Procs /\ scope \in [Procs -> ScopeType(Ids)] /\ canceled \in SUBSET Procs
    /\ \A x \in Procs : StackInv(stack[x], scope[x].got, Ids) /\ (stack[x] = <<>> => scope[x] = NoScope)
LruTyped ==
    /\ lru \in [Kinds -> LruType]
    /\ \A k \in Kinds : LruOK(lru[k]) /\ \A p \in Paths : lru[k].id[p] <= Len(inst)
\* The packages, the caches and what counts the callers of a flight.
StateTyped ==
    /\ load \in LoadType /\ ret \in [Procs -> Ids]
    /\ IsSeq(inst) /\ \A i \in DOMAIN inst : inst[i] \in InstType(Ids)
    /\ LruTyped
    /\ waiters \in [Kinds -> [Paths -> Nat]]
    /\ flight \in [Kinds -> [Paths -> BOOLEAN]] /\ birth \in [Kinds -> [Paths -> BOOLEAN]]
\* One flight: its callers are counted, one of them leads it, and a package
\* is checked only while none is cached.
FlightAt(k, p) ==
    /\ waiters[k][p] = Cardinality(Callers(<<k, p>>, Registering))
    /\ flight[k][p] <=> Callers(<<k, p>>, Leading) # {}
    /\ \A x, y \in Callers(<<k, p>>, Leading) : x = y
    /\ Callers(<<k, p>>, {"check"}) # {} => lru[k].id[p] = None
    /\ birth[k][p] => waiters[k][p] > 0
FlightInv == \A k \in Kinds : \A p \in Paths : FlightAt(k, p)
JobPcs == {"idle", "ask", "do", "wait", "lead", "check", "memo", "done"}
JobsTyped ==
    \A x \in Procs : job[x].pc \in JobPcs /\ (Running(x) => job[x].pc \in {"idle", "check"})
TypeInv == CallsTyped /\ StateTyped /\ FlightInv

\* There are more packages after a step than before.
LEMMA IdsGrow ==
    ASSUME Len(inst) \in Nat, Len(inst') \in Nat, Len(inst') >= Len(inst)
    PROVE  Ids \subseteq Ids'
BY PosOfPath, OrderAssumption DEF Ids, Err

\* The numbers of the packages, and of no package.
LEMMA IdsHere ==
    ASSUME IsSeq(inst)
    PROVE  /\ Len(inst) \in Nat /\ DOMAIN inst = 1..Len(inst) /\ None \in Ids /\ Err \in Ids /\ Err # None
           /\ \A i \in Ids : i \in Int /\ (i > 0 => i \in DOMAIN inst)
           /\ \A i \in 0..Len(inst) : i \in Ids
           /\ \A p \in Paths : Decoded(p) \in Ids
<1>1. Len(inst) \in Nat /\ DOMAIN inst = 1..Len(inst)
  BY LenProperties DEF IsSeq
<1>2. Len(Order) \in Nat
  BY OrderAssumption, LenProperties
<1>3. \A p \in Paths : Pos(p) \in 1..Len(Order)
  BY PosOfPath
<1>. QED  BY <1>1, <1>2, <1>3 DEF Ids, Err, None, Decoded

\* What a package refers to.
LEMMA ReachTyped ==
    ASSUME StateTyped, NEW i \in Ids, i # None, i # Err
    PROVE  Reach(i) \in SUBSET Ids
<1>1. i \in Int /\ (i > 0 => i \in DOMAIN inst) /\ \A p \in Paths : Decoded(p) \in Ids
  BY IdsHere DEF StateTyped
<1>2. CASE i < 0
  <2>1. Reach(i) = {Decoded(q) : q \in DepClosure(Order[-i])}
    BY <1>2, Zenon DEF Reach
  <2>2. DepClosure(Order[-i]) \subseteq Paths
    BY DEF DepClosure
  <2>. QED  BY <1>1, <2>1, <2>2
<1>3. CASE i > 0
  <2>1. Reach(i) = inst[i].ids
    BY <1>1, <1>3 DEF Reach
  <2>. QED  BY <1>1, <1>3, <2>1 DEF StateTyped, InstType
<1>. QED  BY <1>1, <1>2, <1>3 DEF None

\* A call that returns.
ReturnsFrom(x, res, sc, n, e) ==
    LET f == Top(x)
        g == stack[x][Len(stack[x]) - 1]
        ph == Len(inst) + 1
    IN  \/ /\ Len(stack[x]) = 1 /\ n = Len(stack[x]) /\ e = Ended(f, "close", res)
           /\ scope' = [scope EXCEPT ![x] = sc] /\ inst' = inst
        \/ /\ Len(stack[x]) > 1 /\ n = Len(stack[x]) - 1 /\ res # Err
           /\ e = Imported(g, f.path, Reach(res), res > 0 /\ inst[res].failed)
           /\ scope' = [scope EXCEPT ![x] = sc] /\ inst' = inst
        \/ /\ Len(stack[x]) > 1 /\ n = Len(stack[x]) - 1 /\ res = Err /\ x \in canceled /\ e = [g EXCEPT !.todo = {}]
           /\ scope' = [scope EXCEPT ![x] = sc] /\ inst' = inst
        \/ /\ Len(stack[x]) > 1 /\ n = Len(stack[x]) - 1 /\ res = Err /\ x \notin canceled
           /\ e = Imported(g, f.path, {ph}, TRUE)
           /\ inst' = Append(inst, [path |-> f.path, ids |-> {ph}, failed |-> TRUE, old |-> FALSE, raced |-> FALSE])
           /\ scope' = [scope EXCEPT ![x] = placeholderFor(sc, f.path, ph)]

\* Return, as a cut.
LEMMA ReturnCut ==
    ASSUME CallsTyped, NEW x \in Procs, Running(x), NEW res, NEW sc, Return(x, res, sc)
    PROVE  \E n, e : OneCut(x, n, e) /\ ReturnsFrom(x, res, sc, n, e)
<1>. DEFINE f == Top(x)
            g == stack[x][Len(stack[x]) - 1]
            below == SubSeq(stack[x], 1, Len(stack[x]) - 2)
            ph == Len(inst) + 1
            e0 == Ended(f, "close", res)
            e1 == Imported(g, f.path, Reach(res), res > 0 /\ inst[res].failed)
            e2 == [g EXCEPT !.todo = {}]
            e3 == Imported(g, f.path, {ph}, TRUE)
<1>1. DOMAIN stack = Procs /\ IsSeq(stack[x]) /\ stack[x] # <<>>
  BY DEF CallsTyped, StackInv, Running
<1>2. CASE Len(stack[x]) = 1 /\ stack' = SetTop(x, e0) /\ scope' = [scope EXCEPT ![x] = sc] /\ inst' = inst
  <2>1. OneCut(x, Len(stack[x]), e0)
    BY <1>1, <1>2, TopCut
  <2>2. ReturnsFrom(x, res, sc, Len(stack[x]), e0)
    BY <1>2, Zenon DEF ReturnsFrom
  <2>. QED  BY <2>1, <2>2
<1>3. ASSUME NEW e, Len(stack[x]) > 1, stack' = [stack EXCEPT ![x] = Append(below, e)]
      PROVE  OneCut(x, Len(stack[x]) - 1, e)
  BY <1>1, <1>3, BelowCut
<1>4. CASE /\ Len(stack[x]) > 1 /\ res # Err /\ stack' = [stack EXCEPT ![x] = Append(below, e1)]
           /\ scope' = [scope EXCEPT ![x] = sc] /\ inst' = inst
  <2>1. OneCut(x, Len(stack[x]) - 1, e1)
    <3>. HIDE DEF e1, below
    <3>. QED  BY <1>3, <1>4
  <2>2. ReturnsFrom(x, res, sc, Len(stack[x]) - 1, e1)
    BY <1>4, Zenon DEF ReturnsFrom
  <2>. QED  BY <2>1, <2>2
<1>5. CASE /\ Len(stack[x]) > 1 /\ res = Err /\ x \in canceled /\ stack' = [stack EXCEPT ![x] = Append(below, e2)]
           /\ scope' = [scope EXCEPT ![x] = sc] /\ inst' = inst
  <2>1. OneCut(x, Len(stack[x]) - 1, e2)
    <3>. HIDE DEF e2, below
    <3>. QED  BY <1>3, <1>5
  <2>2. ReturnsFrom(x, res, sc, Len(stack[x]) - 1, e2)
    BY <1>5, Zenon DEF ReturnsFrom
  <2>. QED  BY <2>1, <2>2
<1>6. CASE /\ Len(stack[x]) > 1 /\ res = Err /\ x \notin canceled /\ stack' = [stack EXCEPT ![x] = Append(below, e3)]
           /\ inst' = Append(inst, [path |-> f.path, ids |-> {ph}, failed |-> TRUE, old |-> FALSE, raced |-> FALSE])
           /\ scope' = [scope EXCEPT ![x] = placeholderFor(sc, f.path, ph)]
  <2>1. OneCut(x, Len(stack[x]) - 1, e3)
    <3>. HIDE DEF e3, below
    <3>. QED  BY <1>3, <1>6
  <2>2. ReturnsFrom(x, res, sc, Len(stack[x]) - 1, e3)
    BY <1>6, Zenon DEF ReturnsFrom
  <2>. QED  BY <2>1, <2>2
<1>. QED  BY <1>2, <1>4, <1>5, <1>6, Zenon DEF Return

-----------------------------------------------------------------------------
(* The calls of one goroutine keep their shape.                            *)

CallTyped(y) == StackInv(stack[y], scope[y].got, Ids) /\ (stack[y] = <<>> => scope[y] = NoScope)

\* A call whose stack is not cut.
LEMMA CallStays ==
    ASSUME CallsTyped, NEW y \in Procs, stack'[y] = stack[y], scope'[y] = scope[y], Ids \subseteq Ids'
    PROVE  CallTyped(y)'
<1>1. \A f : f \in FrameType(Ids) => f \in FrameType(Ids')
  BY DEF FrameType
<1>2. StackInv(stack[y], scope[y].got, Ids)
  BY DEF CallsTyped
<1>3. \A n \in 1..Len(stack[y]) : FrameInv(stack[y][n], scope[y].got, Ids')
  BY <1>1, <1>2 DEF StackInv, FrameInv
<1>4. StackInv(stack[y], scope[y].got, Ids')
  BY <1>2, <1>3 DEF StackInv
<1>. QED  BY <1>4 DEF CallTyped, CallsTyped

\* A call whose stack is cut.
LEMMA CallCut ==
    ASSUME CallsTyped, NEW y \in Procs, NEW n, NEW e, Cut(stack[y], stack'[y], n, e), Ids \subseteq Ids',
           FrameInv(e, scope'[y].got, Ids'),
           \A m \in 1..(n - 1) : scope'[y].got[stack[y][m].path] = scope[y].got[stack[y][m].path],
           n > 1 => Nested(stack[y][n - 1], e)
    PROVE  CallTyped(y)'
<1>1. StackInv(stack[y], scope[y].got, Ids)
  BY DEF CallsTyped
<1>2. StackInv(stack'[y], scope'[y].got, Ids')
  BY <1>1, CutInShape
<1>. QED  BY <1>2 DEF CallTyped, Cut

\* The innermost call goes on, at another pc: what it was nested in is as before.
LEMMA CallMoves ==
    ASSUME CallsTyped, NEW y \in Procs, Running(y), NEW e, Cut(stack[y], stack'[y], Len(stack[y]), e),
           Ids \subseteq Ids', scope'[y] = scope[y], FrameInv(e, scope[y].got, Ids'), Pair(e) = Pair(Top(y)),
           e.pc # "close"
    PROVE  CallTyped(y)'
<1>1. stack[y] # <<>> /\ StackInv(stack[y], scope[y].got, Ids)
  BY DEF CallsTyped, Running
<1>2. Len(stack[y]) \in Nat \ {0} /\ Last(stack[y]) = stack[y][Len(stack[y])]
  BY <1>1, TopFrame
<1>3. Len(stack[y]) > 1 => Nested(stack[y][Len(stack[y]) - 1], e)
  <2>. DEFINE k == Len(stack[y]) - 1
  <2>. SUFFICES ASSUME Len(stack[y]) > 1 PROVE Nested(stack[y][k], e)
    OBVIOUS
  <2>1. k \in 1..(Len(stack[y]) - 1) /\ k + 1 = Len(stack[y])
    BY <1>2
  <2>2. Nested(stack[y][k], stack[y][k + 1])
    BY <1>1, <2>1 DEF StackInv
  <2>. QED  BY <1>2, <2>1, <2>2 DEF Nested, Pair, Top
<1>. QED  BY <1>3, CallCut

\* The innermost frame of a goroutine that is calling.
LEMMA TopTyped ==
    ASSUME CallsTyped, NEW x \in Procs, Running(x)
    PROVE  LET f == Top(x)
           IN  /\ stack[x] # <<>> /\ StackInv(stack[x], scope[x].got, Ids) /\ DOMAIN stack = Procs /\ IsSeq(stack[x])
               /\ Len(stack[x]) \in Nat \ {0} /\ f = Last(stack[x]) /\ f = stack[x][Len(stack[x])]
               /\ f \in FrameType(Ids) /\ FrameInv(f, scope[x].got, Ids)
               /\ f.path \in Paths /\ f.kind \in Kinds /\ Pair(f) \in Kinds \X Paths
               /\ scope[x] \in ScopeType(Ids)
<1>1. stack[x] # <<>> /\ StackInv(stack[x], scope[x].got, Ids) /\ DOMAIN stack = Procs /\ IsSeq(stack[x])
      /\ scope[x] \in ScopeType(Ids)
  BY DEF CallsTyped, Running, StackInv
<1>2. /\ Len(stack[x]) \in Nat \ {0} /\ Top(x) = Last(stack[x]) /\ Top(x) = stack[x][Len(stack[x])]
      /\ FrameInv(Top(x), scope[x].got, Ids)
  BY <1>1, TopFrame DEF Top
<1>3. Top(x) \in FrameType(Ids)
  BY <1>2 DEF FrameInv
<1>4. Top(x).path \in Paths /\ Top(x).kind \in Kinds
  BY <1>3 DEF FrameType
<1>. QED  BY <1>1, <1>2, <1>3, <1>4 DEF Pair

\* A step of x alone that moves its innermost call on.
LEMMA MoveTyped ==
    ASSUME CallsTyped, NEW x \in Procs, Running(x), NEW e, stack' = SetTop(x, e), UNCHANGED <<scope, inst>>,
           canceled' \in SUBSET Procs, FrameInv(e, scope[x].got, Ids), Pair(e) = Pair(Top(x)), e.pc # "close"
    PROVE  CallsTyped' /\ OneCut(x, Len(stack[x]), e)
<1>1. OneCut(x, Len(stack[x]), e)
  BY TopTyped, TopCut
<1>2. Ids' = Ids
  BY DEF Ids
<1>3. CallTyped(x)'
  BY <1>1, <1>2, CallMoves DEF OneCut
<1>4. \A y \in Procs \ {x} : CallTyped(y)'
  BY <1>1, <1>2, CallStays DEF OneCut
<1>. QED  BY <1>1, <1>2, <1>3, <1>4 DEF CallsTyped, CallTyped, OneCut

\* A lookup that hits, or the end of a wait, puts one package into the scope.
LEMMA ScopePutTyped ==
    ASSUME CallsTyped, NEW x \in Procs, NEW p \in Paths, NEW i \in Ids, NEW k \in Kinds
    PROVE  LET sc == ScopePut(x, p, i, k)
           IN  /\ sc \in ScopeType(Ids) /\ sc.holder = scope[x].holder
               /\ \A q \in Paths : q # p => sc.got[q] = scope[x].got[q] /\ sc.via[q] = scope[x].via[q]
               /\ scope[x].got[p] # None => sc = scope[x]
               /\ scope[x].got[p] = None => sc.got[p] = i /\ sc.via[p] = k
<1>1. scope[x] \in ScopeType(Ids)
  BY DEF CallsTyped
<1>2. CASE scope[x].got[p] # None
  BY <1>1, <1>2 DEF ScopePut
<1>3. CASE scope[x].got[p] = None
  <2>. DEFINE sc == [scope[x] EXCEPT !.got[p] = i, !.via[p] = k]
  <2>1. ScopePut(x, p, i, k) = sc
    BY <1>3 DEF ScopePut
  <2>. DEFINE a == [scope[x].got EXCEPT ![p] = i]
              b == [scope[x].via EXCEPT ![p] = k]
  <2>2. sc = [scope[x] EXCEPT !.got = a, !.via = b]
    BY <1>1 DEF ScopeType
  <2>3. a \in [Paths -> Ids] /\ b \in [Paths -> {"none"} \cup Kinds]
    BY <1>1 DEF ScopeType
  <2>4. a[p] = i /\ b[p] = k /\ \A q \in Paths : q # p => a[q] = scope[x].got[q] /\ b[q] = scope[x].via[q]
    BY <1>1 DEF ScopeType
  <2>. HIDE DEF sc, a, b
  <2>5. sc \in ScopeType(Ids) /\ sc.got = a /\ sc.via = b /\ sc.holder = scope[x].holder
    BY <1>1, <2>2, <2>3 DEF ScopeType
  <2>. QED  BY <1>3, <2>1, <2>4, <2>5
<1>. QED  BY <1>2, <1>3

\* The frame of an importer, when an import was resolved or given up.
ImportedFrom(g, e) ==
    /\ e.path = g.path /\ e.kind = g.kind /\ e.pc = g.pc /\ e.old = g.old /\ e.raced = g.raced /\ e.todo \subseteq g.todo
\* It has taken the packages of one import.
Took(g, p, ids, e) == e.todo = g.todo \ {p} /\ e.ids = g.ids \cup ids
\* An importer that took an import.
LEMMA ImportedTyped ==
    ASSUME NEW I, NEW g \in FrameType(I), NEW p, NEW ids \in SUBSET I, NEW degraded \in BOOLEAN
    PROVE  LET e == Imported(g, p, ids, degraded)
           IN  e \in FrameType(I) /\ ImportedFrom(g, e) /\ Took(g, p, ids, e)
<1>. DEFINE a == g.todo \ {p}
            b == g.ids \cup ids
            c == g.failed \/ degraded
            e == [g EXCEPT !.todo = a, !.ids = b, !.failed = c]
<1>1. Imported(g, p, ids, degraded) = e
  BY DEF Imported
<1>2. a \in SUBSET Paths /\ b \in SUBSET I /\ c \in BOOLEAN /\ a \subseteq g.todo
  BY DEF FrameType
<1>. HIDE DEF a, b, c
<1>3. /\ e \in FrameType(I) /\ e.todo = a /\ e.ids = b /\ e.failed = c
      /\ e.path = g.path /\ e.kind = g.kind /\ e.pc = g.pc /\ e.old = g.old /\ e.raced = g.raced
  BY <1>2 DEF FrameType
<1>. QED  BY <1>1, <1>2, <1>3 DEF ImportedFrom, Took, a, b, c

\* A degraded import degrades its importer.
LEMMA ImportedFails ==
    ASSUME NEW I, NEW g \in FrameType(I), NEW p, NEW ids \in SUBSET I, NEW degraded \in BOOLEAN
    PROVE  Imported(g, p, ids, degraded).failed <=> g.failed \/ degraded
BY DEF FrameType, Imported

\* A check given up.
LEMMA GivenUpTyped ==
    ASSUME NEW I, NEW g \in FrameType(I)
    PROVE  LET e == [g EXCEPT !.todo = {}]
           IN  e \in FrameType(I) /\ ImportedFrom(g, e) /\ e.todo = {} /\ e.ids = g.ids /\ e.failed = g.failed
BY DEF FrameType, ImportedFrom

\* A call that has its result.
LEMMA EndedTyped ==
    ASSUME NEW I, NEW f \in FrameType(I), NEW pc \in Pcs, NEW res \in I
    PROVE  LET e == Ended(f, pc, res)
           IN  /\ e \in FrameType(I) /\ e.pc = pc /\ e.res = res /\ Pair(e) = Pair(f) /\ e.path = f.path /\ e.kind = f.kind
               /\ e.old = f.old /\ e.raced = f.raced /\ e.todo = f.todo /\ e.ids = f.ids /\ e.failed = f.failed
BY DEF FrameType, Ended, Pair

\* A frame that goes on.
LEMMA AdvancedTyped ==
    ASSUME NEW I, NEW f \in FrameType(I), NEW pc \in Pcs
    PROVE  LET e == [f EXCEPT !.pc = pc]
           IN  /\ e \in FrameType(I) /\ e.pc = pc /\ e.res = f.res /\ Pair(e) = Pair(f) /\ e.path = f.path /\ e.kind = f.kind
               /\ e.old = f.old /\ e.raced = f.raced /\ e.todo = f.todo /\ e.ids = f.ids /\ e.failed = f.failed
BY DEF FrameType, Pair

\* A new frame.
LEMMA FrameTyped ==
    ASSUME NEW I, None \in I, NEW p \in Paths, NEW k \in Kinds, NEW import \in BOOLEAN
    PROVE  Frame(p, k, import) \in FrameType(I)
BY DEF FrameType, Frame, Pcs

-----------------------------------------------------------------------------
(* The packages, and a call that returns.                                  *)

\* Packages are only added, of the right type.
InstGrows ==
    /\ IsSeq(inst') /\ Len(inst') \in Nat /\ Len(inst) \in Nat /\ Len(inst') >= Len(inst)
    /\ DOMAIN inst = 1..Len(inst) /\ DOMAIN inst' = 1..Len(inst')
    /\ \A i \in DOMAIN inst' : inst'[i] \in InstType(Ids')
    /\ \A i \in DOMAIN inst : inst'[i].path = inst[i].path /\ inst'[i].ids = inst[i].ids /\ inst'[i].failed = inst[i].failed
    /\ Ids \subseteq Ids'

\* No package is added.
LEMMA InstStays ==
    ASSUME StateTyped, inst' = inst
    PROVE  InstGrows /\ Ids' = Ids
<1>1. Ids' = Ids
  BY DEF Ids
<1>2. Len(inst) \in Nat /\ DOMAIN inst = 1..Len(inst)
  BY IdsHere DEF StateTyped
<1>. QED  BY <1>1, <1>2 DEF InstGrows, StateTyped

\* A package is added.
LEMMA InstAdded ==
    ASSUME StateTyped, NEW r, inst' = Append(inst, r), Ids \subseteq Ids' => r \in InstType(Ids')
    PROVE  /\ InstGrows /\ Len(inst') = Len(inst) + 1 /\ inst'[Len(inst) + 1] = r
           /\ \A i \in DOMAIN inst : inst'[i] = inst[i]
<1>1. Len(inst) \in Nat /\ DOMAIN inst = 1..Len(inst)
  BY IdsHere DEF StateTyped
<1>2. /\ IsSeq(inst') /\ Len(inst') = Len(inst) + 1 /\ inst'[Len(inst) + 1] = r
      /\ \A i \in 1..Len(inst) : inst'[i] = inst[i]
  BY Pushed DEF StateTyped
<1>3. DOMAIN inst' = 1..Len(inst')
  BY <1>2, LenProperties DEF IsSeq
<1>4. Ids \subseteq Ids'
  BY <1>1, <1>2, IdsGrow
<1>5. \A q \in InstType(Ids) : q \in InstType(Ids')
  BY <1>4 DEF InstType
<1>6. \A i \in DOMAIN inst' : inst'[i] \in InstType(Ids')
  <2>. SUFFICES ASSUME NEW i \in DOMAIN inst' PROVE inst'[i] \in InstType(Ids')
    OBVIOUS
  <2>1. i = Len(inst) + 1 \/ i \in 1..Len(inst)
    BY <1>1, <1>2, <1>3
  <2>. QED  BY <1>1, <1>2, <1>4, <1>5, <2>1 DEF StateTyped
<1>. QED  BY <1>1, <1>2, <1>3, <1>4, <1>6 DEF InstGrows

\* The frame an importer is left with, and the scope.
LEMMA ReturnedFrame ==
    ASSUME CallsTyped, StateTyped, NEW x \in Procs, Running(x), NEW res \in Ids \ {None}, NEW sc \in ScopeType(Ids),
           NEW n, NEW e, ReturnsFrom(x, res, sc, n, e)
    PROVE  /\ InstGrows
           /\ \A i \in DOMAIN inst : inst'[i] = inst[i]
           /\ DOMAIN scope' = Procs /\ \A y \in Procs \ {x} : scope'[y] = scope[y]
           /\ scope'[x] \in ScopeType(Ids') /\ scope'[x].got = sc.got /\ scope'[x].via = sc.via
           /\ e \in FrameType(Ids')
           /\ \/ Len(stack[x]) = 1 /\ n = Len(stack[x]) /\ e = Ended(Top(x), "close", res)
              \/ Len(stack[x]) > 1 /\ n = Len(stack[x]) - 1 /\ ImportedFrom(stack[x][Len(stack[x]) - 1], e)
<1>. DEFINE f == Top(x)
            g == stack[x][Len(stack[x]) - 1]
            ph == Len(inst) + 1
            r == [path |-> f.path, ids |-> {ph}, failed |-> TRUE, old |-> FALSE, raced |-> FALSE]
            sp == placeholderFor(sc, f.path, ph)
<1>1. f \in FrameType(Ids) /\ f.path \in Paths /\ Len(stack[x]) \in Nat \ {0} /\ StackInv(stack[x], scope[x].got, Ids)
  BY TopTyped
<1>2. /\ DOMAIN scope = Procs /\ Len(inst) \in Nat
      /\ None \in Ids /\ Err \in Ids
  BY IdsHere DEF CallsTyped, StateTyped
<1>3. ASSUME Len(stack[x]) > 1 PROVE g \in FrameType(Ids)
  <2>1. Len(stack[x]) - 1 \in 1..Len(stack[x])
    BY <1>1, <1>3
  <2>. QED  BY <1>1, <2>1 DEF StackInv, FrameInv
<1>4. CASE Len(stack[x]) = 1 /\ n = Len(stack[x]) /\ e = Ended(f, "close", res) /\ scope' = [scope EXCEPT ![x] = sc] /\ inst' = inst
  <2>1. InstGrows /\ Ids' = Ids
    BY <1>4, InstStays
  <2>2. e \in FrameType(Ids)
    BY <1>1, <1>4, EndedTyped DEF Pcs
  <2>. QED  BY <1>2, <1>4, <2>1, <2>2
<1>5. CASE /\ Len(stack[x]) > 1 /\ n = Len(stack[x]) - 1 /\ res # Err
           /\ e = Imported(g, f.path, Reach(res), res > 0 /\ inst[res].failed)
           /\ scope' = [scope EXCEPT ![x] = sc] /\ inst' = inst
  <2>1. InstGrows /\ Ids' = Ids
    BY <1>5, InstStays
  <2>2. Reach(res) \in SUBSET Ids
    BY <1>5, ReachTyped
  <2>3. (res > 0 /\ inst[res].failed) \in BOOLEAN
    OBVIOUS
  <2>. DEFINE d == res > 0 /\ inst[res].failed
  <2>. HIDE DEF d
  <2>4. e \in FrameType(Ids) /\ ImportedFrom(g, e)
    BY <1>3, <1>5, <2>2, <2>3, ImportedTyped DEF d
  <2>. QED  BY <1>2, <1>5, <2>1, <2>4
<1>6. CASE /\ Len(stack[x]) > 1 /\ n = Len(stack[x]) - 1 /\ res = Err /\ x \in canceled /\ e = [g EXCEPT !.todo = {}]
           /\ scope' = [scope EXCEPT ![x] = sc] /\ inst' = inst
  <2>1. InstGrows /\ Ids' = Ids
    BY <1>6, InstStays
  <2>4. e \in FrameType(Ids) /\ ImportedFrom(g, e)
    BY <1>3, <1>6, GivenUpTyped
  <2>. QED  BY <1>2, <1>6, <2>1, <2>4
<1>7. CASE /\ Len(stack[x]) > 1 /\ n = Len(stack[x]) - 1 /\ res = Err /\ x \notin canceled
           /\ e = Imported(g, f.path, {ph}, TRUE)
           /\ inst' = Append(inst, r)
           /\ scope' = [scope EXCEPT ![x] = sp]
  <2>1. ASSUME Ids \subseteq Ids', ph \in Ids' PROVE r \in InstType(Ids')
    BY <1>1, <2>1 DEF InstType
  <2>2. ph \in Ids'
    <3>. HIDE DEF r
    <3>1. Len(inst') = ph /\ IsSeq(inst')
      BY <1>2, <1>7, Pushed DEF StateTyped
    <3>. QED  BY <1>2, <3>1, PosOfPath, OrderAssumption DEF Ids, Err
  <2>3. InstGrows /\ \A i \in DOMAIN inst : inst'[i] = inst[i]
    <3>. HIDE DEF r
    <3>. QED  BY <1>7, <2>1, <2>2, InstAdded
  <2>4. Ids \subseteq Ids'
    BY <2>3 DEF InstGrows
  <2>. HIDE DEF ph
  <2>5. g \in FrameType(Ids')
    BY <1>3, <1>7, <2>4 DEF FrameType
  <2>6. e \in FrameType(Ids') /\ ImportedFrom(g, e)
    <3>1. {ph} \in SUBSET Ids' /\ TRUE \in BOOLEAN /\ e = Imported(g, f.path, {ph}, TRUE)
      BY <1>7, <2>2
    <3>. HIDE DEF g
    <3>. QED  BY <2>5, <3>1, ImportedTyped, Zenon
  <2>7. sp \in ScopeType(Ids') /\ sp.got = sc.got /\ sp.via = sc.via
    <3>. DEFINE h == [sc.holder EXCEPT ![f.path] = ph]
    <3>0. sp = [sc EXCEPT !.holder = h]
      BY DEF placeholderFor, ScopeType
    <3>1. h \in [Paths -> Ids']
      BY <2>2, <2>4 DEF ScopeType
    <3>2. sc.got \in [Paths -> Ids']
      BY <2>4 DEF ScopeType
    <3>. HIDE DEF h, sp
    <3>. QED  BY <3>0, <3>1, <3>2 DEF ScopeType
  <2>. HIDE DEF sp
  <2>. QED  BY <1>2, <1>7, <2>3, <2>6, <2>7
<1>. QED  BY <1>4, <1>5, <1>6, <1>7, Zenon DEF ReturnsFrom

\* A return keeps the types of the stacks.
LEMMA ReturnTyped ==
    ASSUME CallsTyped, StateTyped, NEW x \in Procs, Running(x), NEW res \in Ids \ {None}, NEW sc \in ScopeType(Ids),
           \A q \in Paths : q # Top(x).path => sc.got[q] = scope[x].got[q],
           NEW n, NEW e, ReturnsFrom(x, res, sc, n, e), OneCut(x, n, e), canceled' \in SUBSET Procs
    PROVE  CallsTyped'
<1>. DEFINE s == stack[x]
            f == Top(x)
<1>1. /\ InstGrows
      /\ DOMAIN scope' = Procs /\ \A y \in Procs \ {x} : scope'[y] = scope[y]
      /\ scope'[x] \in ScopeType(Ids') /\ scope'[x].got = sc.got
      /\ e \in FrameType(Ids')
      /\ \/ Len(stack[x]) = 1 /\ n = Len(stack[x]) /\ e = Ended(Top(x), "close", res)
         \/ Len(stack[x]) > 1 /\ n = Len(stack[x]) - 1 /\ ImportedFrom(stack[x][Len(stack[x]) - 1], e)
  BY ReturnedFrame
<1>2. Ids \subseteq Ids'
  BY <1>1 DEF InstGrows
<1>3. /\ stack[x] # <<>> /\ StackInv(s, scope[x].got, Ids) /\ Len(s) \in Nat \ {0}
      /\ f = s[Len(s)] /\ f = Last(s) /\ f \in FrameType(Ids) /\ f.path \in Paths
  BY TopTyped
<1>4. \A m \in 1..(Len(s) - 1) : s[m].path # f.path /\ s[m] \in FrameType(Ids) /\ s[m].path \in Paths
  <2>1. \A m \in 1..(Len(s) - 1) : s[m].path # f.path
    BY <1>3, TopFrame
  <2>2. \A m \in 1..(Len(s) - 1) : m \in 1..Len(s)
    BY <1>3
  <2>. QED  BY <1>3, <2>1, <2>2 DEF StackInv, FrameInv, FrameType
<1>5. \A m \in 1..(Len(s) - 1) : scope'[x].got[s[m].path] = scope[x].got[s[m].path]
  BY <1>1, <1>4
<1>6. CallTyped(x)'
  <2>1. CASE Len(s) = 1 /\ n = Len(s) /\ e = Ended(f, "close", res)
    <3>1. e.pc = "close" /\ e.res = res
      <4>1. "close" \in Pcs /\ res \in Ids
        BY DEF Pcs
      <4>. QED  BY <1>3, <2>1, <4>1, EndedTyped
    <3>2. FrameInv(e, scope'[x].got, Ids')
      BY <1>1, <3>1 DEF FrameInv
    <3>. QED  BY <1>2, <1>5, <2>1, <3>2, CallCut DEF OneCut
  <2>2. CASE Len(s) > 1 /\ n = Len(s) - 1 /\ ImportedFrom(s[Len(s) - 1], e)
    <3>. DEFINE g == s[Len(s) - 1]
    <3>1. /\ Len(s) - 1 \in 1..(Len(s) - 1) /\ Len(s) - 1 \in 1..Len(s) /\ Len(s) - 1 + 1 = Len(s)
          /\ \A m \in 1..(n - 1) : m \in 1..(Len(s) - 1)
      BY <1>3, <2>2
    <3>2. FrameInv(g, scope[x].got, Ids) /\ g.pc = "check"
      BY <1>3, <3>1 DEF StackInv, Nested
    <3>3. e.path = g.path /\ e.pc = "check" /\ e.kind = g.kind /\ e.todo \subseteq g.todo
      BY <2>2, <3>2 DEF ImportedFrom
    <3>4. FrameInv(e, scope'[x].got, Ids')
      BY <1>1, <1>5, <3>1, <3>2, <3>3 DEF FrameInv
    <3>5. n > 1 => Nested(s[n - 1], e)
      <4>. SUFFICES ASSUME n > 1 PROVE Nested(s[n - 1], e)
        OBVIOUS
      <4>1. n - 1 \in 1..(Len(s) - 1) /\ n - 1 + 1 = n /\ n = Len(s) - 1
        BY <1>3, <2>2
      <4>2. Nested(s[n - 1], g)
        BY <1>3, <4>1 DEF StackInv
      <4>. QED  BY <3>3, <4>2 DEF Nested
    <3>. QED  BY <1>2, <1>5, <3>1, <3>4, <3>5, CallCut DEF OneCut
  <2>. QED  BY <1>1, <2>1, <2>2
<1>7. \A y \in Procs \ {x} : CallTyped(y)'
  BY <1>1, <1>2, CallStays DEF OneCut
<1>8. scope' \in [Procs -> ScopeType(Ids')]
  <2>1. \A q \in ScopeType(Ids) : q \in ScopeType(Ids')
    BY <1>2 DEF ScopeType
  <2>2. \A y \in Procs : scope'[y] \in ScopeType(Ids')
    BY <1>1, <2>1 DEF CallsTyped
  <2>3. scope' = [y \in Procs |-> scope'[y]]
    <3>1. CASE scope' = [scope EXCEPT ![x] = sc]
      BY <3>1 DEF CallsTyped
    <3>2. ASSUME NEW q, scope' = [scope EXCEPT ![x] = q] PROVE scope' = [y \in Procs |-> scope'[y]]
      BY <3>2 DEF CallsTyped
    <3>. QED  BY <3>1, <3>2, Zenon DEF ReturnsFrom
  <2>. QED  BY <2>2, <2>3
<1>. QED  BY <1>6, <1>7, <1>8 DEF CallsTyped, CallTyped, OneCut

-----------------------------------------------------------------------------
(* Flights.                                                                *)

FlightPcs == {Registering, Leading, {"check"}}

\* A flight none of whose callers moves.
LEMMA FlightKept ==
    ASSUME NEW k \in Kinds, NEW p \in Paths, FlightAt(k, p),
           \A pcs \in FlightPcs : \A y \in Procs : <<k, p>> \in In(stack'[y], pcs) <=> <<k, p>> \in In(stack[y], pcs),
           waiters'[k][p] = waiters[k][p], flight'[k][p] = flight[k][p], birth'[k][p] => birth[k][p],
           lru[k].id[p] = None => lru'[k].id[p] = None
    PROVE  FlightAt(k, p)'
<1>1. \A pcs \in FlightPcs : Callers(<<k, p>>, pcs)' = Callers(<<k, p>>, pcs)
  BY DEF Callers
<1>2. Callers(<<k, p>>, Registering)' = Callers(<<k, p>>, Registering)
      /\ Callers(<<k, p>>, Leading)' = Callers(<<k, p>>, Leading)
      /\ Callers(<<k, p>>, {"check"})' = Callers(<<k, p>>, {"check"})
  BY <1>1 DEF FlightPcs
<1>. QED  BY <1>2, Zenon DEF FlightAt

\* A call that returns leaves its flight.
LEMMA ReturnIn ==
    ASSUME CallsTyped, StateTyped, NEW x \in Procs, Running(x), NEW res \in Ids \ {None}, NEW sc \in ScopeType(Ids),
           NEW n, NEW e, ReturnsFrom(x, res, sc, n, e), OneCut(x, n, e), NEW pcs, "close" \notin pcs, NEW z
    PROVE  /\ z \in In(stack'[x], pcs) <=> (z # Pair(Top(x)) /\ z \in In(stack[x], pcs))
           /\ Pair(Top(x)) \in In(stack[x], pcs) <=> Top(x).pc \in pcs
<1>. DEFINE s == stack[x]
            f == Top(x)
<1>1. /\ stack[x] # <<>> /\ StackInv(s, scope[x].got, Ids) /\ Len(s) \in Nat \ {0}
      /\ f = Last(s) /\ f \in FrameType(Ids)
  BY TopTyped
<1>2. \/ Len(stack[x]) = 1 /\ n = Len(stack[x]) /\ e = Ended(Top(x), "close", res)
      \/ Len(stack[x]) > 1 /\ n = Len(stack[x]) - 1 /\ ImportedFrom(stack[x][Len(stack[x]) - 1], e)
  BY ReturnedFrame
<1>3. CASE Len(stack[x]) = 1 /\ n = Len(stack[x]) /\ e = Ended(Top(x), "close", res)
  <2>1. e.pc = "close" /\ Pair(e) = Pair(Last(s))
    <3>1. "close" \in Pcs /\ res \in Ids
      BY DEF Pcs
    <3>. QED  BY <1>1, <1>3, <3>1, EndedTyped
  <2>2. Cut(s, stack'[x], Len(s), e)
    BY <1>3 DEF OneCut
  <2>3. /\ z \in In(stack'[x], pcs) <=> IF z = Pair(Last(s)) THEN e.pc \in pcs ELSE z \in In(s, pcs)
        /\ Pair(Last(s)) \in In(s, pcs) <=> Last(s).pc \in pcs
    BY <1>1, <2>1, <2>2, InReplaced
  <2>. QED  BY <1>1, <2>1, <2>3
<1>4. CASE Len(stack[x]) > 1 /\ n = Len(stack[x]) - 1 /\ ImportedFrom(stack[x][Len(stack[x]) - 1], e)
  <2>1. Pair(e) = Pair(s[Len(s) - 1]) /\ e.pc = s[Len(s) - 1].pc
    BY <1>4 DEF ImportedFrom, Pair
  <2>2. Cut(s, stack'[x], Len(s) - 1, e)
    BY <1>4 DEF OneCut
  <2>3. /\ z \in In(stack'[x], pcs) <=> (z # Pair(Last(s)) /\ z \in In(s, pcs))
        /\ Pair(Last(s)) \in In(s, pcs) <=> Last(s).pc \in pcs
    BY <1>1, <1>4, <2>1, <2>2, InReturned
  <2>. QED  BY <1>1, <2>3
<1>. QED  BY <1>2, <1>3, <1>4

-----------------------------------------------------------------------------
(* The caches.                                                             *)

\* A cache of the state is in order.
LEMMA LruHere ==
    ASSUME StateTyped, NEW k \in Kinds
    PROVE  /\ LruOK(lru[k]) /\ lru[k] \in LruType
           /\ \A p \in Paths : /\ lru[k].id[p] \in Nat /\ lru[k].id[p] <= Len(inst) /\ lru[k].id[p] \in Ids
                               /\ lru[k].id[p] # None => lru[k].id[p] \in DOMAIN inst
                               /\ lru[k].pins[p] \in Nat
<1>1. LruOK(lru[k]) /\ lru[k] \in LruType /\ \A p \in Paths : lru[k].id[p] <= Len(inst)
  BY DEF StateTyped, LruTyped, LruOK
<1>2. \A p \in Paths : lru[k].id[p] \in Nat /\ lru[k].pins[p] \in Nat
  BY <1>1 DEF LruType
<1>3. /\ Len(inst) \in Nat /\ DOMAIN inst = 1..Len(inst)
      /\ \A i \in 0..Len(inst) : i \in Ids
  BY IdsHere DEF StateTyped
<1>. QED  BY <1>1, <1>2, <1>3 DEF None

\* One cache changes.
LEMMA LruStep ==
    ASSUME StateTyped, InstGrows, NEW k \in Kinds, NEW m, lru' = [lru EXCEPT ![k] = m], LruOK(m),
           \A p \in Paths : m.id[p] <= Len(inst')
    PROVE  LruTyped' /\ lru'[k] = m /\ \A j \in Kinds : j # k => lru'[j] = lru[j]
<1>1. lru \in [Kinds -> LruType] /\ m \in LruType
  BY DEF StateTyped, LruTyped, LruOK
<1>2. \A j \in Kinds : lru'[j] = IF j = k THEN m ELSE lru[j]
  BY <1>1
<1>3. \A j \in Kinds : LruOK(lru[j]) /\ \A p \in Paths : lru[j].id[p] <= Len(inst) /\ lru[j].id[p] \in Nat
  BY LruHere
<1>4. Len(inst) \in Nat /\ Len(inst') \in Nat /\ Len(inst') >= Len(inst)
  BY DEF InstGrows
<1>5. \A j \in Kinds : \A p \in Paths : lru[j].id[p] <= Len(inst')
  BY <1>3, <1>4
<1>. QED  BY <1>1, <1>2, <1>3, <1>5 DEF LruTyped

\* Caches that stay are typed when packages were added.
LEMMA LruStays ==
    ASSUME StateTyped, InstGrows, lru' = lru
    PROVE  LruTyped'
<1>1. Len(inst) \in Nat /\ Len(inst') \in Nat /\ Len(inst') >= Len(inst)
  BY DEF InstGrows
<1>2. \A j \in Kinds : \A p \in Paths : lru[j].id[p] <= Len(inst')
  BY <1>1, LruHere
<1>. QED  BY <1>2 DEF StateTyped, LruTyped

\* Every cache changes, and none gets a new entry.
LEMMA LruShrinks ==
    ASSUME StateTyped, InstGrows, lru' = [k \in Kinds |-> lru'[k]],
           \A k \in Kinds : LruOK(lru'[k]) /\ Shrunk(lru[k], lru'[k])
    PROVE  LruTyped'
<1>1. Len(inst) \in Nat /\ Len(inst') \in Nat /\ Len(inst') >= Len(inst)
  BY DEF InstGrows
<1>2. \A j \in Kinds : \A p \in Paths : lru'[j].id[p] <= Len(inst')
  BY <1>1, LruHere DEF Shrunk, None
<1>3. \A j \in Kinds : lru'[j] \in LruType
  BY DEF LruOK
<1>. QED  BY <1>2, <1>3 DEF LruTyped

\* A path that is not cached stays so.
LEMMA ShrunkEmpty ==
    ASSUME NEW l, NEW m, Shrunk(l, m), NEW p \in Paths, l.id[p] = None
    PROVE  m.id[p] = None
BY DEF Shrunk

-----------------------------------------------------------------------------
(* The steps of a call, by what they do to the state.                      *)

\* A lookup that hits: the entry is pinned, touched and returned.
Hits(x, k, n, e) ==
    LET p == Top(x).path
    IN  /\ lru[k].id[p] # None
        /\ lru' = [lru EXCEPT ![k] = pin(Touch(lru[k], p), p)]
        /\ OneCut(x, n, e) /\ ReturnsFrom(x, lru[k].id[p], ScopePut(x, p, lru[k].id[p], k), n, e)
Advances(x, pc) == stack' = SetTop(x, [Top(x) EXCEPT !.pc = pc]) /\ UNCHANGED <<scope, inst>>
\* ask and tryPin.
Lookup(x) ==
    LET p == Top(x).path
    IN  /\ Running(x) /\ Top(x).pc \in {"ask", "pin"}
        /\ UNCHANGED <<waiters, flight, ret, canceled, birth, slips, load>>
        /\ \/ /\ lru' = lru
              /\ \E n, e : \/ /\ scope[x].got[p] # None
                              /\ OneCut(x, n, e) /\ ReturnsFrom(x, scope[x].got[p], scope[x], n, e)
                           \/ /\ x \in canceled
                              /\ OneCut(x, n, e) /\ ReturnsFrom(x, Err, scope[x], n, e)
                           \/ /\ load.decode
                              /\ OneCut(x, n, e) /\ ReturnsFrom(x, Decoded(p), scope[x], n, e)
           \/ scope[x].got[p] = None /\ \E k \in Kinds : \E n, e : Hits(x, k, n, e)
           \/ lru' = lru /\ scope[x].got[p] = None /\ \E pc \in {"enter", "pin"} : Advances(x, pc)

\* A hit, by its parts.
LEMMA PinHitHits ==
    ASSUME CallsTyped, NEW x \in Procs, Running(x), NEW k \in Kinds, lru[k].id[Top(x).path] # None, PinHit(x, k)
    PROVE  \E n, e : Hits(x, k, n, e)
<1>. DEFINE p == Top(x).path
            i == lru[k].id[p]
            sc == ScopePut(x, p, i, k)
<1>1. lru' = [lru EXCEPT ![k] = pin(Touch(@, p), p)] /\ Return(x, i, sc)
  BY Zenon DEF PinHit
<1>. HIDE DEF sc, i
<1>2. \E n, e : OneCut(x, n, e) /\ ReturnsFrom(x, i, sc, n, e)
  BY <1>1, ReturnCut
<1>. QED  BY <1>1, <1>2, Zenon DEF Hits, sc, i

\* ask, as a lookup.
LEMMA askLooks ==
    ASSUME CallsTyped, NEW x \in Procs, ask(x)
    PROVE  Lookup(x)
<1>. DEFINE p == Top(x).path
            c == IF Top(x).kind = "full" THEN "enter" ELSE "pin"
<1>1. /\ Running(x) /\ Top(x).pc = "ask"
      /\ UNCHANGED <<waiters, flight, ret, canceled, birth, slips, load>>
  BY DEF ask, At
<1>2. \/ scope[x].got[p] # None /\ Return(x, scope[x].got[p], scope[x]) /\ UNCHANGED lru
      \/ scope[x].got[p] = None /\ x \in canceled /\ Return(x, Err, scope[x]) /\ UNCHANGED lru
      \/ scope[x].got[p] = None /\ x \notin canceled /\ lru.full.id[p] # None /\ PinHit(x, "full")
      \/ scope[x].got[p] = None /\ stack' = SetTop(x, [Top(x) EXCEPT !.pc = c]) /\ UNCHANGED <<lru, scope, inst>>
  BY Zenon DEF ask
<1>3. c \in {"enter", "pin"} /\ "full" \in Kinds
  BY DEF Kinds
<1>. HIDE DEF c
<1>4. CASE scope[x].got[p] # None /\ Return(x, scope[x].got[p], scope[x]) /\ UNCHANGED lru
  <2>1. \E n, e : OneCut(x, n, e) /\ ReturnsFrom(x, scope[x].got[p], scope[x], n, e)
    BY <1>1, <1>4, ReturnCut
  <2>. QED  BY <1>1, <1>4, <2>1, Zenon DEF Lookup
<1>5. CASE scope[x].got[p] = None /\ x \in canceled /\ Return(x, Err, scope[x]) /\ UNCHANGED lru
  <2>1. \E n, e : OneCut(x, n, e) /\ ReturnsFrom(x, Err, scope[x], n, e)
    BY <1>1, <1>5, ReturnCut
  <2>. QED  BY <1>1, <1>5, <2>1, Zenon DEF Lookup
<1>6. CASE scope[x].got[p] = None /\ x \notin canceled /\ lru.full.id[p] # None /\ PinHit(x, "full")
  <2>1. \E n, e : Hits(x, "full", n, e)
    BY <1>1, <1>3, <1>6, PinHitHits
  <2>. QED  BY <1>1, <1>3, <1>6, <2>1, Zenon DEF Lookup
<1>7. CASE scope[x].got[p] = None /\ stack' = SetTop(x, [Top(x) EXCEPT !.pc = c]) /\ UNCHANGED <<lru, scope, inst>>
  <2>1. Advances(x, c)
    BY <1>7 DEF Advances
  <2>. QED  BY <1>1, <1>3, <1>7, <2>1, Zenon DEF Lookup
<1>. QED  BY <1>2, <1>4, <1>5, <1>6, <1>7

\* tryPin, as a lookup.
LEMMA tryPinLooks ==
    ASSUME CallsTyped, NEW x \in Procs, tryPin(x)
    PROVE  Lookup(x)
<1>. DEFINE p == Top(x).path
<1>1. /\ Running(x) /\ Top(x).pc = "pin"
      /\ UNCHANGED <<waiters, flight, ret, canceled, birth, slips, load>>
  BY DEF tryPin, At
<1>2. \/ lru.decl.id[p] # None /\ PinHit(x, "decl")
      \/ load.decode /\ Return(x, Decoded(p), scope[x]) /\ UNCHANGED lru
      \/ stack' = SetTop(x, [Top(x) EXCEPT !.pc = "enter"]) /\ UNCHANGED <<lru, scope, inst>>
  BY Zenon DEF tryPin
<1>3. scope[x].got[p] = None /\ "decl" \in Kinds
  BY <1>1, TopTyped DEF FrameInv, Kinds
<1>4. CASE lru.decl.id[p] # None /\ PinHit(x, "decl")
  <2>1. \E n, e : Hits(x, "decl", n, e)
    BY <1>1, <1>3, <1>4, PinHitHits
  <2>. QED  BY <1>1, <1>3, <1>4, <2>1, Zenon DEF Lookup
<1>5. CASE load.decode /\ Return(x, Decoded(p), scope[x]) /\ UNCHANGED lru
  <2>1. \E n, e : OneCut(x, n, e) /\ ReturnsFrom(x, Decoded(p), scope[x], n, e)
    BY <1>1, <1>5, ReturnCut
  <2>. QED  BY <1>1, <1>5, <2>1, Zenon DEF Lookup
<1>6. CASE stack' = SetTop(x, [Top(x) EXCEPT !.pc = "enter"]) /\ UNCHANGED <<lru, scope, inst>>
  <2>1. Advances(x, "enter")
    BY <1>6 DEF Advances
  <2>2. "enter" \in {"enter", "pin"}
    OBVIOUS
  <2>. QED  BY <1>1, <1>3, <1>6, <2>1, <2>2, Zenon DEF Lookup
<1>. QED  BY <1>2, <1>4, <1>5, <1>6

\* A frame that moves on within its call.
LEMMA AdvanceTyped ==
    ASSUME CallsTyped, NEW x \in Procs, Running(x), NEW pc \in Pcs \ {"ask", "close", "exit", "check"},
           scope[x].got[Top(x).path] = None, Advances(x, pc), canceled' \in SUBSET Procs
    PROVE  /\ CallsTyped' /\ DOMAIN stack' = Procs
           /\ \A y \in Procs \ {x} : stack'[y] = stack[y]
           /\ \E e : OneCut(x, Len(stack[x]), e) /\ e = [Top(x) EXCEPT !.pc = pc] /\ e \in FrameType(Ids)
           /\ \A z, pcs : /\ z \in In(stack'[x], pcs) <=> IF z = Pair(Top(x)) THEN pc \in pcs ELSE z \in In(stack[x], pcs)
                          /\ Pair(Top(x)) \in In(stack[x], pcs) <=> Top(x).pc \in pcs
<1>. DEFINE f == Top(x)
            e == [f EXCEPT !.pc = pc]
            s == stack[x]
<1>1. /\ stack[x] # <<>> /\ StackInv(s, scope[x].got, Ids) /\ f = Last(s) /\ f \in FrameType(Ids)
  BY TopTyped
<1>2. /\ e \in FrameType(Ids) /\ e.pc = pc /\ Pair(e) = Pair(f) /\ e.path = f.path
  BY <1>1, AdvancedTyped
<1>3. stack' = SetTop(x, e) /\ UNCHANGED <<scope, inst>>
  BY DEF Advances
<1>. HIDE DEF e
<1>4. FrameInv(e, scope[x].got, Ids)
  BY <1>2 DEF FrameInv
<1>5. CallsTyped' /\ OneCut(x, Len(stack[x]), e)
  BY <1>2, <1>3, <1>4, MoveTyped
<1>6. ASSUME NEW z, NEW pcs
      PROVE  /\ z \in In(stack'[x], pcs) <=> IF z = Pair(f) THEN pc \in pcs ELSE z \in In(s, pcs)
             /\ Pair(f) \in In(s, pcs) <=> f.pc \in pcs
  BY <1>1, <1>2, <1>5, InReplaced DEF OneCut
<1>. QED  BY <1>2, <1>5, <1>6 DEF OneCut, e

-----------------------------------------------------------------------------
(* The steps of a call keep the types, shapes and flights.                 *)

\* Where a goroutine is in no flight.
LEMMA ThreePcs ==
    ASSUME NEW pcs \in FlightPcs
    PROVE  "close" \notin pcs /\ "ask" \notin pcs /\ "pin" \notin pcs /\ "enter" \notin pcs
BY DEF FlightPcs, Registering, Leading

\* What a lookup that hits leaves of the cache.
LEMMA HitLru ==
    ASSUME StateTyped, InstGrows, NEW k \in Kinds, NEW p \in Paths, lru[k].id[p] # None,
           lru' = [lru EXCEPT ![k] = pin(Touch(lru[k], p), p)]
    PROVE  /\ LruTyped' /\ LruOK(lru'[k]) /\ \A j \in Kinds : j # k => lru'[j] = lru[j]
           /\ lru'[k].id = lru[k].id /\ lru'[k].pending = lru[k].pending
           /\ \A q \in Paths : lru'[k].pins[q] = lru[k].pins[q] + (IF q = p THEN 1 ELSE 0)
<1>. DEFINE t == Touch(lru[k], p)
            m == pin(t, p)
<1>1. LruOK(lru[k]) /\ \A q \in Paths : lru[k].id[q] <= Len(inst) /\ lru[k].id[q] \in Nat
  BY LruHere
<1>2. LruOK(t) /\ t.id = lru[k].id /\ t.pins = lru[k].pins /\ t.pending = lru[k].pending
  BY <1>1, TouchOK
<1>. HIDE DEF t
<1>3. /\ LruOK(m) /\ m.id = t.id /\ m.pending = t.pending
      /\ \A q \in Paths : m.pins[q] = t.pins[q] + (IF q = p THEN 1 ELSE 0)
  BY <1>2, PinOK
<1>. HIDE DEF m
<1>4. \A q \in Paths : m.id[q] <= Len(inst')
  BY <1>1, <1>2, <1>3 DEF InstGrows
<1>5. LruTyped' /\ lru'[k] = m /\ \A j \in Kinds : j # k => lru'[j] = lru[j]
  BY <1>3, <1>4, LruStep DEF m, t
<1>. QED  BY <1>2, <1>3, <1>5

\* A step that leaves who calls which flight alone, and adds no entry.
LEMMA FlightsStay ==
    ASSUME FlightInv, UNCHANGED <<waiters, flight, birth>>,
           \A pcs \in FlightPcs : \A y \in Procs : \A z \in Kinds \X Paths : z \in In(stack'[y], pcs) <=> z \in In(stack[y], pcs),
           \A k \in Kinds : \A p \in Paths : lru[k].id[p] = None => lru'[k].id[p] = None
    PROVE  FlightInv'
<1>1. ASSUME NEW k \in Kinds, NEW p \in Paths PROVE FlightAt(k, p)'
  <2>1. <<k, p>> \in Kinds \X Paths
    OBVIOUS
  <2>2. FlightAt(k, p)
    BY DEF FlightInv
  <2>. QED  BY <2>1, <2>2, FlightKept
<1>. QED  BY <1>1 DEF FlightInv

\* A call that returns without having been registered for a flight.
LEMMA ReturnFlights ==
    ASSUME TypeInv, NEW x \in Procs, Running(x), NEW res \in Ids \ {None}, NEW sc \in ScopeType(Ids),
           NEW n, NEW e, ReturnsFrom(x, res, sc, n, e), OneCut(x, n, e), Top(x).pc \in {"ask", "pin"},
           UNCHANGED <<waiters, flight, birth>>,
           \A k \in Kinds : \A p \in Paths : lru[k].id[p] = None => lru'[k].id[p] = None
    PROVE  FlightInv'
<1>1. ASSUME NEW pcs \in FlightPcs, NEW y \in Procs, NEW z \in Kinds \X Paths
      PROVE  z \in In(stack'[y], pcs) <=> z \in In(stack[y], pcs)
  <2>1. CASE y = x
    <3>1. /\ z \in In(stack'[x], pcs) <=> (z # Pair(Top(x)) /\ z \in In(stack[x], pcs))
          /\ Pair(Top(x)) \in In(stack[x], pcs) <=> Top(x).pc \in pcs
      BY ReturnIn, ThreePcs DEF TypeInv
    <3>2. Top(x).pc \notin pcs
      BY ThreePcs
    <3>. QED  BY <2>1, <3>1, <3>2
  <2>2. CASE y # x
    BY <2>2 DEF OneCut
  <2>. QED  BY <2>1, <2>2
<1>. QED  BY <1>1, FlightsStay DEF TypeInv

\* A step that leaves flights and load alone.
LEMMA RestTyped ==
    ASSUME StateTyped, InstGrows, LruTyped', UNCHANGED <<waiters, flight, birth, load, ret>>
    PROVE  StateTyped'
<1>1. ret' \in [Procs -> Ids']
  BY DEF StateTyped, InstGrows
<1>. QED  BY <1>1 DEF StateTyped, InstGrows

\* ask and tryPin.
LEMMA LookupTyped ==
    ASSUME TypeInv, NEW x \in Procs, Lookup(x)
    PROVE  TypeInv'
<1>. DEFINE p == Top(x).path
<1>1. /\ Running(x) /\ Top(x).pc \in {"ask", "pin"}
      /\ UNCHANGED <<waiters, flight, ret, canceled, birth, slips, load>>
  BY DEF Lookup
<1>2. CallsTyped /\ StateTyped /\ FlightInv /\ canceled' \in SUBSET Procs
  BY <1>1 DEF TypeInv, CallsTyped
<1>3. p \in Paths /\ scope[x] \in ScopeType(Ids) /\ scope[x].got[p] \in Ids /\ Err \in Ids \ {None} /\ Decoded(p) \in Ids \ {None}
  <2>1. p \in Paths /\ scope[x] \in ScopeType(Ids)
    BY <1>1, <1>2, TopTyped
  <2>. QED  BY <1>2, <2>1, IdsHere, PosIsPlace DEF StateTyped, ScopeType
<1>4. ASSUME NEW res \in Ids \ {None}, NEW n, NEW e, lru' = lru, OneCut(x, n, e), ReturnsFrom(x, res, scope[x], n, e)
      PROVE  TypeInv'
  <2>1. CallsTyped'
    BY <1>1, <1>2, <1>3, <1>4, ReturnTyped
  <2>2. InstGrows
    BY <1>1, <1>2, <1>3, <1>4, ReturnedFrame
  <2>3. FlightInv'
    BY <1>1, <1>3, <1>4, ReturnFlights
  <2>4. StateTyped'
    BY <1>1, <1>2, <1>4, <2>2, LruStays, RestTyped
  <2>. QED  BY <2>1, <2>3, <2>4 DEF TypeInv
<1>5. ASSUME NEW k \in Kinds, NEW n, NEW e, Hits(x, k, n, e), scope[x].got[p] = None
      PROVE  TypeInv'
  <2>. DEFINE i == lru[k].id[p]
              sc == ScopePut(x, p, i, k)
  <2>1. /\ i # None /\ lru' = [lru EXCEPT ![k] = pin(Touch(lru[k], p), p)]
        /\ OneCut(x, n, e) /\ ReturnsFrom(x, i, sc, n, e)
    BY <1>5, Zenon DEF Hits
  <2>2. i \in Ids \ {None}
    BY <1>2, <1>3, <2>1, LruHere
  <2>3. sc \in ScopeType(Ids) /\ \A q \in Paths : q # p => sc.got[q] = scope[x].got[q]
    BY <1>2, <1>3, <2>2, ScopePutTyped
  <2>. HIDE DEF sc
  <2>4. CallsTyped'
    BY <1>1, <1>2, <2>1, <2>2, <2>3, ReturnTyped
  <2>5. InstGrows
    BY <1>1, <1>2, <2>1, <2>2, <2>3, ReturnedFrame
  <2>6. /\ LruTyped' /\ \A j \in Kinds : j # k => lru'[j] = lru[j]
        /\ lru'[k].id = lru[k].id
    BY <1>2, <1>3, <2>1, <2>5, HitLru
  <2>7. \A kk \in Kinds : \A q \in Paths : lru[kk].id[q] = None => lru'[kk].id[q] = None
    BY <2>6
  <2>. HIDE DEF i
  <2>8. FlightInv'
    BY <1>1, <2>1, <2>2, <2>3, <2>7, ReturnFlights
  <2>9. StateTyped'
    BY <1>1, <1>2, <2>5, <2>6, RestTyped
  <2>. QED  BY <2>4, <2>8, <2>9 DEF TypeInv
<1>6. ASSUME NEW pc \in {"enter", "pin"}, lru' = lru, scope[x].got[p] = None, Advances(x, pc)
      PROVE  TypeInv'
  <2>1. pc \in Pcs \ {"ask", "close", "exit", "check"}
    BY DEF Pcs
  <2>2. /\ CallsTyped' /\ \A y \in Procs \ {x} : stack'[y] = stack[y]
        /\ \A z, pcs : /\ z \in In(stack'[x], pcs) <=> IF z = Pair(Top(x)) THEN pc \in pcs ELSE z \in In(stack[x], pcs)
                       /\ Pair(Top(x)) \in In(stack[x], pcs) <=> Top(x).pc \in pcs
    BY <1>1, <1>2, <1>6, <2>1, AdvanceTyped
  <2>3. InstGrows
    BY <1>2, <1>6, InstStays DEF Advances
  <2>4. ASSUME NEW pcs \in FlightPcs, NEW y \in Procs, NEW z \in Kinds \X Paths
        PROVE  z \in In(stack'[y], pcs) <=> z \in In(stack[y], pcs)
    <3>1. pc \notin pcs /\ Top(x).pc \notin pcs
      BY <1>1, ThreePcs
    <3>. QED  BY <2>2, <3>1
  <2>5. FlightInv'
    BY <1>1, <1>2, <1>6, <2>4, FlightsStay
  <2>6. StateTyped'
    BY <1>1, <1>2, <1>6, <2>3, LruStays, RestTyped
  <2>. QED  BY <2>2, <2>5, <2>6 DEF TypeInv
<1>. QED
  <2>1. CASE lru' = lru /\ \E n, e : \/ scope[x].got[p] # None /\ OneCut(x, n, e) /\ ReturnsFrom(x, scope[x].got[p], scope[x], n, e)
                                     \/ OneCut(x, n, e) /\ ReturnsFrom(x, Err, scope[x], n, e)
                                     \/ OneCut(x, n, e) /\ ReturnsFrom(x, Decoded(p), scope[x], n, e)
    BY <1>3, <1>4, <2>1
  <2>2. CASE scope[x].got[p] = None /\ \E k \in Kinds : \E n, e : Hits(x, k, n, e)
    BY <1>5, <2>2
  <2>3. CASE lru' = lru /\ scope[x].got[p] = None /\ \E pc \in {"enter", "pin"} : Advances(x, pc)
    BY <1>6, <2>3
  <2>. QED  BY <2>1, <2>2, <2>3, Zenon DEF Lookup

\* A function of two arguments, changed at one place.
LEMMA PlaceChanged ==
    ASSUME NEW V, NEW F, F \in [Kinds -> [Paths -> V]], NEW k0 \in Kinds, NEW p0 \in Paths, NEW v \in V,
           NEW G, G = [F EXCEPT ![k0][p0] = v]
    PROVE  /\ G \in [Kinds -> [Paths -> V]] /\ G[k0][p0] = v
           /\ \A k \in Kinds : \A p \in Paths : <<k, p>> # <<k0, p0>> => G[k][p] = F[k][p]
<1>. DEFINE row == [F[k0] EXCEPT ![p0] = v]
<1>1. G = [F EXCEPT ![k0] = row]
  OBVIOUS
<1>2. row \in [Paths -> V] /\ row[p0] = v /\ \A p \in Paths : p # p0 => row[p] = F[k0][p]
  OBVIOUS
<1>. HIDE DEF row
<1>3. G \in [Kinds -> [Paths -> V]] /\ \A k \in Kinds : G[k] = IF k = k0 THEN row ELSE F[k]
  BY <1>1, <1>2
<1>. QED  BY <1>2, <1>3

\* One flag of one cache changes.
LEMMA FlagChanged ==
    ASSUME NEW F, F \in [Kinds -> [Paths -> BOOLEAN]], NEW k0 \in Kinds, NEW p0 \in Paths, NEW v \in BOOLEAN,
           NEW G, G = [F EXCEPT ![k0][p0] = v]
    PROVE  /\ G \in [Kinds -> [Paths -> BOOLEAN]] /\ G[k0][p0] = v
           /\ \A k \in Kinds : \A p \in Paths : <<k, p>> # <<k0, p0>> => G[k][p] = F[k][p]
BY PlaceChanged

\* Sets of goroutines are counted.
LEMMA ProcsCounted ==
    ASSUME NEW S \in SUBSET Procs
    PROVE  IsFiniteSet(S) /\ Cardinality(S) \in Nat /\ (Cardinality(S) = 0 <=> S = {})
BY ProcsAssumption, FS_Subset, FS_CardinalityType, FS_EmptySet

\* Callers are counted.
LEMMA CallersCounted ==
    ASSUME NEW z, NEW pcs
    PROVE  Callers(z, pcs) \in SUBSET Procs /\ IsFiniteSet(Callers(z, pcs)) /\ Cardinality(Callers(z, pcs)) \in Nat
BY ProcsCounted DEF Callers

\* Who calls a flight, when one goroutine moves.
LEMMA CallersSame ==
    ASSUME NEW z, NEW pcs, \A y \in Procs : z \in In(stack'[y], pcs) <=> z \in In(stack[y], pcs)
    PROVE  Callers(z, pcs)' = Callers(z, pcs)
BY DEF Callers

\* One more caller.
LEMMA CallersJoined ==
    ASSUME NEW z, NEW pcs, NEW x \in Procs, z \in In(stack'[x], pcs),
           \A y \in Procs \ {x} : z \in In(stack'[y], pcs) <=> z \in In(stack[y], pcs)
    PROVE  Callers(z, pcs)' = Callers(z, pcs) \cup {x}
BY DEF Callers

\* One caller less.
LEMMA CallersLeft ==
    ASSUME NEW z, NEW pcs, NEW x \in Procs, z \notin In(stack'[x], pcs),
           \A y \in Procs \ {x} : z \in In(stack'[y], pcs) <=> z \in In(stack[y], pcs)
    PROVE  Callers(z, pcs)' = Callers(z, pcs) \ {x}
BY DEF Callers

\* One flight changes, and its path and kind are those of the top call of x.
LEMMA OtherFlights ==
    ASSUME FlightInv, NEW k0 \in Kinds, NEW p0 \in Paths, FlightAt(k0, p0)',
           \A k \in Kinds : \A p \in Paths : <<k, p>> # <<k0, p0>> =>
               /\ \A pcs \in FlightPcs : \A y \in Procs : <<k, p>> \in In(stack'[y], pcs) <=> <<k, p>> \in In(stack[y], pcs)
               /\ waiters'[k][p] = waiters[k][p] /\ flight'[k][p] = flight[k][p] /\ (birth'[k][p] => birth[k][p])
               /\ lru[k].id[p] = None => lru'[k].id[p] = None
    PROVE  FlightInv'
<1>1. ASSUME NEW k \in Kinds, NEW p \in Paths PROVE FlightAt(k, p)'
  <2>1. CASE <<k, p>> = <<k0, p0>>
    <3>1. k = k0 /\ p = p0
      BY <2>1
    <3>. QED  BY <3>1
  <2>2. CASE <<k, p>> # <<k0, p0>>
    <3>1. FlightAt(k, p)
      BY DEF FlightInv
    <3>2. /\ \A pcs \in FlightPcs : \A y \in Procs : <<k, p>> \in In(stack'[y], pcs) <=> <<k, p>> \in In(stack[y], pcs)
          /\ waiters'[k][p] = waiters[k][p] /\ flight'[k][p] = flight[k][p] /\ (birth'[k][p] => birth[k][p])
          /\ lru[k].id[p] = None => lru'[k].id[p] = None
      BY <2>2
    <3>. QED  BY <3>1, <3>2, FlightKept
  <2>. QED  BY <2>1, <2>2
<1>. QED  BY <1>1 DEF FlightInv

\* One more caller is registered.
LEMMA enterWaitTyped ==
    ASSUME TypeInv, NEW x \in Procs, enterWait(x)
    PROVE  TypeInv'
<1>0. PICK k0, p0 : k0 = Top(x).kind /\ p0 = Top(x).path
  OBVIOUS
<1>1. /\ Running(x) /\ Top(x).pc = "enter" /\ UNCHANGED <<lru, flight, ret, canceled, birth, slips, load>>
      /\ Advances(x, "do") /\ waiters' = [waiters EXCEPT ![k0][p0] = @ + 1]
  BY <1>0 DEF enterWait, At, Advances
<1>2. CallsTyped /\ StateTyped /\ FlightInv /\ canceled' \in SUBSET Procs
  BY <1>1 DEF TypeInv, CallsTyped
<1>3. /\ k0 \in Kinds /\ p0 \in Paths /\ Pair(Top(x)) = <<k0, p0>> /\ scope[x].got[p0] = None
  BY <1>0, <1>1, <1>2, TopTyped DEF Pair, FrameInv
<1>4. /\ CallsTyped' /\ \A y \in Procs \ {x} : stack'[y] = stack[y]
      /\ \A z, pcs : /\ z \in In(stack'[x], pcs) <=> IF z = Pair(Top(x)) THEN "do" \in pcs ELSE z \in In(stack[x], pcs)
                     /\ Pair(Top(x)) \in In(stack[x], pcs) <=> Top(x).pc \in pcs
  BY <1>0, <1>1, <1>2, <1>3, AdvanceTyped DEF Pcs
<1>5. InstGrows
  BY <1>1, <1>2, InstStays DEF Advances
<1>. DEFINE w == waiters[k0][p0]
<1>6. waiters \in [Kinds -> [Paths -> Nat]] /\ w \in Nat
  BY <1>2, <1>3 DEF StateTyped
<1>7. /\ waiters' \in [Kinds -> [Paths -> Nat]] /\ waiters'[k0][p0] = w + 1
      /\ \A k \in Kinds : \A p \in Paths : <<k, p>> # <<k0, p0>> => waiters'[k][p] = waiters[k][p]
  <2>1. w + 1 \in Nat /\ waiters' = [waiters EXCEPT ![k0][p0] = w + 1]
    BY <1>1, <1>6
  <2>. QED  BY <1>3, <1>6, <2>1, PlaceChanged
<1>8. StateTyped'
  <2>1. LruTyped' /\ ret' \in [Procs -> Ids']
    BY <1>1, <1>2, <1>5, LruStays DEF StateTyped, InstGrows
  <2>. QED  BY <1>1, <1>2, <1>5, <1>7, <2>1 DEF StateTyped, InstGrows
<1>9. FlightAt(k0, p0)'
  <2>z. PICK z : z = <<k0, p0>>
    OBVIOUS
  <2>1. FlightAt(k0, p0)
    BY <1>2, <1>3 DEF FlightInv
  <2>2. /\ "do" \in Registering /\ "do" \notin Leading /\ "do" \notin {"check"}
        /\ "enter" \notin Registering /\ "enter" \notin Leading /\ "enter" \notin {"check"}
    BY DEF Registering, Leading
  <2>0. /\ \A pcs : (z \in In(stack'[x], pcs) <=> "do" \in pcs) /\ (z \in In(stack[x], pcs) <=> "enter" \in pcs)
        /\ \A pcs : \A y \in Procs \ {x} : z \in In(stack'[y], pcs) <=> z \in In(stack[y], pcs)
    BY <1>1, <1>3, <1>4, <2>z
  <2>3. Callers(z, Registering)' = Callers(z, Registering) \cup {x} /\ x \notin Callers(z, Registering)
    <3>1. x \notin Callers(z, Registering)
      BY <2>0, <2>2 DEF Callers
    <3>. QED  BY <2>0, <2>2, <3>1, CallersJoined
  <2>4. Callers(z, Leading)' = Callers(z, Leading) /\ Callers(z, {"check"})' = Callers(z, {"check"})
    <3>1. Callers(z, Leading)' = Callers(z, Leading)
      BY <2>0, <2>2, CallersSame
    <3>2. Callers(z, {"check"})' = Callers(z, {"check"})
      BY <2>0, <2>2, CallersSame
    <3>. QED  BY <3>1, <3>2
  <2>5. Cardinality(Callers(z, Registering) \cup {x}) = Cardinality(Callers(z, Registering)) + 1
    BY <2>3, CallersCounted, FS_AddElement
  <2>6. flight'[k0][p0] = flight[k0][p0] /\ birth'[k0][p0] = birth[k0][p0] /\ lru'[k0].id[p0] = lru[k0].id[p0]
    BY <1>1
  <2>7. waiters'[k0][p0] > 0
    BY <1>6, <1>7
  <2>. QED  BY <2>z, <1>7, <2>1, <2>3, <2>4, <2>5, <2>6, <2>7 DEF FlightAt
<1>10. FlightInv'
  <2>1. ASSUME NEW k \in Kinds, NEW p \in Paths, <<k, p>> # <<k0, p0>>, NEW pcs \in FlightPcs, NEW y \in Procs
        PROVE  <<k, p>> \in In(stack'[y], pcs) <=> <<k, p>> \in In(stack[y], pcs)
    BY <1>3, <1>4, <2>1
  <2>2. ASSUME NEW k \in Kinds, NEW p \in Paths, <<k, p>> # <<k0, p0>>
        PROVE  /\ \A pcs \in FlightPcs : \A y \in Procs : <<k, p>> \in In(stack'[y], pcs) <=> <<k, p>> \in In(stack[y], pcs)
               /\ waiters'[k][p] = waiters[k][p] /\ flight'[k][p] = flight[k][p] /\ (birth'[k][p] => birth[k][p])
               /\ lru[k].id[p] = None => lru'[k].id[p] = None
    BY <1>1, <1>7, <2>1, <2>2
  <2>. QED  BY <1>2, <1>3, <1>9, <2>2, OtherFlights
<1>. QED  BY <1>4, <1>8, <1>10 DEF TypeInv

\* A caller joins the flight, or starts it.
LEMMA joinTyped ==
    ASSUME TypeInv, NEW x \in Procs, join(x)
    PROVE  TypeInv'
<1>0. PICK k0, p0, c : k0 = Top(x).kind /\ p0 = Top(x).path /\ c = IF flight[k0][p0] THEN "wait" ELSE "lead"
  OBVIOUS
<1>1. /\ Running(x) /\ Top(x).pc = "do" /\ UNCHANGED <<lru, waiters, ret, canceled, birth, slips, load>>
      /\ Advances(x, c) /\ flight' = [flight EXCEPT ![k0][p0] = TRUE]
  BY <1>0 DEF join, At, Advances
<1>2. CallsTyped /\ StateTyped /\ FlightInv /\ canceled' \in SUBSET Procs
  BY <1>1 DEF TypeInv, CallsTyped
<1>3. /\ k0 \in Kinds /\ p0 \in Paths /\ Pair(Top(x)) = <<k0, p0>> /\ scope[x].got[p0] = None
  BY <1>0, <1>1, <1>2, TopTyped DEF Pair, FrameInv
<1>4. c \in Pcs \ {"ask", "close", "exit", "check"}
  BY <1>0 DEF Pcs
<1>5. (flight[k0][p0] /\ c = "wait") \/ (~flight[k0][p0] /\ c = "lead")
  BY <1>0
<1>6. /\ CallsTyped' /\ \A y \in Procs \ {x} : stack'[y] = stack[y]
      /\ \A z, pcs : /\ z \in In(stack'[x], pcs) <=> IF z = Pair(Top(x)) THEN c \in pcs ELSE z \in In(stack[x], pcs)
                     /\ Pair(Top(x)) \in In(stack[x], pcs) <=> Top(x).pc \in pcs
  BY <1>1, <1>2, <1>3, <1>4, <1>0, AdvanceTyped
<1>7. InstGrows
  BY <1>1, <1>2, InstStays DEF Advances
<1>8. /\ flight' \in [Kinds -> [Paths -> BOOLEAN]] /\ flight'[k0][p0] = TRUE
      /\ \A k \in Kinds : \A p \in Paths : <<k, p>> # <<k0, p0>> => flight'[k][p] = flight[k][p]
  <2>1. flight \in [Kinds -> [Paths -> BOOLEAN]] /\ TRUE \in BOOLEAN
    BY <1>2 DEF StateTyped
  <2>0. PICK v \in BOOLEAN : v = TRUE
    OBVIOUS
  <2>2. flight' = [flight EXCEPT ![k0][p0] = v]
    BY <1>1, <2>0
  <2>3. /\ flight' \in [Kinds -> [Paths -> BOOLEAN]] /\ flight'[k0][p0] = v
        /\ \A k \in Kinds : \A p \in Paths : <<k, p>> # <<k0, p0>> => flight'[k][p] = flight[k][p]
    BY <1>3, <2>1, <2>2, FlagChanged
  <2>. QED  BY <2>0, <2>3
<1>9. StateTyped'
  <2>1. LruTyped' /\ ret' \in [Procs -> Ids']
    BY <1>1, <1>2, <1>7, LruStays DEF StateTyped, InstGrows
  <2>. QED  BY <1>1, <1>2, <1>7, <1>8, <2>1 DEF StateTyped, InstGrows
<1>10. FlightAt(k0, p0)'
  <2>z. PICK z : z = <<k0, p0>>
    OBVIOUS
  <2>1. FlightAt(k0, p0)
    BY <1>2, <1>3 DEF FlightInv
  <2>2. /\ "do" \in Registering /\ "do" \notin Leading /\ "do" \notin {"check"}
        /\ c \in Registering /\ c \notin {"check"} /\ (c \in Leading <=> c = "lead")
    BY <1>5 DEF Registering, Leading
  <2>0. /\ \A pcs : (z \in In(stack'[x], pcs) <=> c \in pcs) /\ (z \in In(stack[x], pcs) <=> "do" \in pcs)
        /\ \A pcs : \A y \in Procs \ {x} : z \in In(stack'[y], pcs) <=> z \in In(stack[y], pcs)
    BY <1>1, <1>3, <1>6, <2>z
  <2>3. Callers(z, Registering)' = Callers(z, Registering) /\ Callers(z, {"check"})' = Callers(z, {"check"})
    <3>1. Callers(z, Registering)' = Callers(z, Registering)
      BY <2>0, <2>2, CallersSame
    <3>2. Callers(z, {"check"})' = Callers(z, {"check"})
      BY <2>0, <2>2, CallersSame
    <3>. QED  BY <3>1, <3>2
  <2>4. Callers(z, Leading)' = IF c = "lead" THEN Callers(z, Leading) \cup {x} ELSE Callers(z, Leading)
    <3>1. CASE c = "lead"
      BY <2>0, <2>2, <3>1, CallersJoined
    <3>2. CASE c # "lead"
      BY <2>0, <2>2, <3>2, CallersSame
    <3>. QED  BY <3>1, <3>2
  <2>5. waiters'[k0][p0] = waiters[k0][p0] /\ birth'[k0][p0] = birth[k0][p0] /\ lru'[k0].id[p0] = lru[k0].id[p0]
    BY <1>1
  <2>6. Callers(z, Leading)' # {} /\ \A a, b \in Callers(z, Leading)' : a = b
    <3>1. CASE flight[k0][p0] /\ c = "wait"
      BY <2>z, <2>1, <2>4, <3>1 DEF FlightAt
    <3>2. CASE ~flight[k0][p0] /\ c = "lead"
      <4>1. Callers(z, Leading) = {}
        BY <2>z, <2>1, <3>2 DEF FlightAt
      <4>2. Callers(z, Leading)' = {x}
        BY <2>4, <3>2, <4>1
      <4>. QED  BY <4>2
    <3>. QED  BY <1>5, <3>1, <3>2
  <2>. QED  BY <2>z, <1>8, <2>1, <2>3, <2>5, <2>6 DEF FlightAt
<1>11. FlightInv'
  <2>1. ASSUME NEW k \in Kinds, NEW p \in Paths, <<k, p>> # <<k0, p0>>, NEW pcs \in FlightPcs, NEW y \in Procs
        PROVE  <<k, p>> \in In(stack'[y], pcs) <=> <<k, p>> \in In(stack[y], pcs)
    BY <1>3, <1>6, <2>1
  <2>2. ASSUME NEW k \in Kinds, NEW p \in Paths, <<k, p>> # <<k0, p0>>
        PROVE  /\ \A pcs \in FlightPcs : \A y \in Procs : <<k, p>> \in In(stack'[y], pcs) <=> <<k, p>> \in In(stack[y], pcs)
               /\ waiters'[k][p] = waiters[k][p] /\ flight'[k][p] = flight[k][p] /\ (birth'[k][p] => birth[k][p])
               /\ lru[k].id[p] = None => lru'[k].id[p] = None
    BY <1>1, <1>8, <2>1, <2>2
  <2>. QED  BY <1>2, <1>3, <1>10, <2>2, OtherFlights
<1>. QED  BY <1>6, <1>9, <1>11 DEF TypeInv

-----------------------------------------------------------------------------
(* The end of a flight.                                                    *)

\* A flag is reset.
LEMMA FlagCleared ==
    ASSUME NEW F, F \in [Kinds -> [Paths -> BOOLEAN]], NEW k0 \in Kinds, NEW p0 \in Paths,
           NEW G, G = [F EXCEPT ![k0][p0] = FALSE]
    PROVE  /\ G \in [Kinds -> [Paths -> BOOLEAN]] /\ ~G[k0][p0]
           /\ \A k \in Kinds : \A p \in Paths : <<k, p>> # <<k0, p0>> => G[k][p] = F[k][p]
<1>. DEFINE row == [F[k0] EXCEPT ![p0] = FALSE]
<1>1. G = [F EXCEPT ![k0] = row]
  OBVIOUS
<1>2. row \in [Paths -> BOOLEAN] /\ row[p0] = FALSE /\ \A p \in Paths : p # p0 => row[p] = F[k0][p]
  OBVIOUS
<1>. HIDE DEF row
<1>3. G \in [Kinds -> [Paths -> BOOLEAN]] /\ \A k \in Kinds : G[k] = IF k = k0 THEN row ELSE F[k]
  BY <1>1, <1>2
<1>. QED  BY <1>2, <1>3

\* A flight is over.
LEMMA FlightCleared ==
    ASSUME flight \in [Kinds -> [Paths -> BOOLEAN]], NEW k0 \in Kinds, NEW p0 \in Paths,
           flight' = [flight EXCEPT ![k0][p0] = FALSE]
    PROVE  /\ flight' \in [Kinds -> [Paths -> BOOLEAN]] /\ ~flight'[k0][p0]
           /\ \A k \in Kinds : \A p \in Paths : <<k, p>> # <<k0, p0>> => flight'[k][p] = flight[k][p]
BY FlagCleared

\* y is x, which leads the flight, or waits for it.
Gets(x, y) == y = x \/ (Running(y) /\ Top(y).pc = "wait" /\ Pair(Top(y)) = Pair(Top(x)))
\* Its leader and all who wait for it have its result.
Ends(x, res) ==
    /\ DOMAIN stack' = Procs
    /\ \A y \in Procs : IF Gets(x, y) THEN \E e : /\ e = Ended(Top(y), "exit", res)
                                                  /\ Cut(stack[y], stack'[y], Len(stack[y]), e)
                                      ELSE stack'[y] = stack[y]

\* What the end of a flight does.
LEMMA EndFlightEnds ==
    ASSUME CallsTyped, NEW x \in Procs, Running(x), NEW res, EndFlight(x, res)
    PROVE  Ends(x, res) /\ flight' = [flight EXCEPT ![Top(x).kind][Top(x).path] = FALSE]
<1>. DEFINE G(y) == y = x \/ (At(y, "wait") /\ Top(y).kind = Top(x).kind /\ Top(y).path = Top(x).path)
            F(y) == Front(stack[y]) \o <<Ended(Top(y), "exit", res)>>
<1>1. /\ flight' = [flight EXCEPT ![Top(x).kind][Top(x).path] = FALSE]
      /\ stack' = [y \in Procs |-> IF G(y) THEN F(y) ELSE stack[y]]
  BY Zenon DEF EndFlight
<1>2. DOMAIN stack' = Procs
  BY <1>1
<1>3. ASSUME NEW y \in Procs
      PROVE  IF Gets(x, y) THEN \E e : e = Ended(Top(y), "exit", res) /\ Cut(stack[y], stack'[y], Len(stack[y]), e)
                           ELSE stack'[y] = stack[y]
  <2>0. Gets(x, y) <=> G(y)
    BY DEF Gets, At, Pair
  <2>1. stack'[y] = IF G(y) THEN F(y) ELSE stack[y]
    BY <1>1, Zenon
  <2>2. CASE ~Gets(x, y)
    BY <2>0, <2>1, <2>2, Zenon
  <2>3. CASE Gets(x, y)
    <3>1. stack'[y] = F(y)
      BY <2>0, <2>1, <2>3, Zenon
    <3>2. IsSeq(stack[y]) /\ stack[y] # <<>>
      BY <2>3, TopTyped DEF Gets
    <3>3. PICK e : e = Ended(Top(y), "exit", res)
      OBVIOUS
    <3>4. PICK s : s = stack[y]
      OBVIOUS
    <3>5. stack'[y] = Front(s) \o <<e>>
      BY <3>1, <3>3, <3>4
    <3>. HIDE DEF F
    <3>6. Cut(s, Front(s) \o <<e>>, Len(s), e)
      <4>1. LET t == Front(s) \o <<e>>
            IN  /\ IsSeq(t) /\ Len(t) = Len(s) /\ t # <<>> /\ t[Len(s)] = e /\ Len(s) \in Nat \ {0}
                /\ \A i \in 1..(Len(s) - 1) : t[i] = s[i]
        <5>1. IsSeq(s) /\ s # <<>>
          BY <3>2, <3>4
        <5>. QED  BY <5>1, TopReplaced
      <4>. QED  BY <4>1 DEF Cut
    <3>. QED  BY <2>3, <3>3, <3>4, <3>5, <3>6
  <2>. QED  BY <2>2, <2>3
<1>. QED  BY <1>1, <1>2, <1>3 DEF Ends

\* The calls after it: those who led or waited for it are at its exit.
LEMMA EndsTyped ==
    ASSUME CallsTyped, NEW x \in Procs, Running(x), Top(x).pc \in Leading, Ids \subseteq Ids',
           NEW res, res \in Ids', res # None, Ends(x, res), scope' = scope, canceled' \in SUBSET Procs
    PROVE  /\ CallsTyped'
           /\ \A y \in Procs : \A z, pcs : /\ z # Pair(Top(x)) => (z \in In(stack'[y], pcs) <=> z \in In(stack[y], pcs))
                                           /\ ~Gets(x, y) => (z \in In(stack'[y], pcs) <=> z \in In(stack[y], pcs))
           /\ \A y \in Procs : \A pcs : Gets(x, y) =>
                (Pair(Top(x)) \in In(stack'[y], pcs) <=> "exit" \in pcs) /\ (Pair(Top(x)) \in In(stack[y], pcs) <=> Top(y).pc \in pcs)
<1>1. ASSUME NEW y \in Procs, Gets(x, y)
      PROVE  /\ CallTyped(y)'
             /\ \A z, pcs : /\ z # Pair(Top(x)) => (z \in In(stack'[y], pcs) <=> z \in In(stack[y], pcs))
                            /\ Pair(Top(x)) \in In(stack'[y], pcs) <=> "exit" \in pcs
                            /\ Pair(Top(x)) \in In(stack[y], pcs) <=> Top(y).pc \in pcs
  <2>1. PICK e : e = Ended(Top(y), "exit", res) /\ Cut(stack[y], stack'[y], Len(stack[y]), e)
    BY <1>1 DEF Ends
  <2>2. Running(y) /\ Pair(Top(y)) = Pair(Top(x)) /\ Top(y).pc \in {"wait", "lead", "check"}
    BY <1>1 DEF Gets, Leading
  <2>3. /\ stack[y] # <<>> /\ StackInv(stack[y], scope[y].got, Ids) /\ Top(y) = Last(stack[y])
        /\ Top(y) \in FrameType(Ids) /\ scope[y].got[Top(y).path] = None
    BY <2>2, TopTyped DEF FrameInv
  <2>4. Top(y) \in FrameType(Ids') /\ "exit" \in Pcs
    BY <2>3 DEF FrameType, Pcs
  <2>5. /\ e \in FrameType(Ids') /\ e.pc = "exit" /\ e.res = res /\ Pair(e) = Pair(Top(y)) /\ e.path = Top(y).path
    <3>. HIDE DEF Ids
    <3>. QED  BY <2>1, <2>4, EndedTyped
  <2>6. FrameInv(e, scope[y].got, Ids')
    BY <2>3, <2>5 DEF FrameInv
  <2>7. CallTyped(y)'
    BY <2>1, <2>2, <2>5, <2>6, CallMoves
  <2>8. ASSUME NEW z, NEW pcs
        PROVE  /\ z \in In(stack'[y], pcs) <=> IF z = Pair(Last(stack[y])) THEN e.pc \in pcs ELSE z \in In(stack[y], pcs)
               /\ Pair(Last(stack[y])) \in In(stack[y], pcs) <=> Last(stack[y]).pc \in pcs
    BY <2>1, <2>3, <2>5, InReplaced
  <2>. QED  BY <2>2, <2>3, <2>5, <2>7, <2>8
<1>2. ASSUME NEW y \in Procs, ~Gets(x, y)
      PROVE  CallTyped(y)' /\ stack'[y] = stack[y]
  <2>1. stack'[y] = stack[y]
    BY <1>2 DEF Ends
  <2>. QED  BY <2>1, CallStays
<1>3. DOMAIN stack' = Procs /\ scope' \in [Procs -> ScopeType(Ids')]
  <2>1. ScopeType(Ids) \subseteq ScopeType(Ids')
    BY DEF ScopeType
  <2>. QED  BY <2>1 DEF Ends, CallsTyped
<1>4. \A y \in Procs : CallTyped(y)'
  BY <1>1, <1>2
<1>5. CallsTyped'
  BY <1>3, <1>4 DEF CallsTyped, CallTyped
<1>. QED  BY <1>1, <1>2, <1>5

\* The counts after it: no one leads the flight any more, and its callers are
\* still registered.
LEMMA EndsFlights ==
    ASSUME TypeInv, NEW x \in Procs, Running(x), Top(x).pc \in Leading, Ids \subseteq Ids',
           NEW res, res \in Ids', res # None, Ends(x, res), scope' = scope, canceled' \in SUBSET Procs,
           flight' = [flight EXCEPT ![Top(x).kind][Top(x).path] = FALSE], waiters' = waiters,
           \A k \in Kinds : \A p \in Paths : <<k, p>> # Pair(Top(x)) =>
               (birth'[k][p] => birth[k][p]) /\ (lru[k].id[p] = None => lru'[k].id[p] = None)
    PROVE  FlightInv' /\ flight' \in [Kinds -> [Paths -> BOOLEAN]]
<1>0. PICK k0, p0, z : k0 = Top(x).kind /\ p0 = Top(x).path /\ z = <<k0, p0>>
  OBVIOUS
<1>1. CallsTyped /\ StateTyped /\ FlightInv
  BY DEF TypeInv
<1>2. k0 \in Kinds /\ p0 \in Paths /\ z = Pair(Top(x))
  BY <1>0, <1>1, TopTyped DEF Pair
<1>3. /\ \A y \in Procs : \A v, pcs : /\ v # z => (v \in In(stack'[y], pcs) <=> v \in In(stack[y], pcs))
                                      /\ ~Gets(x, y) => (v \in In(stack'[y], pcs) <=> v \in In(stack[y], pcs))
      /\ \A y \in Procs : \A pcs : Gets(x, y) =>
           (z \in In(stack'[y], pcs) <=> "exit" \in pcs) /\ (z \in In(stack[y], pcs) <=> Top(y).pc \in pcs)
  BY <1>1, <1>2, EndsTyped
<1>4. /\ flight' \in [Kinds -> [Paths -> BOOLEAN]] /\ ~flight'[k0][p0]
      /\ \A k \in Kinds : \A p \in Paths : <<k, p>> # <<k0, p0>> => flight'[k][p] = flight[k][p]
  <2>1. flight \in [Kinds -> [Paths -> BOOLEAN]]
    BY <1>1 DEF StateTyped
  <2>3. flight' = [flight EXCEPT ![k0][p0] = FALSE]
    BY <1>0
  <2>. QED  BY <1>2, <2>1, <2>3, FlightCleared
<1>5. /\ "exit" \in Registering /\ "exit" \notin Leading /\ "exit" \notin {"check"}
      /\ \A y \in Procs : Gets(x, y) => Top(y).pc \in Registering
      /\ \A pc \in {"check"} : pc \in Leading
  BY DEF Registering, Leading, Gets
<1>6. FlightAt(k0, p0)'
  <2>1. FlightAt(k0, p0)
    BY <1>1, <1>2 DEF FlightInv
  <2>2. Callers(z, Registering)' = Callers(z, Registering)
    <3>1. \A y \in Procs : z \in In(stack'[y], Registering) <=> z \in In(stack[y], Registering)
      BY <1>3, <1>5
    <3>. QED  BY <3>1, CallersSame
  <2>3. \A y \in Procs : z \notin In(stack'[y], Leading) /\ z \notin In(stack'[y], {"check"})
    <3>1. ASSUME NEW y \in Procs, ~Gets(x, y) PROVE z \notin In(stack'[y], Leading) /\ z \notin In(stack'[y], {"check"})
      <4>1. Gets(x, x) /\ x # y /\ z \in In(stack[x], Leading)
        BY <1>3, <3>1 DEF Gets
      <4>2. z \notin In(stack[y], Leading)
        BY <1>0, <2>1, <4>1 DEF FlightAt, Callers
      <4>3. z \in In(stack[y], {"check"}) => z \in In(stack[y], Leading)
        BY DEF In, Leading
      <4>. QED  BY <1>3, <3>1, <4>2, <4>3
    <3>2. ASSUME NEW y \in Procs, Gets(x, y) PROVE z \notin In(stack'[y], Leading) /\ z \notin In(stack'[y], {"check"})
      BY <1>3, <1>5, <3>2
    <3>. QED  BY <3>1, <3>2
  <2>4. Callers(z, Leading)' = {} /\ Callers(z, {"check"})' = {}
    BY <2>3 DEF Callers
  <2>5. waiters[k0][p0] > 0
    <3>1. x \in Callers(z, Registering)
      BY <1>3, <1>5 DEF Gets, Callers
    <3>2. Cardinality(Callers(z, Registering)) # 0 /\ Cardinality(Callers(z, Registering)) \in Nat
      BY <3>1, ProcsCounted DEF Callers
    <3>. QED  BY <1>0, <2>1, <3>2 DEF FlightAt
  <2>6. waiters'[k0][p0] = waiters[k0][p0]
    OBVIOUS
  <2>. QED  BY <1>0, <1>4, <2>1, <2>2, <2>4, <2>5, <2>6 DEF FlightAt
<1>7. FlightInv'
  <2>1. ASSUME NEW k \in Kinds, NEW p \in Paths, <<k, p>> # <<k0, p0>>
        PROVE  /\ \A pcs \in FlightPcs : \A y \in Procs : <<k, p>> \in In(stack'[y], pcs) <=> <<k, p>> \in In(stack[y], pcs)
               /\ waiters'[k][p] = waiters[k][p] /\ flight'[k][p] = flight[k][p] /\ (birth'[k][p] => birth[k][p])
               /\ lru[k].id[p] = None => lru'[k].id[p] = None
    BY <1>0, <1>2, <1>3, <1>4, <2>1
  <2>. QED  BY <1>1, <1>2, <1>6, <2>1, OtherFlights
<1>. QED  BY <1>4, <1>7

-----------------------------------------------------------------------------
(* The leader of a flight.                                                 *)

\* lead: a hit, a failure, or the start of a check.
Leads(x) ==
    LET f == Top(x)
    IN  /\ Running(x) /\ f.pc = "lead" /\ UNCHANGED <<waiters, inst, scope, ret, canceled, birth, slips, load>>
        /\ \/ \E k \in Kinds : /\ lru[k].id[f.path] # None /\ EndFlight(x, lru[k].id[f.path])
                               /\ lru' = [lru EXCEPT ![k] = Touch(lru[k], f.path)]
           \/ EndFlight(x, Err) /\ lru' = lru
           \/ /\ lru[f.kind].id[f.path] = None /\ lru' = lru /\ flight' = flight
              /\ stack' = SetTop(x, [f EXCEPT !.pc = "check", !.todo = Imports[f.path]])

\* lead, by its parts.
LEMMA leadLeads ==
    ASSUME CallsTyped, NEW x \in Procs, lead(x)
    PROVE  Leads(x)
<1>. DEFINE f == Top(x)
            P(k) == \/ k = "full" /\ lru.full.id[f.path] # None
                    \/ k = "decl" /\ f.kind = "decl" /\ lru.full.id[f.path] = None /\ lru.decl.id[f.path] # None
                    \/ k = "none" /\ lru.full.id[f.path] = None /\ (f.kind = "full" \/ lru.decl.id[f.path] = None)
            hit == CHOOSE k \in {"full", "decl", "none"} : P(k)
            g == [f EXCEPT !.pc = "check", !.todo = Imports[f.path]]
<1>1. /\ Running(x) /\ f.pc = "lead" /\ UNCHANGED <<waiters, inst, scope, ret, canceled, birth, slips, load>>
      /\ \/ hit # "none" /\ EndFlight(x, lru[hit].id[f.path]) /\ lru' = [lru EXCEPT ![hit] = Touch(@, f.path)]
         \/ hit = "none" /\ EndFlight(x, Err) /\ UNCHANGED lru
         \/ hit = "none" /\ stack' = SetTop(x, g) /\ UNCHANGED <<lru, flight>>
  BY Zenon DEF lead, At
<1>2. f.kind \in {"decl", "full"}
  BY <1>1, TopTyped DEF Kinds
<1>3. hit \in {"full", "decl", "none"} /\ P(hit)
  <2>1. \E k \in {"full", "decl", "none"} : P(k)
    <3>1. P("full") \/ P("decl") \/ P("none")
      BY <1>2
    <3>. QED  BY <3>1, Zenon
  <2>. HIDE DEF P
  <2>. QED  BY <2>1, Zenon
<1>. HIDE DEF hit, g
<1>4. CASE hit # "none" /\ EndFlight(x, lru[hit].id[f.path]) /\ lru' = [lru EXCEPT ![hit] = Touch(@, f.path)]
  <2>1. hit \in Kinds /\ lru[hit].id[f.path] # None
    BY <1>3, <1>4 DEF Kinds
  <2>2. lru' = [lru EXCEPT ![hit] = Touch(lru[hit], f.path)]
    BY <1>4
  <2>. QED  BY <1>1, <1>4, <2>1, <2>2, Zenon DEF Leads
<1>5. CASE hit = "none" /\ EndFlight(x, Err) /\ UNCHANGED lru
  BY <1>1, <1>5, Zenon DEF Leads
<1>6. CASE hit = "none" /\ stack' = SetTop(x, g) /\ UNCHANGED <<lru, flight>>
  <2>1. lru[f.kind].id[f.path] = None
    BY <1>2, <1>3, <1>6
  <2>. QED  BY <1>1, <1>6, <2>1, Zenon DEF Leads, g
<1>. QED  BY <1>1, <1>4, <1>5, <1>6

\* finishCheck: given up, or checked, and cached unless it is degraded.
Finishes(x) ==
    LET f == Top(x)
        id == Len(inst) + 1
    IN  /\ Running(x) /\ f.pc = "check" /\ f.todo = {} /\ UNCHANGED <<waiters, scope, ret, canceled, slips, load>>
        /\ \/ x \in canceled /\ EndFlight(x, Err) /\ UNCHANGED <<lru, inst, birth>>
           \/ /\ x \notin canceled /\ EndFlight(x, id)
              /\ inst' = Append(inst, [path |-> f.path, ids |-> f.ids \cup {id}, failed |-> f.failed,
                                       old |-> f.old, raced |-> f.raced])
              /\ \/ f.failed /\ UNCHANGED <<lru, birth>>
                 \/ /\ ~f.failed /\ lru' = [lru EXCEPT ![f.kind] = pin(lruPut(f.kind, lru[f.kind], f.path, id), f.path)]
                    /\ birth' = [birth EXCEPT ![f.kind][f.path] = TRUE]

\* finishCheck, by its parts.
LEMMA finishCheckFinishes ==
    ASSUME NEW x \in Procs, finishCheck(x)
    PROVE  Finishes(x)
<1>. DEFINE f == Top(x)
            id == Len(inst) + 1
            r == [path |-> f.path, ids |-> f.ids \cup {id}, failed |-> f.failed, old |-> f.old, raced |-> f.raced]
<1>1. /\ Running(x) /\ f.pc = "check" /\ f.todo = {} /\ UNCHANGED <<waiters, scope, ret, canceled, slips, load>>
      /\ IF x \in canceled THEN EndFlight(x, Err) /\ UNCHANGED <<lru, inst, birth>>
         ELSE /\ inst' = Append(inst, r)
              /\ EndFlight(x, id)
              /\ IF f.failed THEN UNCHANGED <<lru, birth>>
                 ELSE /\ lru' = [lru EXCEPT ![f.kind] = pin(lruPut(f.kind, @, f.path, id), f.path)]
                      /\ birth' = [birth EXCEPT ![f.kind][f.path] = TRUE]
  BY Zenon DEF finishCheck, At
<1>2. CASE x \in canceled
  BY <1>1, <1>2, Zenon DEF Finishes
<1>3. CASE x \notin canceled /\ f.failed
  BY <1>1, <1>3, Zenon DEF Finishes
<1>4. CASE x \notin canceled /\ ~f.failed
  <2>1. lru' = [lru EXCEPT ![f.kind] = pin(lruPut(f.kind, lru[f.kind], f.path, id), f.path)]
    BY <1>1, <1>4
  <2>. QED  BY <1>1, <1>4, <2>1, Zenon DEF Finishes
<1>. QED  BY <1>2, <1>3, <1>4

\* A fresh entry is born pinned.
LEMMA PutPinned ==
    ASSUME NEW l, LruOK(l), NEW k, NEW p \in Paths, l.id[p] = None, NEW i \in Nat \ {0}
    PROVE  LET r == Room(k, l)
               m == pin(lruPut(k, l, p, i), p)
           IN  /\ LruOK(r) /\ Shrunk(l, r) /\ LruOK(m) /\ m.id = [r.id EXCEPT ![p] = i] /\ m.pending = r.pending
               /\ \A q \in Paths : m.pins[q] = r.pins[q] + (IF q \in Imports[p] THEN 1 ELSE 0) + (IF q = p THEN 1 ELSE 0)
<1>. DEFINE r == Room(k, l)
            t == lruPut(k, l, p, i)
            m == pin(t, p)
<1>1. /\ LruOK(r) /\ Shrunk(l, r) /\ LruOK(t) /\ t.id = [r.id EXCEPT ![p] = i] /\ t.pending = r.pending
      /\ \A q \in Paths : t.pins[q] = r.pins[q] + (IF q \in Imports[p] THEN 1 ELSE 0)
  BY PutOK
<1>. HIDE DEF t, r
<1>2. /\ LruOK(m) /\ m.id = t.id /\ m.pending = t.pending
      /\ \A q \in Paths : m.pins[q] = t.pins[q] + (IF q = p THEN 1 ELSE 0)
  BY <1>1, PinOK
<1>. HIDE DEF m
<1>3. \A q \in Paths : r.pins[q] \in Nat /\ t.pins[q] \in Nat
  BY <1>1 DEF LruOK, LruType
<1>4. \A q \in Paths : m.pins[q] = r.pins[q] + (IF q \in Imports[p] THEN 1 ELSE 0) + (IF q = p THEN 1 ELSE 0)
  BY <1>1, <1>2, <1>3
<1>. QED  BY <1>1, <1>2, <1>4 DEF m, t, r

\* A birth pin is set.
LEMMA BirthSet ==
    ASSUME birth \in [Kinds -> [Paths -> BOOLEAN]], NEW k0 \in Kinds, NEW p0 \in Paths,
           birth' = [birth EXCEPT ![k0][p0] = TRUE]
    PROVE  /\ birth' \in [Kinds -> [Paths -> BOOLEAN]] /\ birth'[k0][p0]
           /\ \A k \in Kinds : \A p \in Paths : <<k, p>> # <<k0, p0>> => birth'[k][p] = birth[k][p]
<1>. DEFINE row == [birth[k0] EXCEPT ![p0] = TRUE]
<1>1. birth' = [birth EXCEPT ![k0] = row]
  OBVIOUS
<1>2. row \in [Paths -> BOOLEAN] /\ row[p0] /\ \A p \in Paths : p # p0 => row[p] = birth[k0][p]
  OBVIOUS
<1>. HIDE DEF row
<1>3. birth' \in [Kinds -> [Paths -> BOOLEAN]] /\ \A k \in Kinds : birth'[k] = IF k = k0 THEN row ELSE birth[k]
  BY <1>1, <1>2
<1>. QED  BY <1>2, <1>3

\* G is F but for one place, where it is false.
Cleared(F, G, k0, p0) ==
    /\ G \in [Kinds -> [Paths -> BOOLEAN]] /\ ~G[k0][p0]
    /\ \A k \in Kinds : \A p \in Paths : <<k, p>> # <<k0, p0>> => G[k][p] = F[k][p]
\* A birth pin is released.
LEMMA BirthCleared ==
    ASSUME birth \in [Kinds -> [Paths -> BOOLEAN]], NEW k0 \in Kinds, NEW p0 \in Paths,
           birth' = [birth EXCEPT ![k0][p0] = FALSE]
    PROVE  Cleared(birth, birth', k0, p0)
BY FlagCleared DEF Cleared

\* lead keeps the types.
LEMMA leadTyped ==
    ASSUME TypeInv, NEW x \in Procs, Leads(x)
    PROVE  TypeInv'
<1>0. PICK k0, p0, z : k0 = Top(x).kind /\ p0 = Top(x).path /\ z = <<k0, p0>>
  OBVIOUS
<1>1. /\ Running(x) /\ Top(x).pc = "lead" /\ Top(x).pc \in Leading
      /\ UNCHANGED <<waiters, inst, scope, ret, canceled, birth, slips, load>>
  BY DEF Leads, Leading
<1>2. CallsTyped /\ StateTyped /\ FlightInv /\ canceled' \in SUBSET Procs
  BY <1>1 DEF TypeInv, CallsTyped
<1>3. /\ k0 \in Kinds /\ p0 \in Paths /\ z = Pair(Top(x)) /\ scope[x].got[p0] = None
      /\ Top(x) \in FrameType(Ids) /\ stack[x] # <<>> /\ StackInv(stack[x], scope[x].got, Ids) /\ Top(x) = Last(stack[x])
  BY <1>0, <1>1, <1>2, TopTyped DEF Pair, FrameInv
<1>4. InstGrows /\ Ids' = Ids /\ Err \in Ids /\ Err # None
  BY <1>1, <1>2, InstStays, IdsHere DEF StateTyped
<1>5. ASSUME NEW res \in Ids, res # None, EndFlight(x, res), LruTyped',
             \A k \in Kinds : \A p \in Paths : lru[k].id[p] = None => lru'[k].id[p] = None
      PROVE  TypeInv'
  <2>1. Ends(x, res) /\ flight' = [flight EXCEPT ![Top(x).kind][Top(x).path] = FALSE]
    BY <1>1, <1>2, <1>5, EndFlightEnds
  <2>2. CallsTyped'
    BY <1>1, <1>2, <1>4, <1>5, <2>1, EndsTyped
  <2>3. FlightInv' /\ flight' \in [Kinds -> [Paths -> BOOLEAN]]
    BY <1>1, <1>2, <1>4, <1>5, <2>1, EndsFlights
  <2>4. StateTyped'
    BY <1>1, <1>2, <1>4, <1>5, <2>3 DEF StateTyped, InstGrows
  <2>. QED  BY <2>2, <2>3, <2>4 DEF TypeInv
<1>6. CASE \E k \in Kinds : /\ lru[k].id[p0] # None /\ EndFlight(x, lru[k].id[p0])
                            /\ lru' = [lru EXCEPT ![k] = Touch(lru[k], p0)]
  <2>1. PICK k \in Kinds : /\ lru[k].id[p0] # None /\ EndFlight(x, lru[k].id[p0])
                           /\ lru' = [lru EXCEPT ![k] = Touch(lru[k], p0)]
    BY <1>6
  <2>2. PICK res : res = lru[k].id[p0]
    OBVIOUS
  <2>3. res \in Ids /\ res # None /\ EndFlight(x, res)
    BY <1>2, <1>3, <2>1, <2>2, LruHere
  <2>. DEFINE m == Touch(lru[k], p0)
  <2>4. LruOK(m) /\ m.id = lru[k].id /\ \A p \in Paths : lru[k].id[p] <= Len(inst)
    BY <1>2, <1>3, <2>1, TouchOK, LruHere
  <2>5. lru' = [lru EXCEPT ![k] = m]
    BY <2>1
  <2>. HIDE DEF m
  <2>6. \A p \in Paths : m.id[p] <= Len(inst')
    BY <1>1, <2>4
  <2>7. LruTyped' /\ lru'[k] = m /\ \A j \in Kinds : j # k => lru'[j] = lru[j]
    BY <1>2, <1>4, <2>4, <2>5, <2>6, LruStep
  <2>. QED  BY <1>5, <2>3, <2>4, <2>7
<1>7. CASE EndFlight(x, Err) /\ lru' = lru
  <2>1. PICK res : res = Err
    OBVIOUS
  <2>. QED  BY <1>2, <1>4, <1>5, <1>7, <2>1, LruStays
<1>8. CASE /\ lru[k0].id[p0] = None /\ lru' = lru /\ flight' = flight
           /\ stack' = SetTop(x, [Top(x) EXCEPT !.pc = "check", !.todo = Imports[p0]])
  <2>1. PICK e : e = [Top(x) EXCEPT !.pc = "check", !.todo = Imports[p0]]
    OBVIOUS
  <2>2. e \in FrameType(Ids) /\ e.pc = "check" /\ e.todo = Imports[p0] /\ e.path = p0 /\ Pair(e) = z
    <3>1. "check" \in Pcs /\ Imports[p0] \in SUBSET Paths
      BY <1>3, ImportsAssumption DEF Pcs
    <3>. HIDE DEF Pcs
    <3>. QED  BY <1>0, <1>3, <2>1, <3>1 DEF FrameType, Pair
  <2>3. FrameInv(e, scope[x].got, Ids)
    BY <1>3, <2>2 DEF FrameInv
  <2>4. CallsTyped' /\ OneCut(x, Len(stack[x]), e)
    BY <1>1, <1>2, <1>3, <1>8, <2>1, <2>2, <2>3, MoveTyped
  <2>5. /\ \A y \in Procs \ {x} : stack'[y] = stack[y]
        /\ \A v, pcs : /\ v \in In(stack'[x], pcs) <=> IF v = z THEN "check" \in pcs ELSE v \in In(stack[x], pcs)
                       /\ z \in In(stack[x], pcs) <=> "lead" \in pcs
    BY <1>1, <1>3, <2>2, <2>4, InReplaced DEF OneCut
  <2>6. FlightAt(k0, p0)'
    <3>1. FlightAt(k0, p0)
      BY <1>2, <1>3 DEF FlightInv
    <3>2. "lead" \in Registering /\ "check" \in Registering /\ "lead" \in Leading /\ "check" \in Leading
      BY DEF Registering, Leading
    <3>3. Callers(z, Registering)' = Callers(z, Registering)
      <4>1. \A y \in Procs : z \in In(stack'[y], Registering) <=> z \in In(stack[y], Registering)
        BY <2>5, <3>2
      <4>. QED  BY <4>1, CallersSame
    <3>4. Callers(z, Leading)' = Callers(z, Leading)
      <4>1. \A y \in Procs : z \in In(stack'[y], Leading) <=> z \in In(stack[y], Leading)
        BY <2>5, <3>2
      <4>. QED  BY <4>1, CallersSame
    <3>5. waiters'[k0][p0] = waiters[k0][p0] /\ birth'[k0][p0] = birth[k0][p0] /\ lru'[k0].id[p0] = None
      BY <1>1, <1>8
    <3>6. flight' = flight
      BY <1>8
    <3>. QED  BY <1>0, <3>1, <3>3, <3>4, <3>5, <3>6 DEF FlightAt
  <2>7. FlightInv'
    <3>1. ASSUME NEW k \in Kinds, NEW p \in Paths, <<k, p>> # <<k0, p0>>
          PROVE  /\ \A pcs \in FlightPcs : \A y \in Procs : <<k, p>> \in In(stack'[y], pcs) <=> <<k, p>> \in In(stack[y], pcs)
                 /\ waiters'[k][p] = waiters[k][p] /\ flight'[k][p] = flight[k][p] /\ (birth'[k][p] => birth[k][p])
                 /\ lru[k].id[p] = None => lru'[k].id[p] = None
      BY <1>0, <1>1, <1>8, <2>5, <3>1
    <3>. QED  BY <1>2, <1>3, <2>6, <3>1, OtherFlights
  <2>8. StateTyped'
    BY <1>1, <1>2, <1>4, <1>8, LruStays, RestTyped
  <2>. QED  BY <2>4, <2>7, <2>8 DEF TypeInv
<1>. QED  BY <1>0, <1>6, <1>7, <1>8 DEF Leads

\* The package that finishCheck makes.
LEMMA CheckedInst ==
    ASSUME StateTyped, NEW f \in FrameType(Ids), NEW r,
           r = [path |-> f.path, ids |-> f.ids \cup {Len(inst) + 1}, failed |-> f.failed, old |-> f.old, raced |-> f.raced],
           inst' = Append(inst, r)
    PROVE  /\ InstGrows /\ Len(inst') = Len(inst) + 1 /\ inst'[Len(inst) + 1] = r
           /\ \A i \in DOMAIN inst : inst'[i] = inst[i]
           /\ Len(inst) + 1 \in Ids' /\ Len(inst) + 1 \in Nat \ {0}
<1>1. Len(inst) \in Nat
  BY IdsHere DEF StateTyped
<1>2. IsSeq(inst') /\ Len(inst') = Len(inst) + 1
  BY <1>1, Pushed DEF StateTyped
<1>3. Len(inst) + 1 \in Ids'
  <2>1. Len(inst') \in Nat /\ Len(inst') > 0
    BY <1>1, <1>2
  <2>2. Len(inst') \in Ids'
    BY <1>1, <1>2, <2>1, OrderAssumption, LenProperties DEF Ids, Err
  <2>. QED  BY <1>2, <2>2
<1>4. ASSUME Ids \subseteq Ids' PROVE r \in InstType(Ids')
  <2>1. f.path \in Paths /\ f.ids \in SUBSET Ids' /\ f.failed \in BOOLEAN /\ f.old \in BOOLEAN /\ f.raced \in BOOLEAN
    BY <1>4 DEF FrameType
  <2>2. f.ids \cup {Len(inst) + 1} \in SUBSET Ids'
    BY <1>3, <2>1
  <2>. QED  BY <2>1, <2>2 DEF InstType
<1>. QED  BY <1>1, <1>3, <1>4, InstAdded

\* finishCheck keeps the types.
LEMMA finishCheckTyped ==
    ASSUME TypeInv, NEW x \in Procs, Finishes(x)
    PROVE  TypeInv'
<1>0. PICK k0, p0, z, id, r :
        /\ k0 = Top(x).kind /\ p0 = Top(x).path /\ z = <<k0, p0>> /\ id = Len(inst) + 1
        /\ r = [path |-> Top(x).path, ids |-> Top(x).ids \cup {Len(inst) + 1}, failed |-> Top(x).failed,
                old |-> Top(x).old, raced |-> Top(x).raced]
  OBVIOUS
<1>1. /\ Running(x) /\ Top(x).pc = "check" /\ Top(x).pc \in Leading
      /\ UNCHANGED <<waiters, scope, ret, canceled, slips, load>>
  BY DEF Finishes, Leading
<1>2. CallsTyped /\ StateTyped /\ FlightInv /\ canceled' \in SUBSET Procs
  BY <1>1 DEF TypeInv, CallsTyped
<1>3. /\ k0 \in Kinds /\ p0 \in Paths /\ z = Pair(Top(x)) /\ Top(x) \in FrameType(Ids)
      /\ stack[x] # <<>> /\ StackInv(stack[x], scope[x].got, Ids) /\ Top(x) = Last(stack[x])
  BY <1>0, <1>1, <1>2, TopTyped DEF Pair
<1>4. ASSUME InstGrows, NEW res \in Ids', res # None, EndFlight(x, res), LruTyped', birth' \in [Kinds -> [Paths -> BOOLEAN]],
             \A k \in Kinds : \A p \in Paths : <<k, p>> # z =>
                (birth'[k][p] => birth[k][p]) /\ (lru[k].id[p] = None => lru'[k].id[p] = None)
      PROVE  TypeInv'
  <2>0. Ids \subseteq Ids'
    BY <1>4 DEF InstGrows
  <2>1. Ends(x, res) /\ flight' = [flight EXCEPT ![Top(x).kind][Top(x).path] = FALSE]
    BY <1>1, <1>2, <1>4, EndFlightEnds
  <2>2. CallsTyped'
    BY <1>1, <1>2, <1>4, <2>0, <2>1, EndsTyped
  <2>3. FlightInv' /\ flight' \in [Kinds -> [Paths -> BOOLEAN]]
    BY <1>1, <1>2, <1>3, <1>4, <2>0, <2>1, EndsFlights
  <2>4. ret' \in [Procs -> Ids']
    BY <1>1, <1>2, <2>0 DEF StateTyped
  <2>5. StateTyped'
    BY <1>1, <1>2, <1>4, <2>3, <2>4 DEF StateTyped, InstGrows
  <2>. QED  BY <2>2, <2>3, <2>5 DEF TypeInv
<1>5. CASE x \in canceled /\ EndFlight(x, Err) /\ UNCHANGED <<lru, inst, birth>>
  <2>1. PICK res : res = Err
    OBVIOUS
  <2>2. InstGrows /\ Ids' = Ids /\ Err \in Ids /\ Err # None
    BY <1>2, <1>5, InstStays, IdsHere DEF StateTyped
  <2>3. LruTyped' /\ birth' \in [Kinds -> [Paths -> BOOLEAN]]
    BY <1>2, <1>5, <2>2, LruStays DEF StateTyped
  <2>. QED  BY <1>4, <1>5, <2>1, <2>2, <2>3
<1>6. ASSUME EndFlight(x, id), inst' = Append(inst, r)
      PROVE  /\ InstGrows /\ id \in Ids' /\ id # None /\ id \in Nat \ {0} /\ id <= Len(inst')
             /\ EndFlight(x, id) /\ inst' = Append(inst, r)
  BY <1>0, <1>2, <1>3, <1>6, CheckedInst DEF None
<1>7. CASE EndFlight(x, id) /\ inst' = Append(inst, r) /\ UNCHANGED <<lru, birth>>
  <2>1. InstGrows /\ id \in Ids' /\ id # None
    BY <1>6, <1>7
  <2>2. LruTyped' /\ birth' \in [Kinds -> [Paths -> BOOLEAN]]
    BY <1>2, <1>7, <2>1, LruStays DEF StateTyped
  <2>. QED  BY <1>4, <1>7, <2>1, <2>2
<1>8. CASE /\ EndFlight(x, id) /\ inst' = Append(inst, r)
           /\ lru' = [lru EXCEPT ![k0] = pin(lruPut(k0, lru[k0], p0, id), p0)]
           /\ birth' = [birth EXCEPT ![k0][p0] = TRUE]
  <2>1. InstGrows /\ id \in Ids' /\ id # None /\ id \in Nat \ {0} /\ id <= Len(inst')
    BY <1>6, <1>8
  <2>2. LruOK(lru[k0]) /\ \A p \in Paths : lru[k0].id[p] \in Nat /\ lru[k0].id[p] <= Len(inst)
    BY <1>2, <1>3, LruHere
  <2>3. lru[k0].id[p0] = None
    <3>1. x \in Callers(z, {"check"})
      BY <1>1, <1>3, InReplaced, InTop DEF Callers
    <3>. QED  BY <1>0, <1>2, <1>3, <3>1 DEF FlightInv, FlightAt
  <2>. DEFINE m == pin(lruPut(k0, lru[k0], p0, id), p0)
              h == Room(k0, lru[k0])
  <2>4. LruOK(h) /\ Shrunk(lru[k0], h) /\ LruOK(m) /\ m.id = [h.id EXCEPT ![p0] = id]
    BY <1>3, <2>1, <2>2, <2>3, PutPinned
  <2>5. lru' = [lru EXCEPT ![k0] = m]
    BY <1>8
  <2>. HIDE DEF m, h
  <2>6. \A p \in Paths : m.id[p] = IF p = p0 THEN id ELSE h.id[p]
    BY <1>3, <2>4 DEF LruOK, LruType
  <2>7. \A p \in Paths : m.id[p] <= Len(inst') /\ (p # p0 /\ lru[k0].id[p] = None => m.id[p] = None)
    <3>1. Len(inst') \in Nat /\ Len(inst) <= Len(inst') /\ Len(inst) \in Nat
      BY <2>1 DEF InstGrows
    <3>. QED  BY <2>1, <2>2, <2>4, <2>6, <3>1 DEF Shrunk, None
  <2>8. LruTyped' /\ lru'[k0] = m /\ \A j \in Kinds : j # k0 => lru'[j] = lru[j]
    BY <1>2, <1>3, <2>1, <2>4, <2>5, <2>7, LruStep
  <2>9. birth' \in [Kinds -> [Paths -> BOOLEAN]] /\ \A k \in Kinds : \A p \in Paths : <<k, p>> # z => birth'[k][p] = birth[k][p]
    <3>1. birth \in [Kinds -> [Paths -> BOOLEAN]] /\ birth' = [birth EXCEPT ![k0][p0] = TRUE]
      BY <1>2, <1>8 DEF StateTyped
    <3>2. /\ birth' \in [Kinds -> [Paths -> BOOLEAN]] /\ birth'[k0][p0]
          /\ \A k \in Kinds : \A p \in Paths : <<k, p>> # <<k0, p0>> => birth'[k][p] = birth[k][p]
      BY <1>3, <3>1, BirthSet, Zenon
    <3>. QED  BY <1>0, <3>2
  <2>10. \A k \in Kinds : \A p \in Paths : <<k, p>> # z => (lru[k].id[p] = None => lru'[k].id[p] = None)
    BY <1>0, <2>7, <2>8
  <2>11. \A k \in Kinds : \A p \in Paths : <<k, p>> # z =>
           (birth'[k][p] => birth[k][p]) /\ (lru[k].id[p] = None => lru'[k].id[p] = None)
    BY <2>9, <2>10
  <2>12. EndFlight(x, id)
    BY <1>8
  <2>. QED  BY <1>4, <2>1, <2>8, <2>9, <2>11, <2>12, Zenon
<1>. QED
  <2>1. \/ x \in canceled /\ EndFlight(x, Err) /\ UNCHANGED <<lru, inst, birth>>
        \/ EndFlight(x, id) /\ inst' = Append(inst, r) /\ UNCHANGED <<lru, birth>>
        \/ /\ EndFlight(x, id) /\ inst' = Append(inst, r)
           /\ lru' = [lru EXCEPT ![k0] = pin(lruPut(k0, lru[k0], p0, id), p0)]
           /\ birth' = [birth EXCEPT ![k0][p0] = TRUE]
    BY <1>0, Zenon DEF Finishes
  <2>. QED  BY <1>5, <1>7, <1>8, <2>1

-----------------------------------------------------------------------------
(* An import of a package under check.                                     *)

\* ImportFrom, by the frame it leaves on top.
Imports1(x, d) ==
    LET f == Top(x)
    IN  /\ Running(x) /\ f.pc = "check" /\ d \in f.todo
        /\ UNCHANGED <<lru, waiters, flight, inst, scope, ret, canceled, birth, slips, load>>
        /\ \/ x \in canceled /\ stack' = SetTop(x, [f EXCEPT !.todo = {}])
           \/ /\ x \notin canceled /\ scope[x].holder[d] # None
              /\ stack' = SetTop(x, Imported(f, d, {scope[x].holder[d]}, TRUE))
           \/ /\ x \notin canceled /\ scope[x].holder[d] = None
              /\ stack' = [stack EXCEPT ![x] = Append(stack[x], Frame(d, "decl", TRUE))]

\* importFrom, by its parts.
LEMMA ImportFromImports ==
    ASSUME DOMAIN stack = Procs, NEW x \in Procs, NEW d \in Paths, ImportFrom(x, d)
    PROVE  Imports1(x, d)
<1>. DEFINE e1 == [Top(x) EXCEPT !.todo = {}]
            e2 == Imported(Top(x), d, {scope[x].holder[d]}, TRUE)
            e3 == Frame(d, "decl", TRUE)
<1>1. /\ Running(x) /\ Top(x).pc = "check" /\ d \in Top(x).todo
      /\ UNCHANGED <<lru, waiters, flight, inst, scope, ret, canceled, birth, slips, load>>
      /\ stack' = [stack EXCEPT ![x] =
           IF x \in canceled THEN Front(@) \o <<e1>>
           ELSE IF scope[x].holder[d] # None THEN Front(@) \o <<e2>> ELSE Append(@, e3)]
  BY Zenon DEF ImportFrom, At
<1>. HIDE DEF e1, e2, e3
<1>2. CASE x \in canceled
  <2>1. stack' = SetTop(x, e1)
    BY <1>1, <1>2 DEF SetTop
  <2>. QED  BY <1>1, <1>2, <2>1, Zenon DEF Imports1, e1
<1>3. CASE x \notin canceled /\ scope[x].holder[d] # None
  <2>1. stack' = SetTop(x, e2)
    BY <1>1, <1>3 DEF SetTop
  <2>. QED  BY <1>1, <1>3, <2>1, Zenon DEF Imports1, e2
<1>4. CASE x \notin canceled /\ scope[x].holder[d] = None
  <2>1. stack' = [stack EXCEPT ![x] = Append(stack[x], e3)]
    BY <1>1, <1>4
  <2>. QED  BY <1>1, <1>4, <2>1, Zenon DEF Imports1, e3
<1>. QED  BY <1>2, <1>3, <1>4

\* ImportFrom keeps the types.
LEMMA ImportFromTyped ==
    ASSUME TypeInv, NEW x \in Procs, NEW d \in Paths, Imports1(x, d)
    PROVE  TypeInv'
<1>1. /\ Running(x) /\ Top(x).pc = "check" /\ d \in Top(x).todo
      /\ UNCHANGED <<lru, waiters, flight, inst, scope, ret, canceled, birth, slips, load>>
  BY DEF Imports1
<1>2. CallsTyped /\ StateTyped /\ FlightInv /\ canceled' \in SUBSET Procs
  BY <1>1 DEF TypeInv, CallsTyped
<1>3. /\ Top(x) \in FrameType(Ids) /\ FrameInv(Top(x), scope[x].got, Ids) /\ scope[x] \in ScopeType(Ids)
      /\ stack[x] # <<>> /\ StackInv(stack[x], scope[x].got, Ids) /\ Top(x) = Last(stack[x]) /\ Top(x) = stack[x][Len(stack[x])]
      /\ Top(x).path \in Paths /\ scope[x].got[Top(x).path] = None /\ Top(x).todo \subseteq Imports[Top(x).path]
      /\ DOMAIN stack = Procs /\ IsSeq(stack[x]) /\ Len(stack[x]) \in Nat \ {0}
  BY <1>1, <1>2, TopTyped DEF FrameInv
<1>4. InstGrows /\ Ids' = Ids /\ None \in Ids
  BY <1>1, <1>2, InstStays, IdsHere DEF StateTyped
<1>5. StateTyped'
  BY <1>1, <1>2, <1>4, LruStays, RestTyped
<1>6. ASSUME CallsTyped', \A pcs \in FlightPcs : \A y \in Procs : \A z \in Kinds \X Paths :
                             z \in In(stack'[y], pcs) <=> z \in In(stack[y], pcs)
      PROVE  TypeInv'
  <2>1. FlightInv'
    BY <1>1, <1>2, <1>6, FlightsStay
  <2>. QED  BY <1>5, <1>6, <2>1 DEF TypeInv
<1>7. ASSUME NEW e \in FrameType(Ids), ImportedFrom(Top(x), e), e.todo \subseteq Top(x).todo, stack' = SetTop(x, e)
      PROVE  TypeInv'
  <2>1. e.pc = "check" /\ Pair(e) = Pair(Top(x)) /\ e.path = Top(x).path
    BY <1>1, <1>7 DEF ImportedFrom, Pair
  <2>2. FrameInv(e, scope[x].got, Ids)
    BY <1>3, <1>7, <2>1 DEF FrameInv
  <2>3. CallsTyped' /\ OneCut(x, Len(stack[x]), e)
    BY <1>1, <1>2, <1>7, <2>1, <2>2, MoveTyped
  <2>5. ASSUME NEW z, NEW pcs
        PROVE  /\ z \in In(stack'[x], pcs) <=> IF z = Pair(Top(x)) THEN e.pc \in pcs ELSE z \in In(stack[x], pcs)
               /\ Pair(Top(x)) \in In(stack[x], pcs) <=> Top(x).pc \in pcs
    <3>1. /\ stack[x] # <<>> /\ StackInv(stack[x], scope[x].got, Ids) /\ Top(x) = Last(stack[x])
          /\ Pair(e) = Pair(Last(stack[x])) /\ Cut(stack[x], stack'[x], Len(stack[x]), e)
      BY <1>3, <2>1, <2>3 DEF OneCut
    <3>2. /\ z \in In(stack'[x], pcs) <=> IF z = Pair(Last(stack[x])) THEN e.pc \in pcs ELSE z \in In(stack[x], pcs)
          /\ Pair(Last(stack[x])) \in In(stack[x], pcs) <=> Last(stack[x]).pc \in pcs
      BY <3>1, InReplaced
    <3>. QED  BY <3>1, <3>2
  <2>4. ASSUME NEW pcs \in FlightPcs, NEW y \in Procs, NEW z \in Kinds \X Paths
        PROVE  z \in In(stack'[y], pcs) <=> z \in In(stack[y], pcs)
    <3>1. CASE y = x
      BY <1>1, <2>1, <2>5, <3>1
    <3>2. CASE y # x
      BY <2>3, <3>2 DEF OneCut
    <3>. QED  BY <3>1, <3>2
  <2>. QED  BY <1>6, <2>3, <2>4
<1>8. CASE stack' = SetTop(x, [Top(x) EXCEPT !.todo = {}])
  <2>1. PICK e : e = [Top(x) EXCEPT !.todo = {}]
    OBVIOUS
  <2>2. e \in FrameType(Ids) /\ ImportedFrom(Top(x), e) /\ e.todo = {}
    BY <1>3, <2>1, GivenUpTyped
  <2>. QED  BY <1>7, <1>8, <2>1, <2>2
<1>9. CASE stack' = SetTop(x, Imported(Top(x), d, {scope[x].holder[d]}, TRUE))
  <2>0. PICK yes \in BOOLEAN : yes = TRUE
    OBVIOUS
  <2>1. PICK e : e = Imported(Top(x), d, {scope[x].holder[d]}, yes)
    OBVIOUS
  <2>2. {scope[x].holder[d]} \in SUBSET Ids /\ yes \in BOOLEAN
    BY <1>3 DEF ScopeType
  <2>3. e \in FrameType(Ids) /\ ImportedFrom(Top(x), e) /\ e.todo = Top(x).todo \ {d}
    <3>1. PICK g \in FrameType(Ids), ids \in SUBSET Ids : g = Top(x) /\ ids = {scope[x].holder[d]}
      BY <1>3, <2>2
    <3>2. e = Imported(g, d, ids, yes)
      BY <2>1, <3>1
    <3>3. e \in FrameType(Ids) /\ ImportedFrom(g, e) /\ Took(g, d, ids, e)
      BY <2>2, <3>1, <3>2, ImportedTyped
    <3>. QED  BY <3>1, <3>3 DEF Took
  <2>. QED  BY <1>7, <1>9, <2>0, <2>1, <2>3
<1>10. CASE stack' = [stack EXCEPT ![x] = Append(stack[x], Frame(d, "decl", TRUE))]
  <2>0. PICK yes \in BOOLEAN : yes = TRUE
    OBVIOUS
  <2>1. PICK e : e = Frame(d, "decl", yes)
    OBVIOUS
  <2>2. e \in FrameType(Ids) /\ e.pc = "ask" /\ e.path = d /\ e.kind = "decl"
    <3>1. "decl" \in Kinds /\ yes \in BOOLEAN
      BY DEF Kinds
    <3>2. PICK k \in Kinds : k = "decl"
      BY <3>1
    <3>3. e = Frame(d, k, yes)
      BY <2>1, <3>2
    <3>4. e \in FrameType(Ids)
      BY <1>4, <3>2, <3>3, FrameTyped
    <3>. QED  BY <2>1, <3>4 DEF Frame
  <2>3. OneCut(x, Len(stack[x]) + 1, e)
    BY <1>3, <1>10, <2>0, <2>1, PushCut
  <2>4. FrameInv(e, scope'[x].got, Ids')
    BY <1>4, <2>2 DEF FrameInv
  <2>5. CallTyped(x)'
    <3>. DEFINE n == Len(stack[x]) + 1
    <3>1. n - 1 = Len(stack[x])
      BY <1>3
    <3>2. Nested(stack[x][n - 1], e)
      BY <1>1, <1>3, <2>2, <3>1 DEF Nested
    <3>. QED  BY <1>1, <1>2, <1>4, <2>3, <2>4, <3>2, CallCut DEF OneCut
  <2>6. \A y \in Procs \ {x} : CallTyped(y)'
    BY <1>1, <1>2, <1>4, <2>3, CallStays DEF OneCut
  <2>7. CallsTyped'
    BY <1>1, <1>2, <1>4, <2>3, <2>5, <2>6 DEF CallsTyped, CallTyped, OneCut
  <2>8. ASSUME NEW pcs \in FlightPcs, NEW y \in Procs, NEW z \in Kinds \X Paths
        PROVE  z \in In(stack'[y], pcs) <=> z \in In(stack[y], pcs)
    <3>1. CASE y = x
      <4>1. e.pc \notin pcs
        BY <2>2, ThreePcs
      <4>. QED  BY <1>3, <2>3, <3>1, <4>1, InPushed DEF OneCut
    <3>2. CASE y # x
      BY <2>3, <3>2 DEF OneCut
    <3>. QED  BY <3>1, <3>2
  <2>. QED  BY <1>6, <2>7, <2>8
<1>. QED  BY <1>8, <1>9, <1>10 DEF Imports1

-----------------------------------------------------------------------------
(* A registered caller leaves.                                             *)

\* The cache that exitWait leaves: the result pinned, and the birth pin
\* released by the last caller.
Pinned(l, p, res) == IF res = Err THEN l ELSE pin(l, p)
Left(l, p, res, last) == IF last THEN unpinAll(Pinned(l, p, res), Once({p})) ELSE Pinned(l, p, res)
ExitScope(x) == IF Top(x).res = Err THEN scope[x] ELSE ScopePut(x, Top(x).path, Top(x).res, Top(x).kind)
Exits(x, k, p, res) ==
    LET last == waiters[k][p] = 1
    IN  /\ Running(x) /\ Top(x).pc = "exit" /\ UNCHANGED <<flight, ret, canceled, load>>
        /\ waiters' = [waiters EXCEPT ![k][p] = @ - 1]
        /\ lru' = [lru EXCEPT ![k] = Left(lru[k], p, res, last)]
        /\ birth' = IF last THEN [birth EXCEPT ![k][p] = FALSE] ELSE birth
        /\ slips' = slips \cup {s \in {"stolen", "lost"} :
                      \/ s = "stolen" /\ last /\ ~birth[k][p] /\ Pinned(lru[k], p, res).pins[p] > 0
                      \/ s = "lost" /\ res > 0 /\ ~inst[res].failed /\ Pinned(lru[k], p, res).id[p] # res}
        /\ \E n, e : OneCut(x, n, e) /\ ReturnsFrom(x, res, ExitScope(x), n, e)

\* exitWait, by its parts.
LEMMA exitWaitExits ==
    ASSUME CallsTyped, NEW x \in Procs, exitWait(x), NEW k, NEW p, NEW res,
           k = Top(x).kind, p = Top(x).path, res = Top(x).res
    PROVE  Exits(x, k, p, res)
<1>. DEFINE f == Top(x)
            last == waiters[f.kind][f.path] = 1
            pinned == IF f.res = Err THEN lru[f.kind] ELSE pin(lru[f.kind], f.path)
            m == IF last THEN unpinAll(pinned, Once({f.path})) ELSE pinned
            more == {s \in {"stolen", "lost"} :
                      \/ s = "stolen" /\ last /\ ~birth[f.kind][f.path] /\ pinned.pins[f.path] > 0
                      \/ s = "lost" /\ f.res > 0 /\ ~inst[f.res].failed /\ pinned.id[f.path] # f.res}
            sc == IF f.res = Err THEN scope[x] ELSE ScopePut(x, f.path, f.res, f.kind)
<1>1. /\ Running(x) /\ f.pc = "exit" /\ UNCHANGED <<flight, ret, canceled, load>>
      /\ waiters' = [waiters EXCEPT ![f.kind][f.path] = @ - 1]
      /\ lru' = [lru EXCEPT ![f.kind] = m]
      /\ birth' = IF last THEN [birth EXCEPT ![f.kind][f.path] = FALSE] ELSE birth
      /\ slips' = slips \cup more
      /\ Return(x, f.res, sc)
  BY Zenon DEF exitWait, At
<1>2. pinned = Pinned(lru[k], p, res) /\ last = (waiters[k][p] = 1) /\ sc = ExitScope(x)
  BY Zenon DEF Pinned, ExitScope
<1>3. m = Left(lru[k], p, res, waiters[k][p] = 1)
  BY Zenon DEF Left, Pinned
<1>4. more = {s \in {"stolen", "lost"} :
                \/ s = "stolen" /\ waiters[k][p] = 1 /\ ~birth[k][p] /\ Pinned(lru[k], p, res).pins[p] > 0
                \/ s = "lost" /\ res > 0 /\ ~inst[res].failed /\ Pinned(lru[k], p, res).id[p] # res}
  BY Zenon DEF Pinned
<1>. HIDE DEF m, more, sc
<1>5. \E n, e : OneCut(x, n, e) /\ ReturnsFrom(x, f.res, sc, n, e)
  BY <1>1, ReturnCut
<1>. QED  BY <1>1, <1>2, <1>3, <1>4, <1>5, Zenon DEF Exits

\* The cache a caller leaves is in order.
LEMMA LeftOK ==
    ASSUME NEW l, LruOK(l), NEW p \in Paths, NEW res, NEW last \in BOOLEAN
    PROVE  LET h == Pinned(l, p, res)
               m == Left(l, p, res, last)
           IN  /\ LruOK(h) /\ h.id = l.id /\ h.pending = l.pending
               /\ LruOK(m) /\ Shrunk(l, m)
<1>. DEFINE h == Pinned(l, p, res)
<1>1. LruOK(h) /\ h.id = l.id /\ h.pending = l.pending
  BY PinOK DEF Pinned
<1>2. Once({p}) \in [Paths -> Nat]
  BY OnceOK
<1>. HIDE DEF h
<1>3. Shrunk(l, h)
  BY <1>1 DEF Shrunk
<1>. DEFINE u == unpinAll(h, Once({p}))
<1>4. LruOK(u) /\ Shrunk(h, u)
  BY <1>1, <1>2, UnpinOK
<1>. HIDE DEF u
<1>5. Shrunk(l, u)
  BY <1>1, <1>4 DEF Shrunk
<1>6. Left(l, p, res, last) = IF last THEN u ELSE h
  BY Zenon DEF Left, u, h
<1>7. LruOK(Left(l, p, res, last)) /\ Shrunk(l, Left(l, p, res, last))
  BY <1>1, <1>3, <1>4, <1>5, <1>6
<1>. QED  BY <1>1, <1>7 DEF h

\* The scope that a caller leaves with.
LEMMA ExitScopeTyped ==
    ASSUME CallsTyped, StateTyped, NEW x \in Procs, Running(x), Top(x).pc = "exit"
    PROVE  /\ Top(x).res \in Ids \ {None} /\ scope[x].got[Top(x).path] = None
           /\ ExitScope(x) \in ScopeType(Ids)
           /\ \A q \in Paths : q # Top(x).path =>
                ExitScope(x).got[q] = scope[x].got[q] /\ ExitScope(x).via[q] = scope[x].via[q]
<1>1. /\ Top(x).res \in Ids /\ Top(x).res # None /\ scope[x].got[Top(x).path] = None
      /\ Top(x).path \in Paths /\ Top(x).kind \in Kinds /\ scope[x] \in ScopeType(Ids)
  BY TopTyped DEF FrameInv, FrameType
<1>. DEFINE sc == ScopePut(x, Top(x).path, Top(x).res, Top(x).kind)
<1>2. /\ sc \in ScopeType(Ids)
      /\ \A q \in Paths : q # Top(x).path => sc.got[q] = scope[x].got[q] /\ sc.via[q] = scope[x].via[q]
  BY <1>1, ScopePutTyped
<1>3. ExitScope(x) = IF Top(x).res = Err THEN scope[x] ELSE sc
  BY Zenon DEF ExitScope
<1>. HIDE DEF sc
<1>. QED  BY <1>1, <1>2, <1>3

\* One count of waiters changes.
LEMMA WaitersChanged ==
    ASSUME waiters \in [Kinds -> [Paths -> Nat]], NEW k0 \in Kinds, NEW p0 \in Paths,
           waiters[k0][p0] > 0, waiters' = [waiters EXCEPT ![k0][p0] = @ - 1]
    PROVE  /\ waiters' \in [Kinds -> [Paths -> Nat]] /\ waiters'[k0][p0] = waiters[k0][p0] - 1
           /\ \A k \in Kinds : \A p \in Paths : <<k, p>> # <<k0, p0>> => waiters'[k][p] = waiters[k][p]
<1>1. PICK w : w = waiters[k0][p0] - 1
  OBVIOUS
<1>2. w \in Nat /\ waiters' = [waiters EXCEPT ![k0][p0] = w]
  BY <1>1
<1>3. /\ waiters' \in [Kinds -> [Paths -> Nat]] /\ waiters'[k0][p0] = w
      /\ \A k \in Kinds : \A p \in Paths : <<k, p>> # <<k0, p0>> => waiters'[k][p] = waiters[k][p]
  BY <1>2, PlaceChanged
<1>. QED  BY <1>1, <1>3

\* exitWait keeps the types.
LEMMA exitWaitTyped ==
    ASSUME TypeInv, NEW x \in Procs, NEW k0, NEW p0, NEW res,
           k0 = Top(x).kind, p0 = Top(x).path, res = Top(x).res, Exits(x, k0, p0, res)
    PROVE  TypeInv'
<1>a. PICK z : z = <<k0, p0>>
  OBVIOUS
<1>b. PICK last \in BOOLEAN : last = (waiters[k0][p0] = 1)
  OBVIOUS
<1>0. z = <<k0, p0>> /\ (last <=> waiters[k0][p0] = 1)
  BY <1>a, <1>b
<1>1. /\ Running(x) /\ Top(x).pc = "exit" /\ UNCHANGED <<flight, ret, canceled, load>>
      /\ waiters' = [waiters EXCEPT ![k0][p0] = @ - 1]
      /\ birth' = IF last THEN [birth EXCEPT ![k0][p0] = FALSE] ELSE birth
      /\ \E n, e : OneCut(x, n, e) /\ ReturnsFrom(x, res, ExitScope(x), n, e)
  BY <1>0 DEF Exits
<1>2. CallsTyped /\ StateTyped /\ FlightInv /\ canceled' \in SUBSET Procs
  BY <1>1 DEF TypeInv, CallsTyped
<1>3. k0 \in Kinds /\ p0 \in Paths /\ z = Pair(Top(x))
  BY <1>0, <1>1, <1>2, TopTyped DEF Pair
<1>4. /\ res \in Ids \ {None} /\ ExitScope(x) \in ScopeType(Ids)
      /\ \A q \in Paths : q # Top(x).path => ExitScope(x).got[q] = scope[x].got[q]
  BY <1>1, <1>2, ExitScopeTyped
<1>5. PICK sc : sc = ExitScope(x)
  OBVIOUS
<1>6. PICK n, e : OneCut(x, n, e) /\ ReturnsFrom(x, res, sc, n, e)
  BY <1>1, <1>5
<1>7. sc \in ScopeType(Ids) /\ \A q \in Paths : q # Top(x).path => sc.got[q] = scope[x].got[q]
  BY <1>4, <1>5
<1>8. CallsTyped'
  BY <1>1, <1>2, <1>4, <1>6, <1>7, ReturnTyped
<1>9. InstGrows
  BY <1>1, <1>2, <1>4, <1>6, <1>7, ReturnedFrame
<1>10. ASSUME NEW pcs, "close" \notin pcs, NEW v
       PROVE  /\ v \in In(stack'[x], pcs) <=> (v # z /\ v \in In(stack[x], pcs))
              /\ z \in In(stack[x], pcs) <=> "exit" \in pcs
  BY <1>1, <1>2, <1>3, <1>4, <1>6, <1>7, <1>10, ReturnIn
<1>11. /\ "close" \notin Registering /\ "close" \notin Leading /\ "close" \notin {"check"}
       /\ "exit" \in Registering /\ "exit" \notin Leading /\ "exit" \notin {"check"}
  BY DEF Registering, Leading
<1>12. \A y \in Procs \ {x} : stack'[y] = stack[y]
  BY <1>6 DEF OneCut
<1>13. FlightAt(k0, p0) /\ waiters \in [Kinds -> [Paths -> Nat]]
  BY <1>2, <1>3 DEF FlightInv, StateTyped
<1>14. x \in Callers(z, Registering)
  BY <1>10, <1>11 DEF Callers
<1>15. waiters[k0][p0] > 0
  <2>1. Cardinality(Callers(z, Registering)) # 0 /\ Cardinality(Callers(z, Registering)) \in Nat
    BY <1>14, ProcsCounted DEF Callers
  <2>. QED  BY <1>0, <1>13, <2>1 DEF FlightAt
<1>16. /\ waiters' \in [Kinds -> [Paths -> Nat]] /\ waiters'[k0][p0] = waiters[k0][p0] - 1
       /\ \A k \in Kinds : \A p \in Paths : <<k, p>> # <<k0, p0>> => waiters'[k][p] = waiters[k][p]
  BY <1>1, <1>3, <1>13, <1>15, WaitersChanged
<1>17. /\ birth' \in [Kinds -> [Paths -> BOOLEAN]] /\ (last => ~birth'[k0][p0])
       /\ \A k \in Kinds : \A p \in Paths : <<k, p>> # <<k0, p0>> => birth'[k][p] = birth[k][p]
  <2>1. birth \in [Kinds -> [Paths -> BOOLEAN]]
    BY <1>2 DEF StateTyped
  <2>2. CASE ~last
    BY <1>1, <2>1, <2>2
  <2>3. CASE last
    <3>1. birth' = [birth EXCEPT ![k0][p0] = FALSE]
      BY <1>1, <2>3
    <3>2. Cleared(birth, birth', k0, p0)
      BY <1>3, <2>1, <3>1, BirthCleared
    <3>. QED  BY <3>2 DEF Cleared
  <2>. QED  BY <2>2, <2>3
<1>18. /\ LruTyped' /\ \A j \in Kinds : \A p \in Paths : lru[j].id[p] = None => lru'[j].id[p] = None
  <2>. DEFINE m == Left(lru[k0], p0, res, last)
  <2>0. LruOK(lru[k0]) /\ \A p \in Paths : lru[k0].id[p] \in Nat /\ lru[k0].id[p] <= Len(inst)
    BY <1>2, <1>3, LruHere
  <2>1. LruOK(m) /\ Shrunk(lru[k0], m)
    BY <1>3, <2>0, LeftOK
  <2>2. lru' = [lru EXCEPT ![k0] = m]
    <3>. QED  BY <1>b, Zenon DEF Exits
  <2>. HIDE DEF m
  <2>3. \A p \in Paths : m.id[p] <= Len(inst')
    <3>1. Len(inst') \in Nat /\ Len(inst) <= Len(inst') /\ Len(inst) \in Nat
      BY <1>9 DEF InstGrows
    <3>. QED  BY <2>0, <2>1, <3>1 DEF Shrunk, None
  <2>4. LruTyped' /\ lru'[k0] = m /\ \A j \in Kinds : j # k0 => lru'[j] = lru[j]
    BY <1>2, <1>3, <1>9, <2>1, <2>2, <2>3, LruStep
  <2>. QED  BY <2>1, <2>4 DEF Shrunk
<1>19. FlightAt(k0, p0)'
  <2>1. Callers(z, Registering)' = Callers(z, Registering) \ {x}
    <3>1. z \notin In(stack'[x], Registering)
      BY <1>10, <1>11
    <3>2. \A y \in Procs \ {x} : z \in In(stack'[y], Registering) <=> z \in In(stack[y], Registering)
      BY <1>12
    <3>. QED  BY <3>1, <3>2, CallersLeft
  <2>2. Callers(z, Leading)' = Callers(z, Leading)
    <3>1. \A y \in Procs : z \in In(stack'[y], Leading) <=> z \in In(stack[y], Leading)
      BY <1>10, <1>11, <1>12
    <3>. QED  BY <3>1, CallersSame
  <2>3. Callers(z, {"check"})' = Callers(z, {"check"})
    <3>1. \A y \in Procs : z \in In(stack'[y], {"check"}) <=> z \in In(stack[y], {"check"})
      BY <1>10, <1>11, <1>12
    <3>. QED  BY <3>1, CallersSame
  <2>4. Cardinality(Callers(z, Registering) \ {x}) = Cardinality(Callers(z, Registering)) - 1
    BY <1>14, CallersCounted, FS_RemoveElement
  <2>5. birth'[k0][p0] => waiters'[k0][p0] > 0
    BY <1>0, <1>3, <1>13, <1>15, <1>16, <1>17
  <2>6. flight' = flight /\ (lru[k0].id[p0] = None => lru'[k0].id[p0] = None)
    BY <1>1, <1>3, <1>18
  <2>7. waiters'[k0][p0] = Cardinality(Callers(z, Registering)')
    BY <1>0, <1>13, <1>16, <2>1, <2>4 DEF FlightAt
  <2>. QED  BY <1>0, <1>13, <2>2, <2>3, <2>5, <2>6, <2>7 DEF FlightAt
<1>20. FlightInv'
  <2>1. ASSUME NEW k \in Kinds, NEW p \in Paths, <<k, p>> # <<k0, p0>>, NEW pcs \in FlightPcs, NEW y \in Procs
        PROVE  <<k, p>> \in In(stack'[y], pcs) <=> <<k, p>> \in In(stack[y], pcs)
    BY <1>0, <1>10, <1>12, <2>1, ThreePcs
  <2>2. ASSUME NEW k \in Kinds, NEW p \in Paths, <<k, p>> # <<k0, p0>>
        PROVE  /\ \A pcs \in FlightPcs : \A y \in Procs : <<k, p>> \in In(stack'[y], pcs) <=> <<k, p>> \in In(stack[y], pcs)
               /\ waiters'[k][p] = waiters[k][p] /\ flight'[k][p] = flight[k][p] /\ (birth'[k][p] => birth[k][p])
               /\ lru[k].id[p] = None => lru'[k].id[p] = None
    BY <1>1, <1>16, <1>17, <1>18, <2>1, <2>2
  <2>. QED  BY <1>2, <1>3, <1>19, <2>2, OtherFlights
<1>21. StateTyped'
  <2>1. ret' \in [Procs -> Ids']
    BY <1>1, <1>2, <1>9 DEF StateTyped, InstGrows
  <2>. QED  BY <1>1, <1>2, <1>9, <1>16, <1>17, <1>18, <2>1 DEF StateTyped, InstGrows
<1>. QED  BY <1>8, <1>20, <1>21 DEF TypeInv

-----------------------------------------------------------------------------
(* The start and the end of a call.                                        *)

\* No call at all.
LEMMA NoCall ==
    ASSUME NEW got, NEW I
    PROVE  /\ StackInv(<<>>, got, I)
           /\ \A z, pcs : z \notin In(<<>>, pcs)
<1>1. IsSeq(<<>>) /\ Len(<<>>) = 0
  <2>1. <<>> \in Seq({})
    OBVIOUS
  <2>. QED  BY <2>1, SeqOfItsOwn
<1>2. \A n \in 1..0 : FALSE
  OBVIOUS
<1>3. \A n \in 1..(0 - 1) : FALSE
  OBVIOUS
<1>4. StackInv(<<>>, got, I)
  BY <1>1, <1>2, <1>3 DEF StackInv
<1>. QED  BY <1>1, <1>2, <1>4 DEF In

\* The empty scope.
LEMMA NoScopeTyped ==
    ASSUME NEW I, None \in I
    PROVE  NoScope \in ScopeType(I) /\ \A p \in Paths : NoScope.got[p] = None /\ NoScope.via[p] = "none" /\ NoScope.holder[p] = None
BY DEF NoScope, ScopeType, Zero, None

\* The flights of a stack of one frame.
LEMMA InFirst ==
    ASSUME NEW s, NEW t, NEW e, Cut(s, t, 1, e), NEW pcs, NEW z, z \in In(t, pcs)
    PROVE  e.pc \in pcs
<1>1. Len(t) = 1 /\ t[1] = e
  BY DEF Cut
<1>. QED  BY <1>1 DEF In

\* The call of x begins.
Begins(x, e) ==
    /\ stack[x] = <<>> /\ stack' = [stack EXCEPT ![x] = <<e>>] /\ scope' = [scope EXCEPT ![x] = NoScope]
    /\ ret' = [ret EXCEPT ![x] = None] /\ canceled' = canceled \ {x}
    /\ UNCHANGED <<lru, waiters, flight, inst, birth, slips>>

\* A call that begins keeps the types.
LEMMA BeginsTyped ==
    ASSUME TypeInv, NEW x \in Procs, NEW p \in Paths, NEW k \in Kinds, NEW e, e = Frame(p, k, FALSE),
           Begins(x, e), load' \in LoadType
    PROVE  TypeInv'
<1>1. CallsTyped /\ StateTyped /\ FlightInv
  BY DEF TypeInv
<1>2. /\ stack[x] = <<>> /\ stack' = [stack EXCEPT ![x] = <<e>>] /\ scope' = [scope EXCEPT ![x] = NoScope]
      /\ ret' = [ret EXCEPT ![x] = None] /\ canceled' = canceled \ {x}
      /\ UNCHANGED <<lru, waiters, flight, inst, birth, slips>>
  BY DEF Begins
<1>3. InstGrows /\ Ids' = Ids /\ None \in Ids
  BY <1>1, <1>2, InstStays, IdsHere DEF StateTyped
<1>4. OneCut(x, 1, e)
  BY <1>1, <1>2, FirstCut DEF CallsTyped
<1>5. e \in FrameType(Ids) /\ e.pc = "ask"
  <2>0. PICK no \in BOOLEAN : no = FALSE
    OBVIOUS
  <2>1. e = Frame(p, k, no)
    BY <2>0
  <2>2. e \in FrameType(Ids)
    BY <1>3, <2>1, FrameTyped
  <2>. QED  BY <2>2 DEF Frame
<1>6. NoScope \in ScopeType(Ids) /\ scope' \in [Procs -> ScopeType(Ids)] /\ scope'[x] = NoScope
      /\ \A y \in Procs \ {x} : scope'[y] = scope[y]
  BY <1>1, <1>2, <1>3, NoScopeTyped DEF CallsTyped
<1>7. CallTyped(x)'
  <2>1. FrameInv(e, scope'[x].got, Ids')
    BY <1>3, <1>5 DEF FrameInv
  <2>2. \A m \in 1..(1 - 1) : FALSE
    OBVIOUS
  <2>3. ~(1 > 1)
    OBVIOUS
  <2>. QED  BY <1>1, <1>3, <1>4, <2>1, <2>2, <2>3, CallCut DEF OneCut
<1>8. \A y \in Procs \ {x} : CallTyped(y)'
  BY <1>1, <1>3, <1>4, <1>6, CallStays DEF OneCut
<1>9. CallsTyped'
  BY <1>1, <1>2, <1>3, <1>4, <1>6, <1>7, <1>8 DEF CallsTyped, CallTyped, OneCut
<1>10. ASSUME NEW pcs \in FlightPcs, NEW y \in Procs, NEW z \in Kinds \X Paths
       PROVE  z \in In(stack'[y], pcs) <=> z \in In(stack[y], pcs)
  <2>1. CASE y = x
    <3>1. e.pc \notin pcs
      BY <1>5, ThreePcs
    <3>2. z \notin In(stack[x], pcs)
      BY <1>2, NoCall
    <3>3. Cut(stack[x], stack'[x], 1, e)
      BY <1>4 DEF OneCut
    <3>4. z \notin In(stack'[x], pcs)
      BY <3>1, <3>3, InFirst
    <3>. QED  BY <2>1, <3>2, <3>4
  <2>2. CASE y # x
    BY <1>4, <2>2 DEF OneCut
  <2>. QED  BY <2>1, <2>2
<1>11. FlightInv'
  BY <1>1, <1>2, <1>10, FlightsStay
<1>12. ret' \in [Procs -> Ids']
  BY <1>1, <1>2, <1>3 DEF StateTyped
<1>13. LruTyped'
  BY <1>1, <1>2, <1>3, LruStays
<1>14. StateTyped'
  BY <1>1, <1>2, <1>3, <1>12, <1>13 DEF StateTyped, InstGrows
<1>. QED  BY <1>9, <1>11, <1>14 DEF TypeInv

\* closeScope: only the outermost frame is ever at its close.
LEMMA ClosesLast ==
    ASSUME CallsTyped, NEW x \in Procs, Running(x), Top(x).pc = "close"
    PROVE  Len(stack[x]) = 1 /\ \A pcs \in FlightPcs : \A z : z \notin In(stack[x], pcs)
<1>1. /\ stack[x] # <<>> /\ StackInv(stack[x], scope[x].got, Ids) /\ Top(x) = stack[x][Len(stack[x])]
      /\ Len(stack[x]) \in Nat \ {0}
  BY TopTyped
<1>2. Len(stack[x]) = 1
  <2>1. SUFFICES ASSUME Len(stack[x]) # 1 PROVE FALSE
    OBVIOUS
  <2>2. PICK k : k = Len(stack[x]) - 1
    OBVIOUS
  <2>3. k \in 1..(Len(stack[x]) - 1) /\ k + 1 = Len(stack[x])
    <3>1. PICK n \in Nat \ {0} : n = Len(stack[x])
      BY <1>1
    <3>2. n # 1 /\ k = n - 1
      BY <2>1, <2>2, <3>1
    <3>3. k \in 1..(n - 1) /\ k + 1 = n
      BY <3>2
    <3>. QED  BY <3>1, <3>3
  <2>4. Nested(stack[x][k], stack[x][k + 1])
    BY <1>1, <2>3 DEF StackInv
  <2>. QED  BY <1>1, <2>3, <2>4 DEF Nested
<1>3. \A pcs \in FlightPcs : \A m \in 1..Len(stack[x]) : stack[x][m].pc \notin pcs
  BY <1>1, <1>2, ThreePcs
<1>. QED  BY <1>2, <1>3 DEF In

Closes(x) ==
    /\ Running(x) /\ Top(x).pc = "close" /\ UNCHANGED <<waiters, flight, inst, canceled, birth, slips, load>>
    /\ lru' = [k \in Kinds |-> unpinAll(lru[k], Once({p \in Paths : scope[x].via[p] = k}))]
    /\ ret' = [ret EXCEPT ![x] = Top(x).res]
    /\ stack' = [stack EXCEPT ![x] = <<>>]
    /\ scope' = [scope EXCEPT ![x] = NoScope]

\* closeScope keeps the types.
LEMMA closeScopeTyped ==
    ASSUME TypeInv, NEW x \in Procs, Closes(x)
    PROVE  TypeInv' /\ \A k \in Kinds : Shrunk(lru[k], lru'[k])
<1>1. /\ Running(x) /\ Top(x).pc = "close" /\ UNCHANGED <<waiters, flight, inst, canceled, birth, slips, load>>
      /\ ret' = [ret EXCEPT ![x] = Top(x).res] /\ stack' = [stack EXCEPT ![x] = <<>>]
      /\ scope' = [scope EXCEPT ![x] = NoScope]
  BY DEF Closes
<1>2. CallsTyped /\ StateTyped /\ FlightInv
  BY DEF TypeInv
<1>3. InstGrows /\ Ids' = Ids /\ None \in Ids
  BY <1>1, <1>2, InstStays, IdsHere DEF StateTyped
<1>4. /\ DOMAIN stack' = Procs /\ stack'[x] = <<>> /\ \A y \in Procs \ {x} : stack'[y] = stack[y]
      /\ NoScope \in ScopeType(Ids) /\ scope' \in [Procs -> ScopeType(Ids)] /\ scope'[x] = NoScope
      /\ \A y \in Procs \ {x} : scope'[y] = scope[y]
  BY <1>1, <1>2, <1>3, NoScopeTyped DEF CallsTyped
<1>5. CallTyped(x)'
  <2>1. StackInv(<<>>, scope'[x].got, Ids')
    BY NoCall
  <2>. QED  BY <1>4, <2>1 DEF CallTyped
<1>6. \A y \in Procs \ {x} : CallTyped(y)'
  BY <1>2, <1>3, <1>4, CallStays
<1>7. CallsTyped'
  BY <1>1, <1>2, <1>3, <1>4, <1>5, <1>6 DEF CallsTyped, CallTyped
<1>8. ASSUME NEW k \in Kinds
      PROVE  LruOK(lru'[k]) /\ Shrunk(lru[k], lru'[k])
  <2>1. lru'[k] = unpinAll(lru[k], Once({p \in Paths : scope[x].via[p] = k}))
    BY DEF Closes
  <2>2. Once({p \in Paths : scope[x].via[p] = k}) \in [Paths -> Nat]
    BY OnceOK
  <2>3. LruOK(lru[k])
    BY <1>2, LruHere
  <2>. QED  BY <2>1, <2>2, <2>3, UnpinOK
<1>9. LruTyped'
  <2>1. lru' = [k \in Kinds |-> lru'[k]]
    BY DEF Closes
  <2>. QED  BY <1>2, <1>3, <1>8, <2>1, LruShrinks
<1>10. FlightInv'
  <2>1. ASSUME NEW pcs \in FlightPcs, NEW y \in Procs, NEW z \in Kinds \X Paths
        PROVE  z \in In(stack'[y], pcs) <=> z \in In(stack[y], pcs)
    BY <1>1, <1>2, <1>4, ClosesLast, NoCall
  <2>2. \A k \in Kinds : \A p \in Paths : lru[k].id[p] = None => lru'[k].id[p] = None
    BY <1>8 DEF Shrunk
  <2>. QED  BY <1>1, <1>2, <2>1, <2>2, FlightsStay
<1>11. ret' \in [Procs -> Ids']
  <2>1. Top(x).res \in Ids
    BY <1>1, <1>2, TopTyped DEF FrameType
  <2>. QED  BY <1>1, <1>2, <1>3, <2>1 DEF StateTyped
<1>12. StateTyped'
  BY <1>1, <1>2, <1>3, <1>9, <1>11 DEF StateTyped, InstGrows
<1>. QED  BY <1>7, <1>8, <1>10, <1>12 DEF TypeInv

-----------------------------------------------------------------------------
(* The steps that are not a call's own.                                    *)

\* A note made on a frame changes nothing else of it.
Noted(f, g) ==
    /\ f \in FrameType(Ids) => g \in FrameType(Ids)
    /\ g.path = f.path /\ g.kind = f.kind /\ g.pc = f.pc /\ g.todo = f.todo /\ g.ids = f.ids /\ g.failed = f.failed
    /\ g.res = f.res
FramesNoted ==
    /\ DOMAIN stack' = Procs
    /\ \A x \in Procs : /\ stack'[x] = [n \in DOMAIN stack[x] |-> stack'[x][n]]
                        /\ \A n \in DOMAIN stack[x] : Noted(stack[x][n], stack'[x][n])

\* Notes on the frames keep the stacks in shape and the flights they are calls of.
LEMMA NotedTyped ==
    ASSUME CallsTyped, FramesNoted, scope' = scope, canceled' \in SUBSET Procs, Ids' = Ids
    PROVE  /\ CallsTyped'
           /\ \A x \in Procs : \A z, pcs : z \in In(stack'[x], pcs) <=> z \in In(stack[x], pcs)
           /\ \A x \in Procs : stack'[x] = <<>> <=> stack[x] = <<>>
           /\ \A x \in Procs : Len(stack'[x]) = Len(stack[x])
<1>1. ASSUME NEW x \in Procs
      PROVE  /\ IsSeq(stack'[x]) /\ Len(stack'[x]) = Len(stack[x]) /\ (stack'[x] = <<>> <=> stack[x] = <<>>)
             /\ \A n \in 1..Len(stack[x]) : Noted(stack[x][n], stack'[x][n])
  <2>1. IsSeq(stack[x]) /\ stack'[x] = [n \in DOMAIN stack[x] |-> stack'[x][n]]
    BY DEF CallsTyped, StackInv, FramesNoted
  <2>2. /\ IsSeq(stack'[x]) /\ Len(stack'[x]) = Len(stack[x]) /\ DOMAIN stack[x] = 1..Len(stack[x])
        /\ (stack'[x] = <<>> <=> stack[x] = <<>>)
    BY <2>1, Mapped
  <2>. QED  BY <2>2 DEF FramesNoted
<1>2. ASSUME NEW x \in Procs
      PROVE  StackInv(stack'[x], scope[x].got, Ids)
  <2>. DEFINE s == stack[x]
              t == stack'[x]
              l == Len(s)
  <2>1. StackInv(s, scope[x].got, Ids) /\ Len(t) = l /\ IsSeq(t) /\ \A n \in 1..l : Noted(s[n], t[n])
    BY <1>1 DEF CallsTyped
  <2>2. l \in Nat
    BY <2>1, LenProperties DEF StackInv, IsSeq
  <2>. HIDE DEF s, t
  <2>3. \A n \in 1..l : FrameInv(t[n], scope[x].got, Ids)
    BY <2>1 DEF StackInv, Noted, FrameInv
  <2>4. \A n \in 1..(l - 1) : n \in 1..l /\ n + 1 \in 1..l /\ Nested(s[n], s[n + 1])
    BY <2>1, <2>2 DEF StackInv, l
  <2>5. \A n \in 1..(l - 1) : Nested(t[n], t[n + 1])
    BY <2>1, <2>4 DEF Nested, Noted
  <2>6. \A m, n \in 1..l : m < n => Pos(t[m].path) < Pos(t[n].path)
    <3>1. \A m, n \in 1..l : m < n => Pos(s[m].path) < Pos(s[n].path)
      BY <2>1 DEF StackInv, l
    <3>2. \A n \in 1..l : t[n].path = s[n].path
      BY <2>1 DEF Noted
    <3>. QED  BY <3>1, <3>2
  <2>. QED  BY <2>1, <2>3, <2>5, <2>6, Zenon DEF StackInv, t
<1>3. CallsTyped'
  BY <1>1, <1>2 DEF CallsTyped, FramesNoted
<1>4. ASSUME NEW x \in Procs, NEW z, NEW pcs
      PROVE  z \in In(stack'[x], pcs) <=> z \in In(stack[x], pcs)
  <2>. DEFINE s == stack[x]
              t == stack'[x]
  <2>1. Len(t) = Len(s) /\ \A n \in 1..Len(s) : t[n].pc = s[n].pc /\ Pair(t[n]) = Pair(s[n])
    BY <1>1 DEF Noted, Pair
  <2>2. z \in In(s, pcs) <=> \E m \in 1..Len(s) : s[m].pc \in pcs /\ z = Pair(s[m])
    BY DEF In, Pair
  <2>3. z \in In(t, pcs) <=> \E m \in 1..Len(t) : t[m].pc \in pcs /\ z = Pair(t[m])
    BY DEF In, Pair
  <2>. QED  BY <2>1, <2>2, <2>3
<1>. QED  BY <1>1, <1>3, <1>4

\* Nothing but what is asked for, and who gave up, has changed.
LEMMA AskingTyped ==
    ASSUME TypeInv, UNCHANGED <<lru, waiters, flight, inst, scope, stack, ret, birth, slips>>,
           canceled' \in SUBSET Procs, load' \in LoadType
    PROVE  TypeInv'
<1>1. CallsTyped /\ StateTyped /\ FlightInv
  BY DEF TypeInv
<1>2. InstGrows /\ Ids' = Ids
  BY <1>1, InstStays
<1>3. CallsTyped'
  BY <1>1, <1>2 DEF CallsTyped
<1>4. StateTyped'
  <2>1. LruTyped'
    BY <1>1, <1>2, LruStays
  <2>. QED  BY <1>1, <1>2, <2>1 DEF StateTyped, InstGrows
<1>5. FlightInv'
  <2>1. \A pcs \in FlightPcs : \A y \in Procs : \A z \in Kinds \X Paths : z \in In(stack'[y], pcs) <=> z \in In(stack[y], pcs)
    OBVIOUS
  <2>2. \A k \in Kinds : \A p \in Paths : lru[k].id[p] = None => lru'[k].id[p] = None
    OBVIOUS
  <2>. QED  BY <1>1, <2>1, <2>2, FlightsStay
<1>. QED  BY <1>3, <1>4, <1>5 DEF TypeInv

\* What is asked for.
LEMMA LoadTyped ==
    ASSUME load \in LoadType, NEW p \in Paths, NEW k \in Kinds
    PROVE  /\ load.req[k][p] > 0 => [load EXCEPT !.req[k][p] = @ - 1] \in LoadType
           /\ load.exports[p] > 0 => [load EXCEPT !.exports[p] = @ - 1] \in LoadType
<1>1. load.req \in [Kinds -> [Paths -> Nat]] /\ load.exports \in [Paths -> Nat]
  BY DEF LoadType
<1>2. ASSUME load.req[k][p] > 0 PROVE [load EXCEPT !.req[k][p] = @ - 1] \in LoadType
  <2>1. load.req[k][p] - 1 \in Nat
    BY <1>1, <1>2
  <2>2. PICK v \in Nat : v = load.req[k][p] - 1
    BY <2>1
  <2>3. [load.req EXCEPT ![k][p] = v] \in [Kinds -> [Paths -> Nat]]
    BY <1>1, PlaceChanged
  <2>4. PICK r \in [Kinds -> [Paths -> Nat]] : r = [load.req EXCEPT ![k][p] = v]
    BY <2>3
  <2>5. [load EXCEPT !.req = r] \in LoadType
    BY DEF LoadType
  <2>. QED  BY <2>2, <2>4, <2>5
<1>3. ASSUME load.exports[p] > 0 PROVE [load EXCEPT !.exports[p] = @ - 1] \in LoadType
  <2>1. load.exports[p] - 1 \in Nat
    BY <1>1, <1>3
  <2>2. PICK v \in Nat : v = load.exports[p] - 1
    BY <2>1
  <2>3. PICK r \in [Paths -> Nat] : r = [load.exports EXCEPT ![p] = v]
    BY <1>1
  <2>4. [load EXCEPT !.exports = r] \in LoadType
    BY DEF LoadType
  <2>. QED  BY <2>2, <2>3, <2>4
<1>. QED  BY <1>2, <1>3

\* Package keeps the types.
LEMMA PackageTyped ==
    ASSUME TypeInv, NEW x \in Procs, NEW p \in Paths, NEW k \in Kinds, Package(x, p, k)
    PROVE  TypeInv'
<1>1. load \in LoadType
  BY DEF TypeInv, StateTyped
<1>2. load.req[k][p] > 0 /\ load' = [load EXCEPT !.req[k][p] = @ - 1]
  BY Zenon DEF Package
<1>3. load' \in LoadType
  BY <1>1, <1>2, LoadTyped
<1>4. PICK e : e = Frame(p, k, FALSE)
  OBVIOUS
<1>5. Begins(x, e)
  BY <1>4, Zenon DEF Package, Begins, Running
<1>. QED  BY <1>3, <1>4, <1>5, BeginsTyped

\* cancel keeps the types.
LEMMA cancelTyped ==
    ASSUME TypeInv, NEW x \in Procs, cancel(x)
    PROVE  TypeInv'
<1>1. load \in LoadType /\ canceled \in SUBSET Procs
  BY DEF TypeInv, StateTyped, CallsTyped
<1>2. /\ load.cancels > 0 /\ load' = [load EXCEPT !.cancels = @ - 1] /\ canceled' = canceled \cup {x}
      /\ UNCHANGED <<lru, waiters, flight, inst, scope, stack, ret, birth, slips>>
  BY Zenon DEF cancel
<1>3. load' \in LoadType
  <2>1. [load EXCEPT !.cancels = @ - 1] \in LoadType
    BY <1>1, <1>2 DEF LoadType
  <2>. QED  BY <1>2, <2>1
<1>4. canceled' \in SUBSET Procs
  BY <1>1, <1>2
<1>. QED  BY <1>2, <1>3, <1>4, AskingTyped

\* edit keeps the types.
LEMMA editTyped ==
    ASSUME TypeInv, NEW p \in Paths, edit(p)
    PROVE  /\ TypeInv' /\ FramesNoted /\ Ids' = Ids /\ InstGrows
           /\ \A i \in DOMAIN inst : inst'[i].raced = inst[i].raced /\ inst'[i].old = (inst[i].old \/ inst[i].path = p)
           /\ \A x \in Procs : \A n \in 1..Len(stack[x]) :
                  /\ stack'[x][n].raced = stack[x][n].raced
                  /\ stack'[x][n].old => stack[x][n].old \/ stack[x][n].path = p
<1>0. CallsTyped /\ StateTyped /\ FlightInv
  BY DEF TypeInv
<1>1. /\ UNCHANGED <<lru, waiters, flight, scope, ret, canceled, birth, slips>>
      /\ load' = [load EXCEPT !.edits = @ \ {p}, !.deletes = @ \cup {p}]
      /\ inst' = [i \in DOMAIN inst |-> [inst[i] EXCEPT !.old = @ \/ inst[i].path = p]]
      /\ stack' = [x \in Procs |-> [n \in DOMAIN stack[x] |->
                    [stack[x][n] EXCEPT !.old = @ \/ (stack[x][n].path = p /\ stack[x][n].pc = "check")]]]
  BY Zenon DEF edit
<1>2. load' \in LoadType
  <2>1. load \in LoadType
    BY <1>0 DEF StateTyped
  <2>2. [load EXCEPT !.edits = @ \ {p}, !.deletes = @ \cup {p}] \in LoadType
    BY <2>1 DEF LoadType
  <2>. QED  BY <1>1, <2>2
<1>3. IsSeq(inst') /\ Len(inst') = Len(inst) /\ Len(inst) \in Nat /\ DOMAIN inst = 1..Len(inst) /\ DOMAIN inst' = 1..Len(inst)
  <2>1. inst' = [i \in DOMAIN inst |-> inst'[i]] /\ IsSeq(inst)
    BY <1>0, <1>1, Zenon DEF StateTyped
  <2>2. IsSeq(inst') /\ Len(inst') = Len(inst) /\ Len(inst) \in Nat /\ DOMAIN inst = 1..Len(inst)
    BY <2>1, Mapped
  <2>3. DOMAIN inst' = DOMAIN inst
    BY <2>1
  <2>. QED  BY <2>2, <2>3
<1>4. Ids' = Ids
  BY <1>3 DEF Ids
<1>5. ASSUME NEW i \in DOMAIN inst
      PROVE  /\ inst'[i] \in InstType(Ids) /\ inst'[i].path = inst[i].path /\ inst'[i].ids = inst[i].ids
             /\ inst'[i].failed = inst[i].failed /\ inst'[i].raced = inst[i].raced
             /\ inst'[i].old = (inst[i].old \/ inst[i].path = p)
  <2>. DEFINE g(j) == [inst[j] EXCEPT !.old = @ \/ inst[j].path = p]
  <2>1. inst[i] \in InstType(Ids)
    BY <1>0 DEF StateTyped
  <2>2. /\ g(i) \in InstType(Ids) /\ g(i).path = inst[i].path /\ g(i).ids = inst[i].ids
        /\ g(i).failed = inst[i].failed /\ g(i).raced = inst[i].raced /\ g(i).old = (inst[i].old \/ inst[i].path = p)
    BY <2>1 DEF InstType
  <2>. HIDE DEF g
  <2>3. inst' = [j \in DOMAIN inst |-> g(j)]
    BY <1>1, Zenon DEF g
  <2>. QED  BY <2>2, <2>3
<1>6. InstGrows
  BY <1>3, <1>4, <1>5 DEF InstGrows
<1>7. ASSUME NEW x \in Procs
      PROVE  /\ stack'[x] = [n \in DOMAIN stack[x] |-> stack'[x][n]] /\ DOMAIN stack[x] = 1..Len(stack[x])
             /\ \A n \in DOMAIN stack[x] :
                  /\ Noted(stack[x][n], stack'[x][n])
                  /\ stack'[x][n].raced = stack[x][n].raced
                  /\ stack'[x][n].old => stack[x][n].old \/ stack[x][n].path = p
  <2>. DEFINE g(n) == [stack[x][n] EXCEPT !.old = @ \/ (stack[x][n].path = p /\ stack[x][n].pc = "check")]
  <2>1. stack'[x] = [n \in DOMAIN stack[x] |-> g(n)]
    BY <1>1, Zenon
  <2>2. DOMAIN stack[x] = 1..Len(stack[x]) /\ \A n \in 1..Len(stack[x]) : stack[x][n] \in FrameType(Ids)
    BY <1>0, LenProperties DEF CallsTyped, StackInv, IsSeq, FrameInv
  <2>3. \A n \in DOMAIN stack[x] : /\ Noted(stack[x][n], g(n)) /\ g(n).raced = stack[x][n].raced
                                   /\ g(n).old => stack[x][n].old \/ stack[x][n].path = p
    BY <2>2 DEF Noted, FrameType
  <2>. HIDE DEF g
  <2>. QED  BY <2>1, <2>2, <2>3, Zenon
<1>8. FramesNoted
  BY <1>1, <1>7, Zenon DEF FramesNoted
<1>9. /\ CallsTyped' /\ \A x \in Procs : \A z, pcs : z \in In(stack'[x], pcs) <=> z \in In(stack[x], pcs)
  <2>1. canceled' \in SUBSET Procs /\ scope' = scope
    BY <1>0, <1>1 DEF CallsTyped
  <2>. QED  BY <1>0, <1>4, <1>8, <2>1, NotedTyped
<1>10. StateTyped'
  <2>1. LruTyped'
    BY <1>0, <1>1, <1>6, LruStays
  <2>. QED  BY <1>0, <1>1, <1>2, <1>4, <1>6, <2>1 DEF StateTyped, InstGrows
<1>11. FlightInv'
  BY <1>0, <1>1, <1>9, FlightsStay
<1>. QED  BY <1>4, <1>5, <1>6, <1>7, <1>8, <1>9, <1>10, <1>11 DEF TypeInv

\* Delete keeps the types.
LEMMA DeleteTyped ==
    ASSUME TypeInv, NEW p \in Paths, Delete(p)
    PROVE  /\ TypeInv' /\ FramesNoted
           /\ \A x \in Procs : \A n \in 1..Len(stack[x]) :
                  /\ stack'[x][n].old = stack[x][n].old
                  /\ (stack[x][n].old \/ stack[x][n].raced) => stack'[x][n].raced
           /\ \A k \in Kinds : Shrunk(lru[k], lru'[k]) /\ (lru'[k].id[p] # None => p \in lru'[k].pending)
<1>0. CallsTyped /\ StateTyped /\ FlightInv
  BY DEF TypeInv
<1>1. /\ UNCHANGED <<waiters, flight, inst, scope, ret, canceled, birth, slips>>
      /\ load' = [load EXCEPT !.deletes = @ \ {p}]
      /\ lru' = [k \in Kinds |-> lruDelete(lru[k], p)]
      /\ stack' = [x \in Procs |-> [n \in DOMAIN stack[x] |->
                    [stack[x][n] EXCEPT !.raced = @ \/ stack[x][n].old]]]
  BY Zenon DEF Delete
<1>2. load' \in LoadType
  <2>1. load \in LoadType
    BY <1>0 DEF StateTyped
  <2>2. [load EXCEPT !.deletes = @ \ {p}] \in LoadType
    BY <2>1 DEF LoadType
  <2>. QED  BY <1>1, <2>2
<1>3. Ids' = Ids /\ InstGrows
  BY <1>0, <1>1, InstStays
<1>7. ASSUME NEW x \in Procs
      PROVE  /\ stack'[x] = [n \in DOMAIN stack[x] |-> stack'[x][n]] /\ DOMAIN stack[x] = 1..Len(stack[x])
             /\ \A n \in DOMAIN stack[x] :
                  /\ Noted(stack[x][n], stack'[x][n])
                  /\ stack'[x][n].old = stack[x][n].old
                  /\ (stack[x][n].old \/ stack[x][n].raced) => stack'[x][n].raced
  <2>. DEFINE g(n) == [stack[x][n] EXCEPT !.raced = @ \/ stack[x][n].old]
  <2>1. stack'[x] = [n \in DOMAIN stack[x] |-> g(n)]
    BY <1>1, Zenon
  <2>2. DOMAIN stack[x] = 1..Len(stack[x]) /\ \A n \in 1..Len(stack[x]) : stack[x][n] \in FrameType(Ids)
    BY <1>0, LenProperties DEF CallsTyped, StackInv, IsSeq, FrameInv
  <2>3. \A n \in DOMAIN stack[x] : /\ Noted(stack[x][n], g(n)) /\ g(n).old = stack[x][n].old
                                   /\ (stack[x][n].old \/ stack[x][n].raced) => g(n).raced
    BY <2>2 DEF Noted, FrameType
  <2>. HIDE DEF g
  <2>. QED  BY <2>1, <2>2, <2>3, Zenon
<1>8. FramesNoted
  BY <1>1, <1>7, Zenon DEF FramesNoted
<1>9. /\ CallsTyped' /\ \A x \in Procs : \A z, pcs : z \in In(stack'[x], pcs) <=> z \in In(stack[x], pcs)
  <2>1. canceled' \in SUBSET Procs /\ scope' = scope
    BY <1>0, <1>1 DEF CallsTyped
  <2>. QED  BY <1>0, <1>3, <1>8, <2>1, NotedTyped
<1>10. ASSUME NEW k \in Kinds
       PROVE  LruOK(lru'[k]) /\ Shrunk(lru[k], lru'[k]) /\ (lru'[k].id[p] # None => p \in lru'[k].pending)
  <2>1. lru'[k] = lruDelete(lru[k], p)
    BY <1>1, Zenon
  <2>2. LruOK(lru[k])
    BY <1>0, LruHere
  <2>. QED  BY <2>1, <2>2, DeleteOK
<1>11. LruTyped'
  <2>1. lru' = [k \in Kinds |-> lru'[k]]
    BY <1>1, Zenon
  <2>. QED  BY <1>0, <1>3, <1>10, <2>1, LruShrinks
<1>12. StateTyped'
  BY <1>0, <1>1, <1>2, <1>3, <1>11 DEF StateTyped, InstGrows
<1>13. FlightInv'
  <2>1. \A k \in Kinds : \A q \in Paths : lru[k].id[q] = None => lru'[k].id[q] = None
    BY <1>10, ShrunkEmpty
  <2>. QED  BY <1>0, <1>1, <1>9, <2>1, FlightsStay
<1>. QED  BY <1>7, <1>8, <1>9, <1>10, <1>12, <1>13 DEF TypeInv

-----------------------------------------------------------------------------
(* Every step of the specification, as the proofs see it.                  *)

\* A plain provider is asked for no bodies and decodes nothing.
LoadPlain == load.plain => ~load.decode /\ \A p \in Paths : load.req["full"][p] = 0
\* What never changes of what may be asked for.
LoadKept ==
    load' \in LoadType /\ load'.plain = load.plain /\ load'.decode = load.decode /\ load'.deletes = load.deletes
\* Only what is asked for, and who gave up, changes.
Asks ==
    /\ UNCHANGED <<lru, waiters, flight, inst, scope, stack, ret, birth, slips>>
    /\ canceled' \in SUBSET Procs /\ canceled \subseteq canceled' /\ LoadKept
Starts(x, p, k) == (k = "full" => ~load.plain) /\ LoadKept /\ \E e : e = Frame(p, k, FALSE) /\ Begins(x, e)
Returns(x) == \E k, p, res : k = Top(x).kind /\ p = Top(x).path /\ res = Top(x).res /\ Exits(x, k, p, res)
Calls(x) ==
    \/ Lookup(x) \/ enterWait(x) \/ join(x) \/ Leads(x) \/ \E d \in Paths : Imports1(x, d)
    \/ Finishes(x) \/ Returns(x) \/ Closes(x)
Steps ==
    \/ Asks
    \/ \E x \in Procs : Calls(x) \/ \E p \in Paths : \E k \in Kinds : Starts(x, p, k)
    \/ \E p \in Paths : edit(p) \/ Delete(p)
AllInv == ExportInv /\ TypeInv /\ JobsTyped /\ LoadPlain

\* A step of a call is one of Calls.
LEMMA CallStepCalls ==
    ASSUME CallsTyped, NEW x \in Procs, CallStep(x)
    PROVE  Calls(x) /\ load' = load /\ \A y \in Procs : Running(y)' => Running(y)
<1>0. DOMAIN stack = Procs
  BY DEF CallsTyped
<1>1. ASSUME ask(x) \/ tryPin(x)
      PROVE  Lookup(x) /\ load' = load /\ Running(x)
  <2>1. Lookup(x)
    BY <1>1, askLooks, tryPinLooks
  <2>. QED  BY <2>1, Zenon DEF Lookup
<1>2. ASSUME enterWait(x) \/ join(x)
      PROVE  load' = load /\ Running(x)
  BY <1>2, Zenon DEF enterWait, join, At
<1>3. ASSUME lead(x)
      PROVE  Leads(x) /\ load' = load /\ Running(x)
  <2>1. Leads(x)
    BY <1>3, leadLeads
  <2>. QED  BY <2>1, Zenon DEF Leads
<1>4. ASSUME NEW d \in Paths, ImportFrom(x, d)
      PROVE  Imports1(x, d) /\ load' = load /\ Running(x)
  <2>1. Imports1(x, d)
    BY <1>0, <1>4, ImportFromImports
  <2>. QED  BY <2>1, Zenon DEF Imports1
<1>5. ASSUME finishCheck(x)
      PROVE  Finishes(x) /\ load' = load /\ Running(x)
  <2>1. Finishes(x)
    BY <1>5, finishCheckFinishes
  <2>. QED  BY <2>1, Zenon DEF Finishes
<1>6. ASSUME exitWait(x)
      PROVE  Returns(x) /\ load' = load /\ Running(x)
  <2>1. PICK k, p, res : k = Top(x).kind /\ p = Top(x).path /\ res = Top(x).res
    OBVIOUS
  <2>2. Exits(x, k, p, res)
    BY <1>6, <2>1, exitWaitExits
  <2>3. Returns(x)
    BY <2>1, <2>2, Zenon DEF Returns
  <2>. QED  BY <2>2, <2>3, Zenon DEF Exits
<1>7. ASSUME closeScope(x)
      PROVE  Closes(x) /\ load' = load /\ Running(x)
  BY <1>7, Zenon DEF closeScope, Closes, At
<1>8. Calls(x) /\ load' = load /\ Running(x)
  BY <1>1, <1>2, <1>3, <1>4, <1>5, <1>6, <1>7, Zenon DEF CallStep, Calls
<1>9. ASSUME NEW y \in Procs, Running(y)'
      PROVE  Running(y)
  <2>1. SUFFICES ASSUME y # x PROVE stack'[y] # <<>> => stack[y] # <<>>
    BY <1>8, <1>9 DEF Running
  <2>2. ASSUME NEW s, stack' = [stack EXCEPT ![x] = s] PROVE stack'[y] = stack[y]
    BY <1>0, <2>1, <2>2
  <2>3. ASSUME NEW f, stack' = SetTop(x, f) PROVE stack'[y] = stack[y]
    BY <1>0, <2>1, <2>3 DEF SetTop
  <2>4. ASSUME NEW res, NEW sc, Return(x, res, sc) PROVE stack'[y] = stack[y]
    BY <2>2, <2>3, <2>4, Zenon DEF Return
  <2>5. ASSUME NEW res, EndFlight(x, res), stack'[y] # stack[y] PROVE stack[y] # <<>>
    <3>1. /\ DOMAIN stack' = Procs
          /\ \A z \in Procs : ~Gets(x, z) => stack'[z] = stack[z]
      BY <1>8, <2>5, EndFlightEnds, Zenon DEF Ends
    <3>2. Gets(x, y)
      BY <2>5, <3>1
    <3>. QED  BY <2>1, <3>2 DEF Gets, Running
  <2>6. ASSUME NEW k, PinHit(x, k) PROVE stack'[y] = stack[y]
    BY <2>4, <2>6, Zenon DEF PinHit
  <2>7. ASSUME ask(x) \/ tryPin(x) PROVE stack'[y] = stack[y]
    BY <2>3, <2>4, <2>6, <2>7, Zenon DEF ask, tryPin
  <2>8. ASSUME enterWait(x) \/ join(x) \/ exitWait(x) \/ closeScope(x) PROVE stack'[y] = stack[y]
    BY <2>2, <2>3, <2>4, <2>8, Zenon DEF enterWait, join, exitWait, closeScope
  <2>9. ASSUME NEW d \in Paths, ImportFrom(x, d) PROVE stack'[y] = stack[y]
    BY <2>2, <2>9, Zenon DEF ImportFrom
  <2>10. ASSUME lead(x), stack'[y] # stack[y] PROVE stack[y] # <<>>
    <3>1. Leads(x)
      BY <2>10, leadLeads
    <3>. QED  BY <2>3, <2>5, <2>10, <3>1, Zenon DEF Leads
  <2>11. ASSUME finishCheck(x), stack'[y] # stack[y] PROVE stack[y] # <<>>
    BY <2>5, <2>11, Zenon DEF finishCheck
  <2>. QED  BY <2>7, <2>8, <2>9, <2>10, <2>11, Zenon DEF CallStep
<1>. QED  BY <1>8, <1>9

\* The calls under way, and what the export data wants of them.
LEMMA JobsStay ==
    ASSUME JobsTyped, job' = job, \A y \in Procs : Running(y)' => Running(y)
    PROVE  JobsTyped'
BY DEF JobsTyped

\* A step of the export data that leaves the provider alone.
LEMMA ExportAsks ==
    ASSUME AllInv, UNCHANGED depVars
    PROVE  Asks /\ LoadPlain' /\ \A y \in Procs : Running(y)' <=> Running(y)
<1>1. load \in LoadType /\ canceled \in SUBSET Procs
  BY DEF AllInv, TypeInv, StateTyped, CallsTyped
<1>. QED  BY <1>1 DEF AllInv, Asks, LoadKept, LoadPlain, depVars, Running

\* An exporter that ends.
LEMMA EndExportJobs ==
    ASSUME JobsTyped, NEW x \in Procs, ~Running(x), NEW b, EndExport(x, b), \A y \in Procs : Running(y)' <=> Running(y),
           ExportInv
    PROVE  JobsTyped'
<1>1. ASSUME NEW y \in Procs
      PROVE  job'[y] = job[y] \/ (job'[y].pc = "memo" /\ ~Running(y))
  <2>. DEFINE Takes(z) == z = x \/ (job[z].pc = "wait" /\ job[z].path = job[x].path)
  <2>1. job' = [z \in Procs |-> IF Takes(z) THEN Answered(job[z], "memo", b) ELSE job[z]]
    BY Zenon DEF EndExport
  <2>2. Takes(y) => ~Running(y)
    BY DEF JobsTyped
  <2>3. Answered(job[y], "memo", b).pc = "memo"
    BY AnsweredOK DEF ExportInv
  <2>. HIDE DEF Takes
  <2>. QED  BY <2>1, <2>2, <2>3
<1>. QED  BY <1>1 DEF JobsTyped, JobPcs

\* One export call goes on.
LEMMA OneJob ==
    ASSUME JobsTyped, ExportInv, NEW x \in Procs, ~Running(x), NEW j, j.pc \in JobPcs, job' = [job EXCEPT ![x] = j],
           \A y \in Procs : Running(y)' <=> Running(y)
    PROVE  JobsTyped'
BY DEF JobsTyped, ExportInv

\* A step of an exporter, as a step of its call.
LEMMA ExportSteps ==
    ASSUME AllInv, NEW x \in Procs, ExportStep(x)
    PROVE  Steps /\ JobsTyped' /\ LoadPlain'
<1>0. JobsTyped /\ ExportInv /\ DOMAIN job = Procs /\ JobOK(job[x])
  BY DEF AllInv, ExportInv
<1>1. ASSUME resolve(x) PROVE Asks /\ JobsTyped' /\ LoadPlain'
  <2>1. UNCHANGED depVars /\ ~Running(x)
    BY <1>0, <1>1 DEF resolve, JobsTyped
  <2>2. PICK j : j = job'[x]
    OBVIOUS
  <2>3. job' = [job EXCEPT ![x] = j] /\ j.pc \in JobPcs
    <3>1. job' = [job EXCEPT ![x] = Answered(@, "done", memo[job[x].path])]
          \/ job' = [job EXCEPT ![x] = Answered(@, "memo", cas[job[x].path])]
          \/ job' = [job EXCEPT ![x] = [@ EXCEPT !.pc = "do"]]
      BY <1>1, Zenon DEF resolve
    <3>. DEFINE j1 == Answered(job[x], "done", memo[job[x].path])
                j2 == Answered(job[x], "memo", cas[job[x].path])
                j3 == [job[x] EXCEPT !.pc = "do"]
    <3>2. j1.pc = "done" /\ j2.pc = "memo" /\ j3.pc = "do"
      <4>1. j1.pc = "done" /\ j2.pc = "memo"
        BY <1>0, AnsweredOK
      <4>2. j3.pc = "do"
        BY <1>0 DEF JobOK
      <4>. QED  BY <4>1, <4>2
    <3>3. job' = [job EXCEPT ![x] = j1] \/ job' = [job EXCEPT ![x] = j2] \/ job' = [job EXCEPT ![x] = j3]
      BY <3>1
    <3>. HIDE DEF j1, j2, j3
    <3>. QED  BY <1>0, <2>2, <3>2, <3>3 DEF JobPcs
  <2>4. \A y \in Procs : Running(y)' <=> Running(y)
    BY <2>1, ExportAsks
  <2>5. JobsTyped'
    BY <1>0, <2>1, <2>3, <2>4, OneJob
  <2>. QED  BY <2>1, <2>5, ExportAsks
<1>2. ASSUME joinExport(x) PROVE Asks /\ JobsTyped' /\ LoadPlain'
  <2>1. UNCHANGED depVars /\ ~Running(x)
    BY <1>0, <1>2 DEF joinExport, JobsTyped
  <2>2. PICK j : j = job'[x]
    OBVIOUS
  <2>3. job' = [job EXCEPT ![x] = j] /\ j.pc \in JobPcs
    <3>1. job' = [job EXCEPT ![x].pc = "wait"] \/ job' = [job EXCEPT ![x].pc = "lead"]
      BY <1>2, Zenon DEF joinExport
    <3>. QED  BY <1>0, <2>2, <3>1 DEF JobPcs, JobOK
  <2>4. \A y \in Procs : Running(y)' <=> Running(y)
    BY <2>1, ExportAsks
  <2>5. JobsTyped'
    BY <1>0, <2>1, <2>3, <2>4, OneJob
  <2>. QED  BY <2>1, <2>5, ExportAsks
<1>3. ASSUME leadExport(x) PROVE Steps /\ JobsTyped' /\ LoadPlain'
  <2>1. ~Running(x) /\ job[x].path \in Paths /\ job[x].pc = "lead"
    BY <1>0, <1>3 DEF leadExport, JobsTyped, JobOK
  <2>2. UNCHANGED <<lru, waiters, flight, inst, birth, slips, load, cas, memo>>
    BY <1>3, Zenon DEF leadExport
  <2>3. CASE cas[job[x].path] # NoBlob
    <3>1. EndExport(x, cas[job[x].path]) /\ UNCHANGED <<stack, scope, ret, canceled>>
      BY <1>3, <2>3, Zenon DEF leadExport
    <3>2. UNCHANGED depVars
      BY <2>2, <3>1 DEF depVars
    <3>3. Asks /\ LoadPlain' /\ \A y \in Procs : Running(y)' <=> Running(y)
      BY <3>2, ExportAsks
    <3>4. JobsTyped'
      BY <1>0, <2>1, <3>1, <3>3, EndExportJobs
    <3>. QED  BY <3>3, <3>4 DEF Steps
  <2>4. CASE cas[job[x].path] = NoBlob
    <3>1. PICK p \in Paths : p = job[x].path
      BY <2>1
    <3>2. PICK e : e = Frame(p, "decl", FALSE)
      OBVIOUS
    <3>3. /\ job' = [job EXCEPT ![x].pc = "check"] /\ stack' = [stack EXCEPT ![x] = <<e>>]
          /\ scope' = [scope EXCEPT ![x] = NoScope] /\ ret' = [ret EXCEPT ![x] = None] /\ canceled' = canceled \ {x}
      BY <1>3, <2>4, <3>1, <3>2, Zenon DEF leadExport
    <3>4. Begins(x, e)
      BY <2>1, <2>2, <3>3, Zenon DEF Begins, Running
    <3>5. LoadKept /\ LoadPlain'
      BY <2>2 DEF AllInv, TypeInv, StateTyped, LoadKept, LoadPlain
    <3>6. "decl" \in Kinds /\ ("decl" = "full" => ~load.plain)
      BY DEF Kinds
    <3>7. Starts(x, p, "decl")
      BY <3>2, <3>4, <3>5, <3>6, Zenon DEF Starts
    <3>8. \A y \in Procs : /\ y # x => job'[y] = job[y] /\ (Running(y)' <=> Running(y))
                           /\ job'[x].pc = "check"
      BY <1>0, <3>3 DEF JobOK, Running, ExportInv, CallInv
    <3>9. JobsTyped'
      BY <1>0, <3>8 DEF JobsTyped, JobPcs
    <3>. QED  BY <3>5, <3>6, <3>7, <3>9, Zenon DEF Steps
  <2>. QED  BY <2>3, <2>4
<1>4. ASSUME persist(x) PROVE Asks /\ JobsTyped' /\ LoadPlain'
  <2>1. UNCHANGED depVars /\ ~Running(x) /\ \E b : EndExport(x, b)
    BY <1>4, Zenon DEF persist
  <2>2. \A y \in Procs : Running(y)' <=> Running(y)
    BY <2>1, ExportAsks
  <2>3. JobsTyped'
    BY <1>0, <2>1, <2>2, EndExportJobs
  <2>. QED  BY <2>1, <2>3, ExportAsks
<1>5. ASSUME memoize(x) PROVE Asks /\ JobsTyped' /\ LoadPlain'
  <2>1. UNCHANGED depVars /\ ~Running(x)
    BY <1>0, <1>5 DEF memoize, JobsTyped
  <2>2. PICK b : job' = [job EXCEPT ![x] = Answered(@, "done", b)]
    BY <1>5, Zenon DEF memoize
  <2>3. PICK j : j = Answered(job[x], "done", b)
    OBVIOUS
  <2>4. j.pc \in JobPcs
    BY <1>0, <2>3, AnsweredOK DEF JobPcs
  <2>5. job' = [job EXCEPT ![x] = j]
    BY <2>2, <2>3
  <2>6. \A y \in Procs : Running(y)' <=> Running(y)
    BY <2>1, ExportAsks
  <2>7. JobsTyped'
    BY <1>0, <2>1, <2>4, <2>5, <2>6, OneJob
  <2>. QED  BY <2>1, <2>7, ExportAsks
<1>6. ASSUME takeAnswer(x) PROVE Asks /\ JobsTyped' /\ LoadPlain'
  <2>1. UNCHANGED depVars /\ ~Running(x) /\ job' = [job EXCEPT ![x] = JobIdle]
    BY <1>0, <1>6 DEF takeAnswer, JobsTyped
  <2>2. JobIdle.pc \in JobPcs
    BY DEF JobIdle, JobPcs
  <2>3. \A y \in Procs : Running(y)' <=> Running(y)
    BY <2>1, ExportAsks
  <2>4. JobsTyped'
    BY <1>0, <2>1, <2>2, <2>3, OneJob
  <2>. QED  BY <2>1, <2>4, ExportAsks
<1>. QED  BY <1>1, <1>2, <1>3, <1>4, <1>5, <1>6, Zenon DEF ExportStep, Steps

\* Every step is one of Steps.
LEMMA StepsAre ==
    ASSUME AllInv, Next
    PROVE  Steps /\ JobsTyped' /\ LoadPlain'
<1>0. CallsTyped /\ StateTyped /\ JobsTyped /\ ExportInv /\ LoadPlain /\ load \in LoadType
  BY DEF AllInv, TypeInv, StateTyped
<1>1. ASSUME NEW x \in Procs, ExportStep(x) PROVE Steps /\ JobsTyped' /\ LoadPlain'
  BY <1>1, ExportSteps
<1>2. ASSUME NEW x \in Procs, CallStep(x), UNCHANGED exportVars PROVE Steps /\ JobsTyped' /\ LoadPlain'
  <2>1. Calls(x) /\ load' = load /\ \A y \in Procs : Running(y)' => Running(y)
    BY <1>0, <1>2, CallStepCalls
  <2>2. job' = job
    BY <1>2 DEF exportVars
  <2>3. LoadPlain'
    BY <1>0, <2>1 DEF LoadPlain
  <2>. QED  BY <1>0, <2>1, <2>2, <2>3, JobsStay DEF Steps
<1>3. ASSUME NEW x \in Procs, cancel(x), UNCHANGED exportVars PROVE Steps /\ JobsTyped' /\ LoadPlain'
  <2>1. /\ UNCHANGED <<lru, waiters, flight, inst, scope, stack, ret, birth, slips>>
        /\ canceled' = canceled \cup {x} /\ load.cancels > 0 /\ load' = [load EXCEPT !.cancels = @ - 1]
    BY <1>3, Zenon DEF cancel
  <2>2. LoadKept /\ load'.req = load.req
    BY <1>0, <2>1 DEF LoadKept, LoadType
  <2>3. canceled' \in SUBSET Procs /\ canceled \subseteq canceled'
    BY <1>0, <2>1 DEF CallsTyped
  <2>4. Asks
    BY <2>1, <2>2, <2>3, Zenon DEF Asks
  <2>5. LoadPlain'
    BY <1>0, <2>2 DEF LoadPlain, LoadKept
  <2>6. JobsTyped'
    BY <1>0, <1>3, <2>1 DEF JobsTyped, Running, exportVars
  <2>. QED  BY <2>4, <2>5, <2>6 DEF Steps
<1>4. ASSUME NEW x \in Procs, NEW p \in Paths, ExportData(x, p) PROVE Steps /\ JobsTyped' /\ LoadPlain'
  <2>1. /\ UNCHANGED <<lru, waiters, flight, inst, scope, stack, ret, canceled, birth, slips>>
        /\ ~Running(x) /\ load.exports[p] > 0 /\ load' = [load EXCEPT !.exports[p] = @ - 1]
    BY <1>4, Zenon DEF ExportData
  <2>2. load' \in LoadType
    <3>1. load.exports[p] > 0 => [load EXCEPT !.exports[p] = @ - 1] \in LoadType
      BY <1>0, LoadTyped DEF Kinds
    <3>. QED  BY <2>1, <3>1
  <2>3. LoadKept /\ load'.req = load.req
    BY <1>0, <2>1, <2>2 DEF LoadKept, LoadType
  <2>4. Asks
    BY <1>0, <2>1, <2>3 DEF Asks, CallsTyped
  <2>5. LoadPlain'
    BY <1>0, <2>3 DEF LoadPlain, LoadKept
  <2>6. job' = [job EXCEPT ![x] = [JobIdle EXCEPT !.pc = "ask", !.path = p]]
    BY <1>4, Zenon DEF ExportData
  <2>7. PICK j : j = [JobIdle EXCEPT !.pc = "ask", !.path = p]
    OBVIOUS
  <2>8. j.pc \in JobPcs /\ job' = [job EXCEPT ![x] = j]
    BY <2>6, <2>7 DEF JobIdle, JobPcs
  <2>9. \A y \in Procs : Running(y)' <=> Running(y)
    BY <2>1 DEF Running
  <2>10. JobsTyped'
    BY <1>0, <2>1, <2>8, <2>9, OneJob
  <2>. QED  BY <2>4, <2>5, <2>10 DEF Steps
<1>5. ASSUME NEW x \in Procs, NEW p \in Paths, NEW k \in Kinds, job[x].pc = "idle", Package(x, p, k), UNCHANGED exportVars
      PROVE  Steps /\ JobsTyped' /\ LoadPlain'
  <2>1. load.req[k][p] > 0 /\ load' = [load EXCEPT !.req[k][p] = @ - 1] /\ stack' = [stack EXCEPT ![x] = <<Frame(p, k, FALSE)>>]
    BY <1>5, Zenon DEF Package
  <2>2. load' \in LoadType
    BY <1>0, <2>1, LoadTyped
  <2>3. /\ LoadKept
        /\ \A j \in Kinds : \A q \in Paths : load'.req[j][q] = load.req[j][q] \/ (j = k /\ q = p)
    BY <1>0, <2>1, <2>2 DEF LoadKept, LoadType
  <2>4. "full" \in Kinds /\ (k = "full" => ~load.plain)
    BY <1>0, <2>1 DEF LoadPlain, Kinds
  <2>5. PICK e : e = Frame(p, k, FALSE)
    OBVIOUS
  <2>6. Begins(x, e)
    BY <1>5, <2>5, Zenon DEF Package, Begins, Running
  <2>7. Starts(x, p, k)
    BY <2>3, <2>4, <2>5, <2>6, Zenon DEF Starts
  <2>8. LoadPlain'
    BY <1>0, <2>3, <2>4 DEF LoadPlain, LoadKept
  <2>9. JobsTyped'
    <3>1. DOMAIN stack = Procs /\ \A y \in Procs : y # x => (Running(y)' <=> Running(y))
      BY <1>0, <2>1 DEF CallsTyped, Running
    <3>. QED  BY <1>0, <1>5, <3>1 DEF JobsTyped, exportVars
  <2>. QED  BY <2>7, <2>8, <2>9, Zenon DEF Steps
<1>6. ASSUME NEW p \in Paths, edit(p) \/ Delete(p), UNCHANGED exportVars PROVE Steps /\ JobsTyped' /\ LoadPlain'
  <2>1. /\ load' = [load EXCEPT !.edits = @ \ {p}, !.deletes = @ \cup {p}]
           \/ load' = [load EXCEPT !.deletes = @ \ {p}]
        /\ scope' = scope /\ canceled' = canceled
    BY <1>6, Zenon DEF edit, Delete
  <2>2. load'.plain = load.plain /\ load'.decode = load.decode /\ load'.req = load.req
    BY <1>0, <2>1 DEF LoadType
  <2>3. LoadPlain'
    BY <1>0, <2>2 DEF LoadPlain
  <2>4. FramesNoted
    BY <1>0, <1>6, editTyped, DeleteTyped DEF AllInv
  <2>5. Ids' = Ids
    <3>1. edit(p) => Ids' = Ids
      BY <1>0, editTyped DEF AllInv
    <3>2. Delete(p) => inst' = inst
      BY Zenon DEF Delete
    <3>. QED  BY <1>6, <3>1, <3>2 DEF Ids
  <2>6. \A x \in Procs : stack'[x] = <<>> <=> stack[x] = <<>>
    BY <1>0, <2>1, <2>4, <2>5, NotedTyped DEF CallsTyped
  <2>7. JobsTyped'
    <3>1. \A y \in Procs : Running(y)' => Running(y)
      BY <2>6 DEF Running
    <3>2. job' = job
      BY <1>6 DEF exportVars
    <3>. QED  BY <1>0, <3>1, <3>2, JobsStay
  <2>. QED  BY <1>6, <2>3, <2>7 DEF Steps
<1>. QED  BY <1>1, <1>2, <1>3, <1>4, <1>5, <1>6, Zenon DEF Next

\* Every step keeps the types of the calls.
LEMMA CallsTypedStep ==
    ASSUME TypeInv, NEW x \in Procs, Calls(x)
    PROVE  TypeInv'
<1>1. CASE Returns(x)
  <2>1. PICK k, p, res : k = Top(x).kind /\ p = Top(x).path /\ res = Top(x).res /\ Exits(x, k, p, res)
    BY <1>1 DEF Returns
  <2>. QED  BY <2>1, exitWaitTyped
<1>. QED  BY <1>1, LookupTyped, enterWaitTyped, joinTyped, leadTyped, ImportFromTyped, finishCheckTyped, closeScopeTyped DEF Calls

\* Every step keeps the types.
LEMMA StepsTyped ==
    ASSUME TypeInv, Steps
    PROVE  TypeInv'
<1>1. ASSUME NEW x \in Procs, NEW p \in Paths, NEW k \in Kinds, Starts(x, p, k) PROVE TypeInv'
  <2>1. PICK e : e = Frame(p, k, FALSE) /\ Begins(x, e)
    BY <1>1 DEF Starts
  <2>2. load' \in LoadType
    BY <1>1, Zenon DEF Starts, LoadKept
  <2>. QED  BY <2>1, <2>2, BeginsTyped
<1>2. CASE Asks
  <2>1. /\ UNCHANGED <<lru, waiters, flight, inst, scope, stack, ret, birth, slips>>
        /\ canceled' \in SUBSET Procs /\ load' \in LoadType
    BY <1>2, Zenon DEF Asks, LoadKept
  <2>. QED  BY <2>1, AskingTyped
<1>. QED  BY <1>1, <1>2, CallsTypedStep, editTyped, DeleteTyped, Zenon DEF Steps

\* The initial state is typed.
LEMMA InitTyped == Init => TypeInv /\ JobsTyped /\ LoadPlain
<1>. SUFFICES ASSUME Init PROVE TypeInv /\ JobsTyped /\ LoadPlain
  OBVIOUS
<1>1. /\ load \in Loads /\ lru = [k \in Kinds |-> EmptyLRU] /\ waiters = [k \in Kinds |-> Zero]
      /\ flight = [k \in Kinds |-> [p \in Paths |-> FALSE]] /\ inst = <<>> /\ scope = [x \in Procs |-> NoScope]
      /\ stack = [x \in Procs |-> <<>>] /\ ret = [x \in Procs |-> None] /\ canceled = {}
      /\ birth = [k \in Kinds |-> [p \in Paths |-> FALSE]]
  BY Zenon DEF Init, DepInit
<1>2. load \in LoadType /\ LoadPlain
  BY <1>1, LoadsAssumption, PlainAssumption DEF LoadType, LoadPlain
<1>3. IsSeq(inst) /\ Len(inst) = 0
  <2>1. inst \in Seq({}) /\ Len(inst) = 0
    BY <1>1
  <2>. QED  BY <2>1, SeqOfItsOwn
<1>4. None \in Ids /\ DOMAIN inst = {}
  BY <1>1, <1>3, IdsHere
<1>5. LruOK(EmptyLRU) /\ \A p \in Paths : EmptyLRU.id[p] = 0
  BY DEF LruOK, LruType, ListOK, Cached, EmptyLRU, Zero, None
<1>6. LruTyped
  <2>1. \A k \in Kinds : lru[k] = EmptyLRU
    BY <1>1
  <2>2. EmptyLRU \in LruType
    BY <1>5 DEF LruOK
  <2>. QED  BY <1>1, <1>3, <1>5, <2>1, <2>2 DEF LruTyped
<1>7. CallsTyped
  <2>1. NoScope \in ScopeType(Ids)
    BY <1>4, NoScopeTyped
  <2>2. \A x \in Procs : StackInv(stack[x], scope[x].got, Ids)
    BY <1>1, NoCall
  <2>. QED  BY <1>1, <2>1, <2>2 DEF CallsTyped
<1>8. StateTyped
  <2>1. Zero \in [Paths -> Nat]
    BY DEF Zero
  <2>. QED  BY <1>1, <1>2, <1>3, <1>4, <1>6, <2>1 DEF StateTyped
<1>9. FlightInv
  <2>1. ASSUME NEW k \in Kinds, NEW p \in Paths PROVE FlightAt(k, p)
    <3>1. \A pcs : Callers(<<k, p>>, pcs) = {}
      BY <1>1, NoCall DEF Callers
    <3>2. waiters[k][p] = 0 /\ ~flight[k][p] /\ ~birth[k][p]
      BY <1>1 DEF Zero
    <3>3. Cardinality({}) = 0
      BY FS_EmptySet
    <3>. QED  BY <3>1, <3>2, <3>3 DEF FlightAt
  <2>. QED  BY <2>1 DEF FlightInv
<1>10. JobsTyped
  BY <1>1 DEF Init, JobsTyped, Running, JobIdle, JobPcs
<1>. QED  BY <1>2, <1>7, <1>8, <1>9, <1>10 DEF TypeInv

\* AllInv is inductive.
LEMMA AllStep == AllInv /\ [Next]_vars => AllInv'
<1>. SUFFICES ASSUME AllInv, [Next]_vars PROVE AllInv'
  OBVIOUS
<1>1. ExportInv'
  BY StepExport DEF AllInv
<1>2. CASE Next
  <2>1. Steps /\ JobsTyped' /\ LoadPlain'
    BY <1>2, StepsAre
  <2>2. TypeInv'
    BY <2>1, StepsTyped DEF AllInv
  <2>. QED  BY <1>1, <2>1, <2>2 DEF AllInv
<1>3. CASE UNCHANGED vars
  <2>1. Asks /\ LoadPlain' /\ \A y \in Procs : Running(y)' <=> Running(y)
    BY <1>3, ExportAsks DEF vars
  <2>2. TypeInv'
    BY <2>1, StepsTyped DEF AllInv, Steps
  <2>3. JobsTyped'
    BY <1>3, <2>1, JobsStay DEF AllInv, vars, exportVars
  <2>. QED  BY <1>1, <2>1, <2>2, <2>3 DEF AllInv
<1>. QED  BY <1>2, <1>3

\* AllInv holds always.
LEMMA AllAlways == Spec => []AllInv
<1>1. Init => AllInv
  BY InitExport, InitTyped DEF AllInv
<1>. QED  BY <1>1, AllStep, PTL DEF Spec

\* Each cache's list holds each cached path in one place and nothing else,
\* deletes are only ever put off for entries that are pinned, the callers
\* around a flight are never more than the goroutines there are, and every
\* package refers to packages that were made: for any number of goroutines,
\* any import graph and any capacity of the caches, whatever the interleaving.
THEOREM TypeOKHolds == Spec => []TypeOK
<1>1. AllInv => TypeOK
  <2>. SUFFICES ASSUME AllInv PROVE TypeOK
    OBVIOUS
  <2>1. CallsTyped /\ StateTyped /\ FlightInv /\ JobsTyped
    BY DEF AllInv, TypeInv
  <2>2. ASSUME NEW k \in Kinds
        PROVE  /\ ListOK(lru[k])
               /\ lru[k].id \in [Paths -> 0..Len(inst)] /\ lru[k].pins \in [Paths -> Nat]
               /\ lru[k].pending \subseteq {p \in Paths : lru[k].pins[p] > 0}
               /\ waiters[k] \in [Paths -> 0..Cardinality(Procs)]
    <3>1. LruOK(lru[k]) /\ lru[k] \in LruType /\ \A p \in Paths : lru[k].id[p] \in Nat /\ lru[k].id[p] <= Len(inst)
      BY <2>1, LruHere
    <3>2. Len(inst) \in Nat
      BY <2>1, IdsHere DEF StateTyped
    <3>3. lru[k].id \in [Paths -> 0..Len(inst)]
      BY <3>1, <3>2 DEF LruType
    <3>4. ASSUME NEW p \in Paths PROVE waiters[k][p] \in 0..Cardinality(Procs)
      <4>1. waiters[k][p] = Cardinality(Callers(<<k, p>>, Registering))
        BY <2>1 DEF FlightInv, FlightAt
      <4>2. Callers(<<k, p>>, Registering) \in SUBSET Procs
        BY CallersCounted
      <4>3. /\ Cardinality(Callers(<<k, p>>, Registering)) <= Cardinality(Procs)
            /\ Cardinality(Callers(<<k, p>>, Registering)) \in Nat /\ Cardinality(Procs) \in Nat
        BY <4>2, ProcsAssumption, FS_Subset, FS_CardinalityType
      <4>. QED  BY <4>1, <4>3
    <3>5. waiters[k] \in [Paths -> 0..Cardinality(Procs)]
      <4>1. waiters[k] \in [Paths -> Nat]
        BY <2>1 DEF StateTyped
      <4>. QED  BY <3>4, <4>1
    <3>. QED  BY <3>1, <3>3, <3>5 DEF LruOK, LruType
  <2>3. ASSUME NEW x \in Procs
        PROVE  scope[x].got \in [Paths -> Ids] /\ ret[x] \in Ids
               /\ job[x].pc \in {"idle", "ask", "do", "wait", "lead", "check", "memo", "done"}
    BY <2>1 DEF CallsTyped, ScopeType, StateTyped, JobsTyped, JobPcs
  <2>4. \A i \in DOMAIN inst : inst[i].path \in Paths /\ inst[i].ids \subseteq Ids
    BY <2>1 DEF StateTyped, InstType
  <2>. QED  BY <2>2, <2>3, <2>4 DEF TypeOK
<1>. QED  BY <1>1, AllAlways, PTL

-----------------------------------------------------------------------------
(* What one step does to the frames, the packages and the caches.          *)

\* A frame whose check saw what another's did, or a frame that saw nothing,
\* which has no bodies checked unless the first one may.
SameSource(f, e) == e.path = f.path /\ e.kind = f.kind /\ (e.old => f.old) /\ (f.raced => e.raced)
Fresh(e) == ~e.old /\ (load.plain => e.kind = "decl")
FramesGoOn(s, t) == \A n \in 1..Len(t) : Fresh(t[n]) \/ (n \in 1..Len(s) /\ SameSource(s[n], t[n]))
\* The packages there are stay as they are.
InstKept == InstGrows /\ \A i \in DOMAIN inst : inst'[i] = inst[i]
LrusShrink == \A k \in Kinds : Shrunk(lru[k], lru'[k])

\* A cache that keeps its entries.
LEMMA ShrunkSame ==
    ASSUME NEW l, NEW m, m.id = l.id, m.pending = l.pending
    PROVE  Shrunk(l, m)
BY DEF Shrunk

\* The frames of a cut stack go on from what they were.
LEMMA CutGoesOn ==
    ASSUME NEW s, NEW t, NEW n, NEW e, Cut(s, t, n, e), Fresh(e) \/ (n \in 1..Len(s) /\ SameSource(s[n], e))
    PROVE  FramesGoOn(s, t)
<1>1. /\ Len(t) = n /\ n \in Nat \ {0} /\ n - 1 <= Len(s) /\ Len(s) \in Nat /\ t[n] = e
      /\ \A i \in 1..(n - 1) : t[i] = s[i]
  BY DEF Cut
<1>2. ASSUME NEW i \in 1..n PROVE Fresh(t[i]) \/ (i \in 1..Len(s) /\ SameSource(s[i], t[i]))
  <2>1. CASE i = n
    BY <1>1, <2>1
  <2>2. CASE i # n
    <3>1. i \in 1..(n - 1) /\ i \in 1..Len(s)
      BY <1>1, <2>2
    <3>. QED  BY <1>1, <3>1 DEF SameSource
  <2>. QED  BY <2>1, <2>2
<1>. QED  BY <1>1, <1>2 DEF FramesGoOn

\* The frames of a stack that stays go on.
LEMMA StaysOn ==
    ASSUME NEW s, NEW t, t = s
    PROVE  FramesGoOn(s, t)
BY DEF FramesGoOn, SameSource

\* A call that returns.
LEMMA ReturnGoesOn ==
    ASSUME CallsTyped, StateTyped, NEW x \in Procs, Running(x), NEW res \in Ids \ {None}, NEW sc \in ScopeType(Ids),
           NEW n, NEW e, ReturnsFrom(x, res, sc, n, e), OneCut(x, n, e)
    PROVE  InstKept /\ \A y \in Procs : FramesGoOn(stack[y], stack'[y])
<1>1. /\ InstGrows /\ \A i \in DOMAIN inst : inst'[i] = inst[i]
      /\ \/ Len(stack[x]) = 1 /\ n = Len(stack[x]) /\ e = Ended(Top(x), "close", res)
         \/ Len(stack[x]) > 1 /\ n = Len(stack[x]) - 1 /\ ImportedFrom(stack[x][Len(stack[x]) - 1], e)
  BY ReturnedFrame
<1>2. Top(x) \in FrameType(Ids) /\ Top(x) = stack[x][Len(stack[x])] /\ Len(stack[x]) \in Nat \ {0}
  BY TopTyped
<1>3. n \in 1..Len(stack[x]) /\ SameSource(stack[x][n], e)
  <2>1. CASE Len(stack[x]) = 1 /\ n = Len(stack[x]) /\ e = Ended(Top(x), "close", res)
    <3>1. "close" \in Pcs
      BY DEF Pcs
    <3>2. e.path = Top(x).path /\ e.kind = Top(x).kind /\ e.old = Top(x).old /\ e.raced = Top(x).raced
      BY <1>2, <2>1, <3>1, EndedTyped
    <3>. QED  BY <1>2, <2>1, <3>2 DEF SameSource
  <2>2. CASE Len(stack[x]) > 1 /\ n = Len(stack[x]) - 1 /\ ImportedFrom(stack[x][Len(stack[x]) - 1], e)
    <3>1. n \in 1..Len(stack[x])
      BY <1>2, <2>2
    <3>. QED  BY <2>2, <3>1 DEF ImportedFrom, SameSource
  <2>. QED  BY <1>1, <2>1, <2>2
<1>4. \A y \in Procs : FramesGoOn(stack[y], stack'[y])
  BY <1>3, CutGoesOn, StaysOn DEF OneCut
<1>. QED  BY <1>1, <1>4 DEF InstKept

\* The end of a singleflight call.
LEMMA EndsGoOn ==
    ASSUME CallsTyped, NEW x \in Procs, Running(x), NEW res \in Ids', Ids \subseteq Ids', EndFlight(x, res)
    PROVE  \A y \in Procs : FramesGoOn(stack[y], stack'[y])
<1>1. Ends(x, res)
  BY EndFlightEnds
<1>2. ASSUME NEW y \in Procs, Gets(x, y) PROVE FramesGoOn(stack[y], stack'[y])
  <2>1. PICK e : e = Ended(Top(y), "exit", res) /\ Cut(stack[y], stack'[y], Len(stack[y]), e)
    BY <1>1, <1>2 DEF Ends
  <2>2. Running(y)
    BY <1>2 DEF Gets
  <2>3. Top(y) \in FrameType(Ids) /\ Top(y) = stack[y][Len(stack[y])] /\ Len(stack[y]) \in Nat \ {0}
    BY <2>2, TopTyped
  <2>4. Top(y) \in FrameType(Ids') /\ "exit" \in Pcs
    BY <2>3 DEF FrameType, Pcs
  <2>5. e.path = Top(y).path /\ e.kind = Top(y).kind /\ e.old = Top(y).old /\ e.raced = Top(y).raced
    <3>. HIDE DEF Ids
    <3>. QED  BY <2>1, <2>4, EndedTyped
  <2>6. Len(stack[y]) \in 1..Len(stack[y]) /\ SameSource(stack[y][Len(stack[y])], e)
    BY <2>3, <2>5 DEF SameSource
  <2>. QED  BY <2>1, <2>6, CutGoesOn
<1>3. ASSUME NEW y \in Procs, ~Gets(x, y) PROVE FramesGoOn(stack[y], stack'[y])
  BY <1>1, <1>3, StaysOn DEF Ends
<1>. QED  BY <1>2, <1>3

\* The innermost frame changes.
LEMMA MoveGoesOn ==
    ASSUME CallsTyped, NEW x \in Procs, Running(x), NEW e, stack' = SetTop(x, e), SameSource(Top(x), e)
    PROVE  \A y \in Procs : FramesGoOn(stack[y], stack'[y])
<1>1. /\ DOMAIN stack = Procs /\ IsSeq(stack[x]) /\ Top(x) = stack[x][Len(stack[x])] /\ Len(stack[x]) \in Nat \ {0}
  BY TopTyped
<1>2. OneCut(x, Len(stack[x]), e)
  BY <1>1, TopCut
<1>3. Len(stack[x]) \in 1..Len(stack[x])
  BY <1>1
<1>. QED  BY <1>1, <1>2, <1>3, CutGoesOn, StaysOn DEF OneCut

\* The caches of a step that puts nothing.
LEMMA LruTouched ==
    ASSUME StateTyped, NEW k \in Kinds, NEW m, lru' = [lru EXCEPT ![k] = m], m.id = lru[k].id, m.pending = lru[k].pending
    PROVE  LrusShrink
<1>1. lru'[k] = m /\ \A j \in Kinds : j # k => lru'[j] = lru[j]
  BY DEF StateTyped, LruTyped
<1>. QED  BY <1>1, ShrunkSame DEF LrusShrink

\* The caches stay as they are.
LEMMA LruSame ==
    ASSUME lru' = lru
    PROVE  LrusShrink
BY ShrunkSame DEF LrusShrink

\* A put: room is made, and p's package becomes i.
Puts(x) ==
    LET f == Top(x)
    IN  /\ inst' = Append(inst, [path |-> f.path, ids |-> f.ids \cup {Len(inst) + 1}, failed |-> f.failed,
                                 old |-> f.old, raced |-> f.raced])
        /\ ~f.failed /\ lru[f.kind].id[f.path] = None
        /\ lru' = [lru EXCEPT ![f.kind] = pin(lruPut(f.kind, lru[f.kind], f.path, Len(inst) + 1), f.path)]

\* What one step of a call does, whichever it is.
Effect(x) == InstKept /\ (\A y \in Procs : FramesGoOn(stack[y], stack'[y])) /\ (LrusShrink \/ Puts(x))

\* What a lookup does to frames and caches.
LEMMA LookupEffect ==
    ASSUME TypeInv, NEW x \in Procs, Lookup(x)
    PROVE  Effect(x)
<1>. DEFINE p == Top(x).path
<1>1. /\ Running(x) /\ Top(x).pc \in {"ask", "pin"}
      /\ UNCHANGED <<waiters, flight, ret, canceled, birth, slips, load>>
  BY DEF Lookup
<1>2. CallsTyped /\ StateTyped
  BY DEF TypeInv
<1>3. p \in Paths /\ scope[x] \in ScopeType(Ids) /\ scope[x].got[p] \in Ids /\ Err \in Ids \ {None} /\ Decoded(p) \in Ids \ {None}
  <2>1. p \in Paths /\ scope[x] \in ScopeType(Ids)
    BY <1>1, <1>2, TopTyped
  <2>. QED  BY <1>2, <2>1, IdsHere, PosIsPlace DEF StateTyped, ScopeType
<1>4. ASSUME NEW res \in Ids \ {None}, NEW n, NEW e, lru' = lru, OneCut(x, n, e), ReturnsFrom(x, res, scope[x], n, e)
      PROVE  Effect(x)
  BY <1>1, <1>2, <1>3, <1>4, ReturnGoesOn, LruSame DEF Effect
<1>5. ASSUME NEW k \in Kinds, NEW n, NEW e, Hits(x, k, n, e), scope[x].got[p] = None
      PROVE  Effect(x)
  <2>. DEFINE i == lru[k].id[p]
              sc == ScopePut(x, p, i, k)
  <2>1. /\ i # None /\ lru' = [lru EXCEPT ![k] = pin(Touch(lru[k], p), p)]
        /\ OneCut(x, n, e) /\ ReturnsFrom(x, i, sc, n, e)
    BY <1>5, Zenon DEF Hits
  <2>2. i \in Ids \ {None}
    BY <1>2, <1>3, <2>1, LruHere
  <2>3. sc \in ScopeType(Ids)
    BY <1>2, <1>3, <2>2, ScopePutTyped
  <2>. HIDE DEF sc
  <2>4. InstKept /\ \A y \in Procs : FramesGoOn(stack[y], stack'[y])
    BY <1>1, <1>2, <2>1, <2>2, <2>3, ReturnGoesOn
  <2>5. /\ \A j \in Kinds : j # k => lru'[j] = lru[j]
        /\ lru'[k].id = lru[k].id /\ lru'[k].pending = lru[k].pending
    BY <1>2, <1>3, <2>1, <2>4, HitLru DEF InstKept
  <2>6. LrusShrink
    BY <2>5, ShrunkSame DEF LrusShrink
  <2>. QED  BY <2>4, <2>6 DEF Effect
<1>6. ASSUME NEW pc \in {"enter", "pin"}, lru' = lru, Advances(x, pc)
      PROVE  Effect(x)
  <2>1. pc \in Pcs
    BY DEF Pcs
  <2>2. PICK e : e = [Top(x) EXCEPT !.pc = pc]
    OBVIOUS
  <2>3. Top(x) \in FrameType(Ids)
    BY <1>1, <1>2, TopTyped
  <2>4. e.path = Top(x).path /\ e.kind = Top(x).kind /\ e.old = Top(x).old /\ e.raced = Top(x).raced
    BY <2>1, <2>2, <2>3, AdvancedTyped
  <2>5. SameSource(Top(x), e) /\ stack' = SetTop(x, e)
    BY <1>6, <2>2, <2>4 DEF SameSource, Advances
  <2>6. InstKept
    BY <1>2, <1>6, InstStays DEF Advances, InstKept
  <2>. QED  BY <1>1, <1>2, <1>6, <2>5, <2>6, MoveGoesOn, LruSame DEF Effect
<1>. QED
  <2>1. CASE lru' = lru /\ \E n, e : \/ scope[x].got[p] # None /\ OneCut(x, n, e) /\ ReturnsFrom(x, scope[x].got[p], scope[x], n, e)
                                     \/ OneCut(x, n, e) /\ ReturnsFrom(x, Err, scope[x], n, e)
                                     \/ OneCut(x, n, e) /\ ReturnsFrom(x, Decoded(p), scope[x], n, e)
    BY <1>3, <1>4, <2>1
  <2>2. CASE scope[x].got[p] = None /\ \E k \in Kinds : \E n, e : Hits(x, k, n, e)
    BY <1>5, <2>2
  <2>3. CASE lru' = lru /\ scope[x].got[p] = None /\ \E pc \in {"enter", "pin"} : Advances(x, pc)
    BY <1>6, <2>3
  <2>. QED  BY <2>1, <2>2, <2>3, Zenon DEF Lookup

\* enterWait and join.
LEMMA WaitEffect ==
    ASSUME TypeInv, NEW x \in Procs, enterWait(x) \/ join(x)
    PROVE  Effect(x)
<1>1. Running(x) /\ UNCHANGED <<lru, inst>> /\ \E pc \in {"do", "wait", "lead"} : stack' = SetTop(x, [Top(x) EXCEPT !.pc = pc])
  <2>1. CASE enterWait(x)
    BY <2>1, Zenon DEF enterWait, At
  <2>2. CASE join(x)
    <3>1. Running(x) /\ UNCHANGED <<lru, inst>>
          /\ stack' = SetTop(x, [Top(x) EXCEPT !.pc = IF flight[Top(x).kind][Top(x).path] THEN "wait" ELSE "lead"])
      BY <2>2, Zenon DEF join, At
    <3>. QED  BY <3>1, Zenon
  <2>. QED  BY <2>1, <2>2
<1>2. CallsTyped /\ StateTyped
  BY DEF TypeInv
<1>3. PICK pc \in {"do", "wait", "lead"} : stack' = SetTop(x, [Top(x) EXCEPT !.pc = pc])
  BY <1>1
<1>4. PICK e : e = [Top(x) EXCEPT !.pc = pc]
  OBVIOUS
<1>5. Top(x) \in FrameType(Ids) /\ pc \in Pcs
  BY <1>1, <1>2, TopTyped DEF Pcs
<1>6. e.path = Top(x).path /\ e.kind = Top(x).kind /\ e.old = Top(x).old /\ e.raced = Top(x).raced
  BY <1>4, <1>5, AdvancedTyped
<1>7. SameSource(Top(x), e) /\ stack' = SetTop(x, e)
  BY <1>3, <1>4, <1>6 DEF SameSource
<1>8. InstKept
  BY <1>1, <1>2, InstStays DEF InstKept
<1>. QED  BY <1>1, <1>2, <1>7, <1>8, MoveGoesOn, LruSame DEF Effect

\* What lead does to frames and caches.
LEMMA leadEffect ==
    ASSUME TypeInv, NEW x \in Procs, Leads(x)
    PROVE  Effect(x)
<1>0. PICK p0 : p0 = Top(x).path
  OBVIOUS
<1>1. Running(x) /\ inst' = inst
  BY DEF Leads
<1>2. CallsTyped /\ StateTyped
  BY DEF TypeInv
<1>3. p0 \in Paths /\ Top(x) \in FrameType(Ids)
  BY <1>0, <1>1, <1>2, TopTyped
<1>4. InstKept /\ Ids' = Ids /\ Err \in Ids
  BY <1>1, <1>2, InstStays, IdsHere DEF StateTyped, InstKept
<1>5. ASSUME NEW res \in Ids, EndFlight(x, res), LrusShrink
      PROVE  Effect(x)
  <2>1. res \in Ids' /\ Ids \subseteq Ids'
    BY <1>4
  <2>. QED  BY <1>1, <1>2, <1>4, <1>5, <2>1, EndsGoOn DEF Effect
<1>6. CASE \E k \in Kinds : /\ lru[k].id[p0] # None /\ EndFlight(x, lru[k].id[p0])
                            /\ lru' = [lru EXCEPT ![k] = Touch(lru[k], p0)]
  <2>1. PICK k \in Kinds : /\ lru[k].id[p0] # None /\ EndFlight(x, lru[k].id[p0])
                           /\ lru' = [lru EXCEPT ![k] = Touch(lru[k], p0)]
    BY <1>6
  <2>2. PICK res : res = lru[k].id[p0]
    OBVIOUS
  <2>3. res \in Ids /\ EndFlight(x, res)
    BY <1>2, <1>3, <2>1, <2>2, LruHere
  <2>. DEFINE m == Touch(lru[k], p0)
  <2>4. m.id = lru[k].id /\ m.pending = lru[k].pending
    BY <1>2, <1>3, <2>1, TouchOK, LruHere
  <2>5. lru' = [lru EXCEPT ![k] = m]
    BY <2>1
  <2>. HIDE DEF m
  <2>. QED  BY <1>2, <1>5, <2>3, <2>4, <2>5, LruTouched
<1>7. CASE EndFlight(x, Err) /\ lru' = lru
  <2>1. PICK res : res = Err
    OBVIOUS
  <2>. QED  BY <1>4, <1>5, <1>7, <2>1, LruSame
<1>8. CASE lru' = lru /\ stack' = SetTop(x, [Top(x) EXCEPT !.pc = "check", !.todo = Imports[p0]])
  <2>1. PICK e : e = [Top(x) EXCEPT !.pc = "check", !.todo = Imports[p0]]
    OBVIOUS
  <2>2. SameSource(Top(x), e)
    BY <1>3, <2>1 DEF FrameType, SameSource
  <2>. QED  BY <1>1, <1>2, <1>4, <1>8, <2>1, <2>2, MoveGoesOn, LruSame DEF Effect
<1>. QED  BY <1>0, <1>6, <1>7, <1>8, Zenon DEF Leads

\* What an import does to frames and caches.
LEMMA ImportEffect ==
    ASSUME TypeInv, NEW x \in Procs, NEW d \in Paths, Imports1(x, d)
    PROVE  Effect(x)
<1>1. Running(x) /\ UNCHANGED <<lru, inst>>
  BY DEF Imports1
<1>2. CallsTyped /\ StateTyped
  BY DEF TypeInv
<1>3. /\ Top(x) \in FrameType(Ids) /\ scope[x] \in ScopeType(Ids) /\ DOMAIN stack = Procs /\ IsSeq(stack[x])
      /\ Len(stack[x]) \in Nat \ {0}
  BY <1>1, <1>2, TopTyped
<1>4. InstKept
  BY <1>1, <1>2, InstStays DEF InstKept
<1>5. ASSUME NEW e, ImportedFrom(Top(x), e), stack' = SetTop(x, e)
      PROVE  Effect(x)
  <2>1. SameSource(Top(x), e)
    BY <1>5 DEF ImportedFrom, SameSource
  <2>. QED  BY <1>1, <1>2, <1>4, <1>5, <2>1, MoveGoesOn, LruSame DEF Effect
<1>6. CASE stack' = SetTop(x, [Top(x) EXCEPT !.todo = {}])
  <2>1. PICK e : e = [Top(x) EXCEPT !.todo = {}]
    OBVIOUS
  <2>2. ImportedFrom(Top(x), e)
    BY <1>3, <2>1, GivenUpTyped
  <2>. QED  BY <1>5, <1>6, <2>1, <2>2
<1>7. CASE stack' = SetTop(x, Imported(Top(x), d, {scope[x].holder[d]}, TRUE))
  <2>0. PICK yes \in BOOLEAN : yes = TRUE
    OBVIOUS
  <2>1. PICK e : e = Imported(Top(x), d, {scope[x].holder[d]}, yes)
    OBVIOUS
  <2>2. {scope[x].holder[d]} \in SUBSET Ids
    BY <1>3 DEF ScopeType
  <2>3. PICK g \in FrameType(Ids), ids \in SUBSET Ids : g = Top(x) /\ ids = {scope[x].holder[d]}
    BY <1>3, <2>2
  <2>4. e = Imported(g, d, ids, yes)
    BY <2>1, <2>3
  <2>5. ImportedFrom(g, e)
    BY <2>4, ImportedTyped
  <2>. QED  BY <1>5, <1>7, <2>0, <2>1, <2>3, <2>5
<1>8. CASE stack' = [stack EXCEPT ![x] = Append(stack[x], Frame(d, "decl", TRUE))]
  <2>1. PICK e : e = Frame(d, "decl", TRUE)
    OBVIOUS
  <2>2. OneCut(x, Len(stack[x]) + 1, e) /\ Fresh(e)
    BY <1>3, <1>8, <2>1, PushCut DEF Frame, Fresh
  <2>3. \A y \in Procs : FramesGoOn(stack[y], stack'[y])
    BY <2>2, CutGoesOn, StaysOn DEF OneCut
  <2>. QED  BY <1>1, <1>4, <2>3, LruSame DEF Effect
<1>. QED  BY <1>6, <1>7, <1>8 DEF Imports1

\* What finishCheck does to frames and caches.
LEMMA finishEffect ==
    ASSUME TypeInv, NEW x \in Procs, Finishes(x)
    PROVE  Effect(x)
<1>. DEFINE f == Top(x)
            id == Len(inst) + 1
            r == [path |-> f.path, ids |-> f.ids \cup {id}, failed |-> f.failed, old |-> f.old, raced |-> f.raced]
<1>1. Running(x) /\ f.pc = "check"
  BY DEF Finishes
<1>2. CallsTyped /\ StateTyped /\ FlightInv
  BY DEF TypeInv
<1>3. f \in FrameType(Ids)
  BY <1>1, <1>2, TopTyped
<1>4. CASE EndFlight(x, Err) /\ UNCHANGED <<lru, inst>>
  <2>1. PICK res : res = Err
    OBVIOUS
  <2>2. InstKept /\ Ids' = Ids /\ res \in Ids'
    BY <1>2, <1>4, <2>1, InstStays, IdsHere DEF StateTyped, InstKept
  <2>3. Ids \subseteq Ids' /\ EndFlight(x, res)
    BY <1>4, <2>1, <2>2
  <2>. QED  BY <1>1, <1>2, <1>4, <2>2, <2>3, EndsGoOn, LruSame DEF Effect
<1>5. ASSUME EndFlight(x, id), inst' = Append(inst, r)
      PROVE  InstKept /\ \A y \in Procs : FramesGoOn(stack[y], stack'[y])
  <2>1. PICK g, v : g = f /\ v = r
    OBVIOUS
  <2>2. InstGrows /\ (\A i \in DOMAIN inst : inst'[i] = inst[i]) /\ id \in Ids'
    <3>1. /\ g \in FrameType(Ids) /\ inst' = Append(inst, v)
          /\ v = [path |-> g.path, ids |-> g.ids \cup {Len(inst) + 1}, failed |-> g.failed, old |-> g.old, raced |-> g.raced]
      BY <1>3, <1>5, <2>1
    <3>. QED  BY <1>2, <3>1, CheckedInst
  <2>3. PICK res : res = id
    OBVIOUS
  <2>4. res \in Ids' /\ Ids \subseteq Ids' /\ EndFlight(x, res)
    BY <1>5, <2>2, <2>3 DEF InstGrows
  <2>5. \A y \in Procs : FramesGoOn(stack[y], stack'[y])
    BY <1>1, <1>2, <2>4, EndsGoOn
  <2>. QED  BY <2>2, <2>5 DEF InstKept
<1>6. CASE EndFlight(x, id) /\ inst' = Append(inst, r) /\ lru' = lru
  BY <1>5, <1>6, LruSame DEF Effect
<1>7. CASE /\ EndFlight(x, id) /\ inst' = Append(inst, r) /\ ~f.failed
           /\ lru' = [lru EXCEPT ![f.kind] = pin(lruPut(f.kind, lru[f.kind], f.path, id), f.path)]
  <2>1. lru[f.kind].id[f.path] = None
    <3>1. PICK k0, p0, z : k0 = f.kind /\ p0 = f.path /\ z = <<k0, p0>>
      OBVIOUS
    <3>2. k0 \in Kinds /\ p0 \in Paths /\ z = Pair(f) /\ stack[x] # <<>> /\ StackInv(stack[x], scope[x].got, Ids) /\ f = Last(stack[x])
      BY <1>1, <1>2, <3>1, TopTyped DEF Pair
    <3>3. x \in Callers(z, {"check"})
      BY <1>1, <3>2, InTop DEF Callers
    <3>. QED  BY <1>2, <3>1, <3>2, <3>3 DEF FlightInv, FlightAt
  <2>2. Puts(x)
    BY <1>7, <2>1, Zenon DEF Puts
  <2>. QED  BY <1>5, <1>7, <2>2 DEF Effect
<1>. QED  BY <1>4, <1>6, <1>7, Zenon DEF Finishes

\* What exitWait does to frames and caches.
LEMMA exitEffect ==
    ASSUME TypeInv, NEW x \in Procs, Returns(x)
    PROVE  Effect(x)
<1>1. PICK k0, p0, res : k0 = Top(x).kind /\ p0 = Top(x).path /\ res = Top(x).res /\ Exits(x, k0, p0, res)
  BY DEF Returns
<1>2. /\ Running(x) /\ Top(x).pc = "exit"
      /\ \E n, e : OneCut(x, n, e) /\ ReturnsFrom(x, res, ExitScope(x), n, e)
  BY <1>1, Zenon DEF Exits
<1>b. PICK last \in BOOLEAN : last = (waiters[k0][p0] = 1)
  OBVIOUS
<1>3. CallsTyped /\ StateTyped
  BY DEF TypeInv
<1>4. res \in Ids \ {None} /\ ExitScope(x) \in ScopeType(Ids) /\ k0 \in Kinds /\ p0 \in Paths
  BY <1>1, <1>2, <1>3, ExitScopeTyped, TopTyped
<1>5. PICK n, e, sc : OneCut(x, n, e) /\ ReturnsFrom(x, res, sc, n, e) /\ sc = ExitScope(x)
  BY <1>2
<1>6. InstKept /\ \A y \in Procs : FramesGoOn(stack[y], stack'[y])
  <2>1. sc \in ScopeType(Ids)
    BY <1>4, <1>5
  <2>. QED  BY <1>2, <1>3, <1>4, <1>5, <2>1, ReturnGoesOn
<1>7. LrusShrink
  <2>. DEFINE m == Left(lru[k0], p0, res, last)
  <2>1. Shrunk(lru[k0], m)
    BY <1>3, <1>4, LruHere, LeftOK
  <2>2. lru' = [lru EXCEPT ![k0] = m]
    BY <1>1, <1>b, Zenon DEF Exits
  <2>. HIDE DEF m
  <2>3. lru'[k0] = m /\ \A j \in Kinds : j # k0 => lru'[j] = lru[j]
    BY <1>3, <1>4, <2>2 DEF StateTyped, LruTyped
  <2>. QED  BY <2>1, <2>3, ShrunkSame DEF LrusShrink
<1>. QED  BY <1>6, <1>7 DEF Effect

\* What closeScope does to frames and caches.
LEMMA closeEffect ==
    ASSUME TypeInv, NEW x \in Procs, Closes(x)
    PROVE  Effect(x)
<1>1. inst' = inst /\ stack' = [stack EXCEPT ![x] = <<>>] /\ CallsTyped /\ StateTyped
  BY DEF Closes, TypeInv
<1>2. InstKept
  BY <1>1, InstStays DEF InstKept
<1>3. LrusShrink
  BY closeScopeTyped DEF LrusShrink
<1>4. FramesGoOn(stack[x], <<>>)
  BY DEF FramesGoOn
<1>5. \A y \in Procs : FramesGoOn(stack[y], stack'[y])
  BY <1>1, <1>4, StaysOn DEF CallsTyped
<1>. QED  BY <1>2, <1>3, <1>5 DEF Effect

\* What every step of a call does to frames and caches.
LEMMA CallsEffect ==
    ASSUME TypeInv, NEW x \in Procs, Calls(x)
    PROVE  Effect(x)
BY LookupEffect, WaitEffect, leadEffect, ImportEffect, finishEffect, exitEffect, closeEffect DEF Calls

\* A call begins, or none does anything.
LEMMA StartsEffect ==
    ASSUME TypeInv, NEW x \in Procs, NEW p \in Paths, NEW k \in Kinds, Starts(x, p, k)
    PROVE  InstKept /\ LrusShrink /\ \A y \in Procs : FramesGoOn(stack[y], stack'[y])
<1>1. PICK e : e = Frame(p, k, FALSE) /\ Begins(x, e)
  BY DEF Starts
<1>6. load.plain => k = "decl"
  BY DEF Starts, Kinds
<1>2. stack[x] = <<>> /\ stack' = [stack EXCEPT ![x] = <<e>>] /\ UNCHANGED <<lru, inst>>
  BY <1>1 DEF Begins
<1>3. CallsTyped /\ StateTyped
  BY DEF TypeInv
<1>4. OneCut(x, 1, e) /\ Fresh(e)
  BY <1>1, <1>2, <1>3, <1>6, FirstCut DEF CallsTyped, Frame, Fresh
<1>5. \A y \in Procs : FramesGoOn(stack[y], stack'[y])
  BY <1>4, CutGoesOn, StaysOn DEF OneCut
<1>. QED  BY <1>2, <1>3, <1>5, InstStays, LruSame DEF InstKept

\* What a step that touches no call does to frames and caches.
LEMMA AsksEffect ==
    ASSUME TypeInv, Asks
    PROVE  InstKept /\ LrusShrink /\ \A y \in Procs : FramesGoOn(stack[y], stack'[y])
<1>1. UNCHANGED <<lru, inst, stack>>
  BY DEF Asks
<1>. QED  BY <1>1, InstStays, LruSame, StaysOn DEF InstKept, TypeInv

-----------------------------------------------------------------------------
(* What was checked from an old source is on its way out.                  *)

\* A package that was checked before an edit: its check was under way when
\* Delete came by, or Delete is still due.
Excused(r, deletes) == r.old => r.raced \/ r.path \in deletes
CachedPath == \A k \in Kinds : \A p \in Paths : lru[k].id[p] # None => inst[lru[k].id[p]].path = p
CachedOld ==
    \A k \in Kinds : \A p \in Paths :
        lru[k].id[p] # None => p \in lru[k].pending \/ Excused(inst[lru[k].id[p]], load.deletes)
FramesOld == \A x \in Procs : \A n \in 1..Len(stack[x]) : Excused(stack[x][n], load.deletes)
OldInv == CachedPath /\ CachedOld /\ FramesOld

\* Frames that go on are excused as they were.
LEMMA FramesStayOld ==
    ASSUME FramesOld, \A y \in Procs : FramesGoOn(stack[y], stack'[y]), load'.deletes = load.deletes
    PROVE  FramesOld'
BY DEF FramesOld, FramesGoOn, SameSource, Fresh, Excused

\* A cache that lost entries.
LEMMA CachedStays ==
    ASSUME TypeInv, CachedPath, CachedOld, InstKept, load'.deletes = load.deletes,
           NEW k \in Kinds, NEW m, Shrunk(lru[k], m), NEW p \in Paths, m.id[p] # None
    PROVE  inst'[m.id[p]].path = p /\ (p \in m.pending \/ Excused(inst'[m.id[p]], load'.deletes)) /\ m.id[p] \in DOMAIN inst
<1>1. m.id[p] = lru[k].id[p] /\ (p \in lru[k].pending => p \in m.pending)
  BY DEF Shrunk
<1>2. lru[k].id[p] \in DOMAIN inst
  BY <1>1, LruHere DEF TypeInv
<1>. QED  BY <1>1, <1>2 DEF CachedPath, CachedOld, InstKept, Excused

\* A step that only takes entries away keeps OldInv.
LEMMA OldShrinks ==
    ASSUME TypeInv, OldInv, InstKept, LrusShrink, \A y \in Procs : FramesGoOn(stack[y], stack'[y]), load'.deletes = load.deletes
    PROVE  OldInv'
<1>1. ASSUME NEW k \in Kinds, NEW p \in Paths, lru'[k].id[p] # None
      PROVE  inst'[lru'[k].id[p]].path = p /\ (p \in lru'[k].pending \/ Excused(inst'[lru'[k].id[p]], load'.deletes))
  <2>1. Shrunk(lru[k], lru'[k])
    BY DEF LrusShrink
  <2>. QED  BY <1>1, <2>1, CachedStays DEF OldInv
<1>4. CachedPath' /\ CachedOld'
  BY <1>1 DEF CachedPath, CachedOld
<1>. QED  BY <1>4, FramesStayOld DEF OldInv

\* The package just put was checked by the frame of its call.
LEMMA OldPuts ==
    ASSUME TypeInv, TypeInv', OldInv, NEW x \in Procs, Running(x), InstKept, Puts(x),
           \A y \in Procs : FramesGoOn(stack[y], stack'[y]), load'.deletes = load.deletes
    PROVE  OldInv'
<1>1. PICK k0, p0, id : k0 = Top(x).kind /\ p0 = Top(x).path /\ id = Len(inst) + 1
  OBVIOUS
<1>2. CallsTyped /\ StateTyped /\ k0 \in Kinds /\ p0 \in Paths
  BY <1>1, TopTyped DEF TypeInv
<1>3. lru[k0].id[p0] = None /\ lru' = [lru EXCEPT ![k0] = pin(lruPut(k0, lru[k0], p0, id), p0)]
  BY <1>1, Zenon DEF Puts
<1>4. id \in Nat \ {0} /\ LruOK(lru[k0])
  BY <1>1, <1>2, LruHere, IdsHere DEF StateTyped
<1>. DEFINE m == pin(lruPut(k0, lru[k0], p0, id), p0)
            h == Room(k0, lru[k0])
<1>5. LruOK(h) /\ Shrunk(lru[k0], h) /\ m.id = [h.id EXCEPT ![p0] = id] /\ m.pending = h.pending
  BY <1>2, <1>3, <1>4, PutPinned
<1>6. lru'[k0] = m /\ \A j \in Kinds : j # k0 => lru'[j] = lru[j]
  BY <1>2, <1>3 DEF StateTyped, LruTyped
<1>. HIDE DEF m, h
<1>7. \A p \in Paths : m.id[p] = IF p = p0 THEN id ELSE h.id[p]
  BY <1>5 DEF LruOK, LruType
<1>8. inst'[id].path = p0 /\ Excused(inst'[id], load'.deletes)
  <2>1. Excused(Top(x), load.deletes)
    BY <1>2, TopTyped DEF OldInv, FramesOld
  <2>2. PICK r : /\ r = [path |-> Top(x).path, ids |-> Top(x).ids \cup {id}, failed |-> Top(x).failed,
                         old |-> Top(x).old, raced |-> Top(x).raced]
    OBVIOUS
  <2>3. inst' = Append(inst, r)
    BY <1>1, <2>2, Zenon DEF Puts
  <2>4. inst'[id] = r
    <3>1. Len(inst) \in Nat
      BY <1>2, IdsHere DEF StateTyped
    <3>2. IsSeq(inst)
      BY <1>2 DEF StateTyped
    <3>. QED  BY <1>1, <2>3, <3>1, <3>2, Pushed
  <2>. QED  BY <1>1, <2>1, <2>2, <2>4 DEF Excused
<1>9. ASSUME NEW k \in Kinds, NEW p \in Paths, lru'[k].id[p] # None
      PROVE  inst'[lru'[k].id[p]].path = p /\ (p \in lru'[k].pending \/ Excused(inst'[lru'[k].id[p]], load'.deletes))
  <2>1. CASE k # k0
    <3>1. Shrunk(lru[k], lru'[k]) /\ lru'[k] = lru[k]
      BY <1>6, <2>1, ShrunkSame
    <3>2. inst'[lru[k].id[p]].path = p /\ (p \in lru[k].pending \/ Excused(inst'[lru[k].id[p]], load'.deletes))
      BY <1>9, <3>1, CachedStays DEF OldInv
    <3>. QED  BY <3>1, <3>2
  <2>2. CASE k = k0 /\ p = p0
    BY <1>6, <1>7, <1>8, <2>2
  <2>3. CASE k = k0 /\ p # p0
    <3>1. lru'[k].id[p] = h.id[p] /\ lru'[k].pending = h.pending /\ h.id[p] # None
      BY <1>5, <1>6, <1>7, <1>9, <2>3
    <3>2. Shrunk(lru[k], h)
      BY <1>5, <2>3
    <3>3. PICK g : g = h
      OBVIOUS
    <3>4. inst'[g.id[p]].path = p /\ (p \in g.pending \/ Excused(inst'[g.id[p]], load'.deletes))
      <4>1. Shrunk(lru[k], g) /\ g.id[p] # None
        BY <3>1, <3>2, <3>3
      <4>. QED  BY <4>1, CachedStays DEF OldInv
    <3>. QED  BY <3>1, <3>3, <3>4
  <2>. QED  BY <2>1, <2>2, <2>3
<1>10. CachedPath' /\ CachedOld'
  BY <1>9 DEF CachedPath, CachedOld
<1>. QED  BY <1>10, FramesStayOld DEF OldInv

\* edit and Delete keep OldInv.
LEMMA OldNoted ==
    ASSUME TypeInv, OldInv, NEW p \in Paths, edit(p) \/ Delete(p)
    PROVE  OldInv'
<1>1. CASE edit(p)
  <2>1. lru' = lru /\ load' = [load EXCEPT !.edits = @ \ {p}, !.deletes = @ \cup {p}]
    BY <1>1, Zenon DEF edit
  <2>2. load'.deletes = load.deletes \cup {p}
    BY <2>1 DEF TypeInv, StateTyped, LoadType
  <2>3. /\ FramesNoted /\ InstGrows
        /\ \A i \in DOMAIN inst : inst'[i].raced = inst[i].raced /\ inst'[i].old = (inst[i].old \/ inst[i].path = p)
        /\ \A x \in Procs : \A n \in 1..Len(stack[x]) :
               /\ stack'[x][n].raced = stack[x][n].raced
               /\ stack'[x][n].old => stack[x][n].old \/ stack[x][n].path = p
    BY <1>1, editTyped
  <2>4. ASSUME NEW i \in DOMAIN inst, Excused(inst[i], load.deletes) PROVE Excused(inst'[i], load'.deletes)
    BY <2>2, <2>3, <2>4 DEF Excused, InstGrows
  <2>5. ASSUME NEW k \in Kinds, NEW q \in Paths, lru[k].id[q] # None
        PROVE  inst'[lru[k].id[q]].path = q /\ (q \in lru[k].pending \/ Excused(inst'[lru[k].id[q]], load'.deletes))
    <3>1. lru[k].id[q] \in DOMAIN inst
      BY <2>5, LruHere DEF TypeInv
    <3>. QED  BY <2>3, <2>4, <2>5, <3>1 DEF OldInv, CachedPath, CachedOld, InstGrows
  <2>6. CachedPath' /\ CachedOld'
    BY <2>1, <2>5 DEF CachedPath, CachedOld
  <2>7. FramesOld'
    <3>1. ASSUME NEW x \in Procs, NEW n \in 1..Len(stack'[x]) PROVE Excused(stack'[x][n], load'.deletes)
      <4>1. n \in 1..Len(stack[x]) /\ n \in DOMAIN stack[x]
        <5>1. IsSeq(stack[x]) /\ stack'[x] = [m \in DOMAIN stack[x] |-> stack'[x][m]]
          BY <2>3 DEF TypeInv, CallsTyped, StackInv, FramesNoted
        <5>2. Len(stack'[x]) = Len(stack[x]) /\ DOMAIN stack[x] = 1..Len(stack[x])
          BY <5>1, Mapped
        <5>. QED  BY <5>2
      <4>2. stack'[x][n].path = stack[x][n].path /\ Excused(stack[x][n], load.deletes)
        BY <2>3, <4>1 DEF FramesNoted, Noted, OldInv, FramesOld
      <4>. QED  BY <2>2, <2>3, <4>1, <4>2 DEF Excused
    <3>. QED  BY <3>1 DEF FramesOld
  <2>. QED  BY <2>6, <2>7 DEF OldInv
<1>2. CASE Delete(p)
  <2>1. inst' = inst /\ load' = [load EXCEPT !.deletes = @ \ {p}]
    BY <1>2, Zenon DEF Delete
  <2>2. load'.deletes = load.deletes \ {p}
    BY <2>1 DEF TypeInv, StateTyped, LoadType
  <2>3. /\ FramesNoted
        /\ \A x \in Procs : \A n \in 1..Len(stack[x]) :
               /\ stack'[x][n].old = stack[x][n].old
               /\ (stack[x][n].old \/ stack[x][n].raced) => stack'[x][n].raced
        /\ \A k \in Kinds : Shrunk(lru[k], lru'[k]) /\ (lru'[k].id[p] # None => p \in lru'[k].pending)
    BY <1>2, DeleteTyped
  <2>4. ASSUME NEW k \in Kinds, NEW q \in Paths, lru'[k].id[q] # None
        PROVE  inst[lru'[k].id[q]].path = q /\ (q \in lru'[k].pending \/ Excused(inst[lru'[k].id[q]], load'.deletes))
    <3>1. lru'[k].id[q] = lru[k].id[q] /\ (q \in lru[k].pending => q \in lru'[k].pending) /\ (q = p => q \in lru'[k].pending)
      BY <2>3, <2>4 DEF Shrunk
    <3>2. inst[lru[k].id[q]].path = q /\ (q \in lru[k].pending \/ Excused(inst[lru[k].id[q]], load.deletes))
      BY <2>4, <3>1 DEF OldInv, CachedPath, CachedOld
    <3>. QED  BY <2>2, <3>1, <3>2 DEF Excused
  <2>5. CachedPath' /\ CachedOld'
    BY <2>1, <2>4 DEF CachedPath, CachedOld
  <2>6. FramesOld'
    <3>1. ASSUME NEW x \in Procs, NEW n \in 1..Len(stack'[x]) PROVE Excused(stack'[x][n], load'.deletes)
      <4>1. n \in 1..Len(stack[x]) /\ n \in DOMAIN stack[x]
        <5>1. IsSeq(stack[x]) /\ stack'[x] = [m \in DOMAIN stack[x] |-> stack'[x][m]]
          BY <2>3 DEF TypeInv, CallsTyped, StackInv, FramesNoted
        <5>2. Len(stack'[x]) = Len(stack[x]) /\ DOMAIN stack[x] = 1..Len(stack[x])
          BY <5>1, Mapped
        <5>. QED  BY <5>2
      <4>. QED  BY <2>3, <4>1 DEF Excused
    <3>. QED  BY <3>1 DEF FramesOld
  <2>. QED  BY <2>5, <2>6 DEF OldInv
<1>. QED  BY <1>1, <1>2

\* No step of a call changes the load.
LEMMA CallsKeepLoad ==
    ASSUME NEW x \in Procs, Calls(x)
    PROVE  load' = load /\ Running(x)
<1>1. ASSUME enterWait(x) \/ join(x) PROVE load' = load /\ Running(x)
  BY <1>1, Zenon DEF enterWait, join, At
<1>2. ASSUME NEW d \in Paths, Imports1(x, d) PROVE load' = load /\ Running(x)
  BY <1>2, Zenon DEF Imports1
<1>3. ASSUME Lookup(x) \/ Leads(x) \/ Finishes(x) \/ Closes(x) PROVE load' = load /\ Running(x)
  BY <1>3, Zenon DEF Lookup, Leads, Finishes, Closes
<1>4. ASSUME Returns(x) PROVE load' = load /\ Running(x)
  BY <1>4, Zenon DEF Returns, Exits
<1>. QED  BY <1>1, <1>2, <1>3, <1>4 DEF Calls

\* Every step keeps OldInv.
LEMMA StepsOld ==
    ASSUME TypeInv, TypeInv', OldInv, Steps
    PROVE  OldInv'
<1>1. ASSUME NEW x \in Procs, Calls(x) PROVE OldInv'
  <2>1. Effect(x)
    BY <1>1, CallsEffect
  <2>2. load'.deletes = load.deletes /\ Running(x)
    BY <1>1, CallsKeepLoad
  <2>. QED  BY <2>1, <2>2, OldShrinks, OldPuts DEF Effect
<1>2. ASSUME NEW x \in Procs, NEW p \in Paths, NEW k \in Kinds, Starts(x, p, k) PROVE OldInv'
  <2>1. load'.deletes = load.deletes
    BY <1>2 DEF Starts, LoadKept
  <2>. QED  BY <1>2, <2>1, StartsEffect, OldShrinks
<1>3. CASE Asks
  <2>1. load'.deletes = load.deletes
    BY <1>3 DEF Asks, LoadKept
  <2>. QED  BY <1>3, <2>1, AsksEffect, OldShrinks
<1>. QED  BY <1>1, <1>2, <1>3, OldNoted DEF Steps

\* OldInv holds always.
LEMMA OldAlways == Spec => [](AllInv /\ OldInv)
<1>1. Init => OldInv
  <2>. SUFFICES ASSUME Init PROVE OldInv
    OBVIOUS
  <2>1. lru = [k \in Kinds |-> EmptyLRU] /\ stack = [x \in Procs |-> <<>>]
    BY Zenon DEF Init, DepInit
  <2>2. \A k \in Kinds : \A p \in Paths : lru[k].id[p] = None
    BY <2>1 DEF EmptyLRU, Zero, None
  <2>3. \A x \in Procs : \A n \in 1..Len(stack[x]) : FALSE
    BY <2>1
  <2>. QED  BY <2>2, <2>3 DEF OldInv, CachedPath, CachedOld, FramesOld
<1>2. AllInv /\ AllInv' /\ OldInv /\ [Next]_vars => OldInv'
  <2>. SUFFICES ASSUME AllInv, AllInv', OldInv, [Next]_vars PROVE OldInv'
    OBVIOUS
  <2>1. Steps
    BY StepsAre, ExportAsks DEF vars, Steps
  <2>. QED  BY <2>1, StepsOld DEF AllInv
<1>3. Spec => []AllInv
  BY AllAlways
<1>. QED  BY <1>1, <1>2, <1>3, PTL DEF Spec

\* Once Delete has returned, a cached package was checked from the new source,
\* or goes with its last pin, or its check was under way when Delete came by:
\* no put, eviction, pin or put-off delete of any interleaving leaves a package
\* checked before the edit in a cache for good.
THEOREM DeletedIsRecheckedHolds == Spec => []DeletedIsRechecked
<1>1. AllInv /\ OldInv => DeletedIsRechecked
  <2>. SUFFICES ASSUME OldInv PROVE DeletedIsRechecked
    OBVIOUS
  <2>1. ASSUME NEW k \in Kinds, NEW p \in Paths \ load.deletes, lru[k].id[p] # None, inst[lru[k].id[p]].old
        PROVE  p \in lru[k].pending \/ inst[lru[k].id[p]].raced
    BY <2>1 DEF OldInv, CachedPath, CachedOld, Excused
  <2>. QED  BY <2>1 DEF DeletedIsRechecked
<1>. QED  BY <1>1, OldAlways, PTL

-----------------------------------------------------------------------------
(* The pins of one cache.                                                  *)

\* Each path is pinned by every cached package that imports it and g times by
\* others.
Balanced(l, g) == \A p \in Paths : g[p] \in Nat /\ l.pins[p] = Cardinality(Importers(l, p)) + g[p]

\* What left the cache is held by no one, and no cached package imports it.
FreedOf(l, m, g) == \A p \in Paths : l.id[p] # None /\ m.id[p] = None => g[p] = 0 /\ Importers(m, p) = {}

\* The importers of a path are finitely many.
LEMMA ImportersCounted ==
    ASSUME NEW l, NEW p
    PROVE  /\ Importers(l, p) \in SUBSET Paths /\ Cardinality(Importers(l, p)) \in Nat
           /\ Cardinality(Importers(l, p)) = 0 <=> Importers(l, p) = {}
BY PathsCounted DEF Importers

\* Two caches of the same packages and pins.
LEMMA BalancedSame ==
    ASSUME NEW l, NEW m, NEW g, NEW h, Balanced(l, g), m.id = l.id,
           \A p \in Paths : h[p] \in Nat /\ m.pins[p] = l.pins[p] - g[p] + h[p]
    PROVE  Balanced(m, h) /\ FreedOf(l, m, h)
<1>1. \A p : Importers(m, p) = Importers(l, p)
  BY DEF Importers
<1>2. \A p \in Paths : Cardinality(Importers(l, p)) \in Nat
  BY ImportersCounted
<1>. QED  BY <1>1, <1>2 DEF Balanced, FreedOf

\* What a release takes from the pins of a path.
LEMMA ReleasesSum ==
    ASSUME NEW l, NEW n \in [Paths -> Nat], NEW G \in SUBSET Paths
    PROVE  \A p \in Paths : Releases(l, n, p, G) = n[p] + Cardinality(Importers(l, p) \cap G)
<1>1. \A p \in Paths : {q \in G : l.id[q] # None /\ p \in Imports[q]} = Importers(l, p) \cap G
  BY DEF Importers
<1>. QED  BY <1>1 DEF Releases

\* unpinAll gives back what n counts.
LEMMA UnpinBalanced ==
    ASSUME NEW l, LruOK(l), NEW n \in [Paths -> Nat], NEW h, Balanced(l, h), NEW g,
           \A p \in Paths : g[p] \in Nat /\ h[p] = g[p] + n[p]
    PROVE  LET m == unpinAll(l, n) IN Balanced(m, g) /\ FreedOf(l, m, g)
<1>. DEFINE m == unpinAll(l, n)
            gone == Gone(l, n)
            r(p) == Releases(l, n, p, gone)
            stay(p) == Cardinality(Importers(l, p) \ gone)
            go(p) == Cardinality(Importers(l, p) \cap gone)
<1>1. gone \in SUBSET l.pending /\ gone \in SUBSET Paths /\ Freed(l, n, gone) = gone
  BY GoneIsFixed DEF LruOK, LruType
<1>2. /\ \A p \in Paths : m.id[p] = IF p \in gone THEN None ELSE l.id[p]
      /\ \A p \in Paths : m.pins[p] = IF l.pins[p] - r(p) > 0 THEN l.pins[p] - r(p) ELSE 0
  BY Zenon DEF unpinAll
<1>. HIDE DEF gone, m
<1>3. ASSUME NEW p \in Paths
      PROVE  /\ stay(p) \in Nat /\ go(p) \in Nat /\ n[p] \in Nat /\ g[p] \in Nat
             /\ Cardinality(Importers(l, p)) = stay(p) + go(p)
             /\ r(p) = n[p] + go(p) /\ l.pins[p] = stay(p) + go(p) + g[p] + n[p]
             /\ stay(p) = 0 => Importers(l, p) \ gone = {}
  <2>1. Importers(l, p) \in SUBSET Paths
    BY ImportersCounted
  <2>2. Cardinality(Importers(l, p)) = stay(p) + go(p)
    BY <1>1, <2>1, PathsSplit
  <2>3. stay(p) \in Nat /\ go(p) \in Nat /\ (stay(p) = 0 => Importers(l, p) \ gone = {})
    BY <2>1, PathsCounted
  <2>4. r(p) = n[p] + go(p)
    BY <1>1, ReleasesSum
  <2>5. l.pins[p] = Cardinality(Importers(l, p)) + h[p] /\ h[p] = g[p] + n[p] /\ n[p] \in Nat /\ g[p] \in Nat
    BY DEF Balanced
  <2>. HIDE DEF stay, go, r
  <2>. QED  BY <2>2, <2>3, <2>4, <2>5
<1>4. \A p \in Paths : Importers(m, p) = Importers(l, p) \ gone
  BY <1>2 DEF Importers
<1>5. ASSUME NEW p \in Paths
      PROVE  g[p] \in Nat /\ m.pins[p] = Cardinality(Importers(m, p)) + g[p]
  <2>1. Cardinality(Importers(m, p)) = stay(p)
    BY <1>4
  <2>2. m.pins[p] = IF l.pins[p] - r(p) > 0 THEN l.pins[p] - r(p) ELSE 0
    BY <1>2
  <2>3. PICK s, o, v, w \in Nat : s = stay(p) /\ o = go(p) /\ v = n[p] /\ w = g[p]
    BY <1>3
  <2>4. r(p) = v + o /\ l.pins[p] = s + o + w + v
    BY <1>3, <2>3
  <2>. HIDE DEF stay, go, r
  <2>5. l.pins[p] - r(p) = s + w
    BY <2>4
  <2>. QED  BY <2>1, <2>2, <2>3, <2>5
<1>6. ASSUME NEW p \in Paths, p \in gone
      PROVE  g[p] = 0 /\ Importers(m, p) = {}
  <2>1. r(p) >= l.pins[p]
    BY <1>1, <1>6 DEF Freed
  <2>2. PICK s, o, v, w \in Nat : s = stay(p) /\ o = go(p) /\ v = n[p] /\ w = g[p]
    BY <1>3
  <2>3. r(p) = v + o /\ l.pins[p] = s + o + w + v
    BY <1>3, <2>2
  <2>4. s = 0 /\ w = 0
    <3>. HIDE DEF stay, go, r
    <3>. QED  BY <2>1, <2>2, <2>3
  <2>. QED  BY <1>3, <1>4, <2>2, <2>4
<1>7. Balanced(m, g)
  BY <1>5 DEF Balanced
<1>8. FreedOf(l, m, g)
  BY <1>2, <1>6 DEF FreedOf
<1>. QED  BY <1>7, <1>8 DEF m

\* unpinAll of nothing that is pinned changes nothing.
LEMMA UnpinNothing ==
    ASSUME NEW l, LruOK(l), NEW n \in [Paths -> Nat], \A p \in Paths : n[p] = 0 \/ l.pins[p] = 0
    PROVE  LET m == unpinAll(l, n) IN m.id = l.id /\ \A p \in Paths : m.pins[p] = l.pins[p]
<1>. DEFINE m == unpinAll(l, n)
            gone == Gone(l, n)
            r(p) == Releases(l, n, p, {})
<1>1. \A p \in Paths : r(p) = n[p] /\ l.pins[p] \in Nat /\ n[p] \in Nat
  <2>1. ASSUME NEW p \in Paths
        PROVE  r(p) = n[p] + Cardinality(Importers(l, p) \cap {})
    BY ReleasesOK
  <2>2. \A p \in Paths : Importers(l, p) \cap {} = {}
    OBVIOUS
  <2>3. Cardinality({}) = 0
    BY FS_EmptySet
  <2>. HIDE DEF r
  <2>. QED  BY <2>1, <2>2, <2>3 DEF LruOK, LruType
<1>2. Freed(l, n, {}) = {}
  <2>1. \A p \in l.pending : p \in Paths /\ l.pins[p] > 0 /\ n[p] = 0
    BY DEF LruOK, LruType
  <2>. QED  BY <1>1, <2>1 DEF Freed
<1>3. gone = {}
  BY <1>2, Zenon DEF Gone
<1>4. /\ m.id = [p \in Paths |-> IF p \in gone THEN None ELSE l.id[p]]
      /\ \A p \in Paths : m.pins[p] = IF l.pins[p] - Releases(l, n, p, gone) > 0
                                      THEN l.pins[p] - Releases(l, n, p, gone) ELSE 0
  BY Zenon DEF unpinAll
<1>. HIDE DEF m, gone
<1>5. m.id = l.id
  BY <1>3, <1>4 DEF LruOK, LruType
<1>6. \A p \in Paths : m.pins[p] = l.pins[p]
  <2>1. \A p \in Paths : m.pins[p] = IF l.pins[p] - r(p) > 0 THEN l.pins[p] - r(p) ELSE 0
    BY <1>3, <1>4
  <2>. HIDE DEF r
  <2>. QED  BY <1>1, <2>1
<1>. QED  BY <1>5, <1>6 DEF m

\* removeElement, of a cached entry that nothing pins.
LEMMA RemoveBalanced ==
    ASSUME NEW l, LruOK(l), NEW p \in Paths, l.pins[p] = 0, l.id[p] # None, NEW g, Balanced(l, g)
    PROVE  LET m == removeElement(l, p) IN Balanced(m, g) /\ FreedOf(l, m, g)
<1>. DEFINE h == removeEntry(l, p)
            id == [l.id EXCEPT ![p] = None]
            n == Once(Imports[p])
            e == [q \in Paths |-> g[q] + n[q]]
            m == unpinAll(h, n)
<1>1. h = [newer |-> Shortened(l.newer, {p}), id |-> id, pins |-> l.pins, pending |-> l.pending]
  <2>1. h = [l EXCEPT !.id = id, !.newer = Shortened(l.newer, {p})]
    BY DEF removeEntry, LruOK, LruType
  <2>. HIDE DEF id, h
  <2>. QED  BY <2>1 DEF LruOK, LruType
<1>2. id \in [Paths -> Nat] /\ \A q \in Paths : id[q] = IF q \in {p} THEN None ELSE l.id[q]
  BY DEF LruOK, LruType, None
<1>3. n \in [Paths -> Nat] /\ \A q \in Paths : n[q] = IF q \in Imports[p] THEN 1 ELSE 0
  BY OnceOK, ImportsAssumption
<1>. HIDE DEF id, h, n
<1>4. LruOK(h)
  <2>1. ListOK(h) /\ h.newer \in [Paths -> SUBSET Paths]
    BY <1>1, <1>2, ShortenedOK
  <2>. QED  BY <1>1, <1>2, <2>1 DEF LruOK, LruType
<1>5. \A q \in Paths : Importers(h, q) = Importers(l, q) \ {p} /\ (p \in Importers(l, q) <=> q \in Imports[p])
  BY <1>1, <1>2 DEF Importers
<1>6. ASSUME NEW q \in Paths
      PROVE  e[q] \in Nat /\ h.pins[q] = Cardinality(Importers(h, q)) + e[q]
  <2>1. Importers(l, q) \in SUBSET Paths /\ Cardinality(Importers(l, q)) \in Nat
    BY ImportersCounted
  <2>2. l.pins[q] = Cardinality(Importers(l, q)) + g[q] /\ g[q] \in Nat /\ h.pins[q] = l.pins[q]
    BY <1>1 DEF Balanced
  <2>3. CASE q \in Imports[p]
    <3>1. Cardinality(Importers(h, q)) = Cardinality(Importers(l, q)) - 1
      BY <1>5, <2>1, <2>3, PathsCounted, FS_RemoveElement
    <3>2. e[q] = g[q] + 1
      BY <1>3, <2>3
    <3>. QED  BY <2>1, <2>2, <3>1, <3>2
  <2>4. CASE q \notin Imports[p]
    <3>1. Importers(h, q) = Importers(l, q)
      BY <1>5, <2>4
    <3>2. e[q] = g[q]
      BY <1>3, <2>2, <2>4
    <3>. QED  BY <2>1, <2>2, <3>1, <3>2
  <2>. QED  BY <2>3, <2>4
<1>7. Balanced(h, e)
  BY <1>6 DEF Balanced
<1>8. \A q \in Paths : g[q] \in Nat /\ e[q] = g[q] + n[q]
  BY DEF Balanced
<1>. HIDE DEF e
<1>9. Balanced(m, g) /\ FreedOf(h, m, g)
  BY <1>3, <1>4, <1>7, <1>8, UnpinBalanced
<1>10. m = removeElement(l, p) /\ Shrunk(h, m)
  BY <1>3, <1>4, UnpinOK DEF removeElement, h, n
<1>. HIDE DEF m
<1>11. FreedOf(l, m, g)
  <2>. SUFFICES ASSUME NEW q \in Paths, l.id[q] # None, m.id[q] = None PROVE g[q] = 0 /\ Importers(m, q) = {}
    BY DEF FreedOf
  <2>1. CASE q # p
    <3>1. h.id[q] # None
      BY <1>1, <1>2, <2>1
    <3>. QED  BY <1>9, <3>1 DEF FreedOf
  <2>2. CASE q = p
    <3>1. l.pins[q] = Cardinality(Importers(l, q)) + g[q] /\ g[q] \in Nat /\ l.pins[q] = 0
      BY <2>2 DEF Balanced
    <3>2. g[q] = 0 /\ Importers(l, q) = {}
      BY <3>1, ImportersCounted
    <3>3. Importers(m, q) \subseteq Importers(h, q)
      BY <1>10 DEF Importers, Shrunk
    <3>. QED  BY <1>5, <3>2, <3>3
  <2>. QED  BY <2>1, <2>2
<1>. QED  BY <1>9, <1>10, <1>11

\* evictOldest, and the room a put makes.
LEMMA RoomBalanced ==
    ASSUME NEW l, LruOK(l), NEW k, NEW g, Balanced(l, g)
    PROVE  LET r == Room(k, l) IN Balanced(r, g) /\ FreedOf(l, r, g)
<1>. DEFINE free == {p \in Cached(l) : l.pins[p] = 0}
            r == Room(k, l)
<1>1. CASE r = l
  BY <1>1 DEF FreedOf
<1>2. CASE r # l
  <2>1. r = evictOldest(l) /\ free # {}
    BY <1>2, Zenon DEF Room, evictOldest
  <2>2. Oldest(l, free) \in free
    BY <2>1, OldestThere
  <2>3. Oldest(l, free) \in Paths /\ l.pins[Oldest(l, free)] = 0 /\ l.id[Oldest(l, free)] # None
    BY <2>2 DEF Cached
  <2>4. r = removeElement(l, Oldest(l, free))
    BY <2>1, Zenon DEF evictOldest
  <2>. HIDE DEF free, r
  <2>5. Balanced(r, g) /\ FreedOf(l, r, g)
    BY <2>3, <2>4, RemoveBalanced
  <2>. QED  BY <2>5 DEF r
<1>. QED  BY <1>1, <1>2

\* put, of a path that is not cached, with its birth pin.
LEMMA PutBalanced ==
    ASSUME NEW l, LruOK(l), NEW k, NEW p \in Paths, l.id[p] = None, NEW i \in Nat \ {0},
           NEW g, Balanced(l, g), NEW h, \A q \in Paths : h[q] = g[q] + (IF q = p THEN 1 ELSE 0)
    PROVE  Balanced(pin(lruPut(k, l, p, i), p), h)
<1>. DEFINE r == Room(k, l)
            m == pin(lruPut(k, l, p, i), p)
<1>1. /\ LruOK(r) /\ Shrunk(l, r) /\ m.id = [r.id EXCEPT ![p] = i]
      /\ \A q \in Paths : m.pins[q] = r.pins[q] + (IF q \in Imports[p] THEN 1 ELSE 0) + (IF q = p THEN 1 ELSE 0)
  BY PutPinned
<1>2. Balanced(r, g)
  BY RoomBalanced
<1>. HIDE DEF r, m
<1>3. r.id[p] = None /\ \A q \in Paths : m.id[q] = IF q = p THEN i ELSE r.id[q]
  BY <1>1, ShrunkEmpty DEF LruOK, LruType
<1>4. ASSUME NEW q \in Paths
      PROVE  h[q] \in Nat /\ m.pins[q] = Cardinality(Importers(m, q)) + h[q]
  <2>1. Importers(r, q) \in SUBSET Paths /\ Cardinality(Importers(r, q)) \in Nat /\ p \notin Importers(r, q)
    BY <1>3, ImportersCounted DEF Importers
  <2>2. r.pins[q] = Cardinality(Importers(r, q)) + g[q] /\ g[q] \in Nat
    BY <1>2 DEF Balanced
  <2>3. Cardinality(Importers(m, q)) = Cardinality(Importers(r, q)) + (IF q \in Imports[p] THEN 1 ELSE 0)
    <3>1. CASE q \in Imports[p]
      <4>1. Importers(m, q) = Importers(r, q) \cup {p}
        BY <1>3, <3>1 DEF Importers, None
      <4>. QED  BY <2>1, <3>1, <4>1, PathsCounted, FS_AddElement
    <3>2. CASE q \notin Imports[p]
      <4>1. Importers(m, q) = Importers(r, q)
        BY <1>3, <3>2 DEF Importers
      <4>. QED  BY <2>1, <3>2, <4>1
    <3>. QED  BY <3>1, <3>2
  <2>. QED  BY <1>1, <2>1, <2>2, <2>3
<1>5. Balanced(m, h)
  BY <1>4 DEF Balanced
<1>. QED  BY <1>5 DEF m

\* Delete.
LEMMA DeleteBalanced ==
    ASSUME NEW l, LruOK(l), NEW p \in Paths, NEW g, Balanced(l, g)
    PROVE  LET m == lruDelete(l, p) IN Balanced(m, g) /\ FreedOf(l, m, g)
<1>1. CASE l.pins[p] > 0
  <2>1. lruDelete(l, p).id = l.id /\ lruDelete(l, p).pins = l.pins
    BY <1>1 DEF lruDelete, LruOK, LruType
  <2>2. \A q \in Paths : g[q] \in Nat /\ lruDelete(l, p).pins[q] = l.pins[q] - g[q] + g[q]
    BY <2>1 DEF Balanced, LruOK, LruType
  <2>. QED  BY <2>1, <2>2, BalancedSame
<1>2. CASE ~(l.pins[p] > 0) /\ l.id[p] # None
  <2>1. lruDelete(l, p) = removeElement(l, p)
    BY <1>2, Zenon DEF lruDelete
  <2>2. l.pins[p] = 0
    BY <1>2 DEF LruOK, LruType
  <2>. QED  BY <1>2, <2>1, <2>2, RemoveBalanced
<1>3. CASE ~(l.pins[p] > 0) /\ l.id[p] = None
  <2>1. lruDelete(l, p) = l
    BY <1>3, Zenon DEF lruDelete
  <2>. QED  BY <2>1 DEF FreedOf
<1>. QED  BY <1>1, <1>2, <1>3

-----------------------------------------------------------------------------
(* A provider that checks no bodies and decodes nothing.                   *)

\* Its full-body cache is empty, every frame is for the other one, and a scope
\* has pinned whatever it has got.
FullEmpty == \A p \in Paths : lru["full"].id[p] = None
DeclFrames == \A x \in Procs : \A n \in 1..Len(stack[x]) : stack[x][n].kind = "decl"
ScopePins(sc) == \A p \in Paths : sc.via[p] = IF sc.got[p] = None THEN "none" ELSE "decl"
ScopesPin == \A x \in Procs : ScopePins(scope[x])
PlainInv == load.plain => FullEmpty /\ DeclFrames /\ ScopesPin

\* The scopes have what they had.
ScopesKeep == \A y \in Procs : scope'[y].got = scope[y].got /\ scope'[y].via = scope[y].via

\* x's scope has got p's package as well, and a pin on it.
Takes(x, p) ==
    /\ \A y \in Procs \ {x} : scope'[y].got = scope[y].got /\ scope'[y].via = scope[y].via
    /\ scope[x].got[p] = None /\ scope'[x].got[p] # None /\ scope'[x].via[p] = "decl"
    /\ \A q \in Paths : q # p => scope'[x].got[q] = scope[x].got[q] /\ scope'[x].via[q] = scope[x].via[q]

\* Two caches of the same packages, with some more pins on p.
MorePins(l, m, p, n) == m.id = l.id /\ \A q \in Paths : m.pins[q] = l.pins[q] + (IF q = p THEN n ELSE 0)

\* What a step of x's call does to pins and scopes: nothing; a hit; a put; a
\* caller that leaves a flight; the end of the closure.
Nothing == ScopesKeep /\ birth' = birth /\ lru'["decl"].id = lru["decl"].id /\ lru'["decl"].pins = lru["decl"].pins
Hit(x, p) == Takes(x, p) /\ birth' = birth /\ MorePins(lru["decl"], lru'["decl"], p, 1)
Born(x, p) ==
    /\ Running(x) /\ p = Top(x).path /\ Top(x).todo = {} /\ Top(x).pc = "check" /\ x \notin canceled
    /\ ScopesKeep /\ Puts(x) /\ birth' = [birth EXCEPT !["decl"][p] = TRUE]
    /\ lru["decl"].id[p] = None /\ lru'["decl"] = pin(lruPut("decl", lru["decl"], p, Len(inst) + 1), p)
Leaves(x, p, res, last) ==
    /\ IF res = Err THEN ScopesKeep ELSE Takes(x, p)
    /\ lru'["decl"] = Left(lru["decl"], p, res, last)
    /\ birth' = IF last THEN [birth EXCEPT !["decl"][p] = FALSE] ELSE birth
    /\ last /\ ~birth["decl"][p] /\ Pinned(lru["decl"], p, res).pins[p] > 0 => "stolen" \in slips'
Drops(x) ==
    /\ \A y \in Procs \ {x} : scope'[y].got = scope[y].got /\ scope'[y].via = scope[y].via
    /\ scope'[x] = NoScope /\ birth' = birth
    /\ lru'["decl"] = unpinAll(lru["decl"], Once({p \in Paths : scope[x].via[p] = "decl"}))
Moves(x) ==
    \/ Nothing
    \/ \E p \in Paths : Hit(x, p) \/ Born(x, p)
    \/ \E p \in Paths : \E res \in Ids : \E last \in BOOLEAN : Leaves(x, p, res, last)
    \/ Drops(x)

\* A scope that takes a package pins what it has got, too.
LEMMA TakesPins ==
    ASSUME ScopesPin, NEW x \in Procs, NEW p \in Paths, Takes(x, p)
    PROVE  ScopesPin'
BY DEF ScopesPin, ScopePins, Takes

\* Neither does a step that leaves the scopes alone change this, nor the end of a call.
LEMMA KeepsPins ==
    ASSUME ScopesPin, ScopesKeep
    PROVE  ScopesPin'
BY DEF ScopesPin, ScopePins, ScopesKeep

\* A step that leaves the caches alone, as far as pins and packages go.
LEMMA NothingMoves ==
    ASSUME NEW x \in Procs, scope' = scope, birth' = birth, lru' = lru
    PROVE  Moves(x)
BY DEF Moves, Nothing, ScopesKeep

\* A call that returns with what its scope has.
LEMMA ReturnMoves ==
    ASSUME TypeInv, NEW x \in Procs, Running(x), NEW res \in Ids \ {None}, lru' = lru, birth' = birth,
           NEW n, NEW e, OneCut(x, n, e), ReturnsFrom(x, res, scope[x], n, e)
    PROVE  Moves(x)
<1>1. scope[x] \in ScopeType(Ids) /\ CallsTyped /\ StateTyped
  BY TopTyped DEF TypeInv
<1>2. PICK sc \in ScopeType(Ids) : sc = scope[x]
  BY <1>1
<1>3. /\ \A y \in Procs \ {x} : scope'[y] = scope[y]
      /\ scope'[x].got = sc.got /\ scope'[x].via = sc.via
  BY <1>1, <1>2, ReturnedFrame
<1>4. ScopesKeep
  BY <1>2, <1>3 DEF ScopesKeep
<1>. QED  BY <1>4 DEF Moves, Nothing

\* A lookup, as a move of pins.
LEMMA LookupMoves ==
    ASSUME TypeInv, PlainInv, load.plain, LoadPlain, NEW x \in Procs, Lookup(x)
    PROVE  Moves(x)
<1>0. PICK p0 : p0 = Top(x).path
  OBVIOUS
<1>1. /\ Running(x) /\ UNCHANGED <<waiters, flight, ret, canceled, birth, slips, load>>
  BY DEF Lookup
<1>2. CallsTyped /\ StateTyped
  BY DEF TypeInv
<1>3. p0 \in Paths /\ scope[x] \in ScopeType(Ids) /\ scope[x].got[p0] \in Ids /\ Err \in Ids \ {None}
  <2>1. p0 \in Paths /\ scope[x] \in ScopeType(Ids)
    BY <1>0, <1>1, <1>2, TopTyped
  <2>. QED  BY <1>2, <2>1, IdsHere DEF StateTyped, ScopeType
<1>4. ASSUME NEW k \in Kinds, NEW n, NEW e, Hits(x, k, n, e), scope[x].got[p0] = None
      PROVE  Moves(x)
  <2>1. lru[k].id[p0] # None
    BY <1>0, <1>4, Zenon DEF Hits
  <2>2. k = "decl"
    BY <1>3, <2>1 DEF PlainInv, FullEmpty, Kinds
  <2>3. PICK l, i, sc : l = lru[k] /\ i = l.id[p0] /\ sc = ScopePut(x, p0, i, k)
    OBVIOUS
  <2>4. /\ lru' = [lru EXCEPT ![k] = pin(Touch(l, p0), p0)]
        /\ OneCut(x, n, e) /\ ReturnsFrom(x, i, sc, n, e)
    BY <1>0, <1>4, <2>3, Zenon DEF Hits
  <2>5. i \in Ids \ {None} /\ LruOK(l) /\ l.id[p0] # None
    BY <1>2, <1>3, <2>1, <2>3, LruHere
  <2>6. /\ sc \in ScopeType(Ids) /\ sc.got[p0] = i /\ sc.via[p0] = k
        /\ \A q \in Paths : q # p0 => sc.got[q] = scope[x].got[q] /\ sc.via[q] = scope[x].via[q]
    BY <1>2, <1>3, <1>4, <2>3, <2>5, ScopePutTyped
  <2>7. /\ \A y \in Procs \ {x} : scope'[y] = scope[y]
        /\ scope'[x].got = sc.got /\ scope'[x].via = sc.via
    BY <1>1, <1>2, <2>4, <2>5, <2>6, ReturnedFrame
  <2>8. Takes(x, p0)
    BY <1>4, <2>2, <2>5, <2>6, <2>7 DEF Takes
  <2>9. PICK t : t = Touch(l, p0)
    OBVIOUS
  <2>10. LruOK(t) /\ t.id = l.id /\ t.pins = l.pins
    BY <1>3, <2>5, <2>9, TouchOK
  <2>11. MorePins(l, pin(t, p0), p0, 1)
    BY <1>3, <2>10, PinOK DEF MorePins
  <2>12. lru'["decl"] = pin(t, p0) /\ l = lru["decl"]
    BY <1>2, <2>2, <2>3, <2>4, <2>9 DEF StateTyped, LruTyped
  <2>. QED  BY <1>1, <1>3, <2>8, <2>11, <2>12 DEF Moves, Hit
<1>5. ASSUME NEW pc \in {"enter", "pin"}, lru' = lru, Advances(x, pc)
      PROVE  Moves(x)
  BY <1>1, <1>5, NothingMoves DEF Advances
<1>6. ~load.decode
  BY DEF LoadPlain
<1>7. ASSUME NEW res \in Ids \ {None}, NEW n, NEW e, lru' = lru, OneCut(x, n, e), ReturnsFrom(x, res, scope[x], n, e)
      PROVE  Moves(x)
  BY <1>1, <1>7, ReturnMoves
<1>. QED
  <2>1. CASE lru' = lru /\ \E n, e : \/ scope[x].got[p0] # None /\ OneCut(x, n, e) /\ ReturnsFrom(x, scope[x].got[p0], scope[x], n, e)
                                     \/ OneCut(x, n, e) /\ ReturnsFrom(x, Err, scope[x], n, e)
    BY <1>3, <1>7, <2>1
  <2>2. CASE scope[x].got[p0] = None /\ \E k \in Kinds : \E n, e : Hits(x, k, n, e)
    BY <1>4, <2>2
  <2>3. CASE lru' = lru /\ scope[x].got[p0] = None /\ \E pc \in {"enter", "pin"} : Advances(x, pc)
    BY <1>5, <2>3
  <2>. QED  BY <1>0, <1>6, <2>1, <2>2, <2>3, Zenon DEF Lookup

\* Waiting for a flight, as a move of pins.
LEMMA WaitMoves ==
    ASSUME NEW x \in Procs, enterWait(x) \/ join(x)
    PROVE  Moves(x)
<1>1. UNCHANGED <<lru, scope, birth>>
  <2>1. CASE enterWait(x)
    BY <2>1, Zenon DEF enterWait
  <2>2. CASE join(x)
    BY <2>2, Zenon DEF join
  <2>. QED  BY <2>1, <2>2
<1>. QED  BY <1>1, NothingMoves

\* lead, as a move of pins.
LEMMA leadMoves ==
    ASSUME TypeInv, PlainInv, load.plain, NEW x \in Procs, Leads(x)
    PROVE  Moves(x)
<1>0. PICK p0 : p0 = Top(x).path
  OBVIOUS
<1>1. Running(x) /\ UNCHANGED <<scope, birth>>
  BY DEF Leads
<1>2. CallsTyped /\ StateTyped
  BY DEF TypeInv
<1>3. p0 \in Paths
  BY <1>0, <1>1, <1>2, TopTyped
<1>4. CASE lru' = lru
  BY <1>1, <1>4, NothingMoves
<1>5. CASE \E k \in Kinds : lru[k].id[p0] # None /\ lru' = [lru EXCEPT ![k] = Touch(lru[k], p0)]
  <2>1. PICK k \in Kinds : lru[k].id[p0] # None /\ lru' = [lru EXCEPT ![k] = Touch(lru[k], p0)]
    BY <1>5
  <2>2. k = "decl"
    BY <1>3, <2>1 DEF PlainInv, FullEmpty, Kinds
  <2>3. PICK t : t = Touch(lru[k], p0)
    OBVIOUS
  <2>4. t.id = lru[k].id /\ t.pins = lru[k].pins
    BY <1>2, <1>3, <2>1, <2>3, LruHere, TouchOK
  <2>5. lru'["decl"] = t
    BY <1>2, <2>1, <2>2, <2>3 DEF StateTyped, LruTyped
  <2>. QED  BY <1>1, <2>2, <2>4, <2>5 DEF Moves, Nothing, ScopesKeep
<1>. QED  BY <1>0, <1>4, <1>5, Zenon DEF Leads

\* finishCheck, as a move of pins.
LEMMA finishMoves ==
    ASSUME TypeInv, PlainInv, load.plain, NEW x \in Procs, Finishes(x)
    PROVE  Moves(x)
<1>0. PICK p0, k0 : p0 = Top(x).path /\ k0 = Top(x).kind
  OBVIOUS
<1>1. Running(x) /\ scope' = scope
  BY DEF Finishes
<1>2. CallsTyped /\ StateTyped
  BY DEF TypeInv
<1>3. p0 \in Paths /\ k0 = "decl" /\ k0 \in Kinds
  <2>1. Top(x) = stack[x][Len(stack[x])] /\ Len(stack[x]) \in Nat \ {0} /\ p0 \in Paths
    BY <1>0, <1>1, <1>2, TopTyped
  <2>. QED  BY <1>0, <2>1 DEF PlainInv, DeclFrames, Kinds
<1>4. CASE UNCHANGED <<lru, birth>>
  BY <1>1, <1>4, NothingMoves
<1>5. CASE ~UNCHANGED <<lru, birth>>
  <2>1. /\ Top(x).pc = "check" /\ Top(x).todo = {} /\ x \notin canceled
        /\ Puts(x) \/ lru[k0].id[p0] # None
        /\ birth' = [birth EXCEPT ![k0][p0] = TRUE]
        /\ lru' = [lru EXCEPT ![k0] = pin(lruPut(k0, lru[k0], p0, Len(inst) + 1), p0)]
    BY <1>0, <1>5, Zenon DEF Finishes, Puts
  <2>2. lru[k0].id[p0] = None
    <3>1. PICK z : z = <<k0, p0>>
      OBVIOUS
    <3>2. z = Pair(Top(x)) /\ stack[x] # <<>> /\ StackInv(stack[x], scope[x].got, Ids) /\ Top(x) = Last(stack[x])
      BY <1>0, <1>1, <1>2, <3>1, TopTyped DEF Pair
    <3>3. x \in Callers(z, {"check"})
      BY <2>1, <3>2, InTop DEF Callers
    <3>. QED  BY <1>3, <3>1, <3>3 DEF FlightInv, FlightAt, TypeInv
  <2>3. ScopesKeep
    BY <1>1 DEF ScopesKeep
  <2>4. PICK m : m = pin(lruPut(k0, lru[k0], p0, Len(inst) + 1), p0)
    OBVIOUS
  <2>5. lru' = [lru EXCEPT !["decl"] = m] /\ m = pin(lruPut("decl", lru["decl"], p0, Len(inst) + 1), p0)
    BY <1>3, <2>1, <2>4
  <2>6. lru'["decl"] = m
    BY <1>2, <1>3, <2>5 DEF StateTyped, LruTyped
  <2>7. Born(x, p0)
    BY <1>0, <1>1, <1>3, <2>1, <2>2, <2>3, <2>5, <2>6 DEF Born
  <2>. QED  BY <1>3, <2>7 DEF Moves
<1>. QED  BY <1>4, <1>5

\* What a goroutine asks about is a frame of its own, for declarations here.
LEMMA TopPlain ==
    ASSUME CallsTyped, PlainInv, load.plain, NEW x \in Procs, Running(x)
    PROVE  Top(x).kind = "decl" /\ Top(x).path \in Paths
<1>1. Top(x) = stack[x][Len(stack[x])] /\ Len(stack[x]) \in Nat \ {0} /\ Top(x).path \in Paths
  BY TopTyped
<1>. QED  BY <1>1 DEF PlainInv, DeclFrames

\* exitWait, as a move of pins.
LEMMA exitMoves ==
    ASSUME TypeInv, PlainInv, load.plain, NEW x \in Procs, Returns(x)
    PROVE  Moves(x)
<1>1. PICK k0, p0, res : k0 = Top(x).kind /\ p0 = Top(x).path /\ res = Top(x).res /\ Exits(x, k0, p0, res)
  BY DEF Returns
<1>2. PICK last : last \in BOOLEAN /\ last = (waiters[k0][p0] = 1)
  OBVIOUS
<1>3. /\ Running(x) /\ Top(x).pc = "exit"
      /\ lru' = [lru EXCEPT ![k0] = Left(lru[k0], p0, res, last)]
      /\ birth' = IF last THEN [birth EXCEPT ![k0][p0] = FALSE] ELSE birth
      /\ last /\ ~birth[k0][p0] /\ Pinned(lru[k0], p0, res).pins[p0] > 0 => "stolen" \in slips'
      /\ \E n, e : OneCut(x, n, e) /\ ReturnsFrom(x, res, ExitScope(x), n, e)
  BY <1>1, <1>2, Zenon DEF Exits
<1>4. CallsTyped /\ StateTyped
  BY DEF TypeInv
<1>5. k0 = "decl" /\ p0 \in Paths
  BY <1>1, <1>3, <1>4, TopPlain
<1>6. PICK sc : sc = ExitScope(x)
  OBVIOUS
<1>7. /\ res \in Ids \ {None} /\ scope[x].got[p0] = None /\ sc \in ScopeType(Ids)
      /\ \A q \in Paths : q # p0 => sc.got[q] = scope[x].got[q] /\ sc.via[q] = scope[x].via[q]
  BY <1>1, <1>3, <1>4, <1>6, ExitScopeTyped
<1>8. /\ \A y \in Procs \ {x} : scope'[y] = scope[y]
      /\ scope'[x].got = sc.got /\ scope'[x].via = sc.via
  BY <1>3, <1>4, <1>6, <1>7, ReturnedFrame
<1>10. ASSUME res # Err PROVE Takes(x, p0)
  <2>1. sc = ScopePut(x, p0, res, "decl")
    BY <1>1, <1>5, <1>6, <1>10 DEF ExitScope
  <2>2. sc.got[p0] = res /\ sc.via[p0] = "decl"
    BY <1>4, <1>5, <1>7, <2>1, ScopePutTyped DEF Kinds
  <2>. QED  BY <1>7, <1>8, <2>2 DEF Takes
<1>11. IF res = Err THEN ScopesKeep ELSE Takes(x, p0)
  <2>1. ASSUME res = Err PROVE ScopesKeep
    <3>1. sc = scope[x]
      BY <1>1, <1>6, <2>1 DEF ExitScope
    <3>. QED  BY <1>8, <3>1 DEF ScopesKeep
  <2>. QED  BY <1>10, <2>1
<1>12. PICK m : m = Left(lru["decl"], p0, res, last)
  OBVIOUS
<1>13. lru'["decl"] = m
  <2>1. lru' = [lru EXCEPT !["decl"] = m]
    BY <1>3, <1>5, <1>12
  <2>2. "decl" \in DOMAIN lru
    BY <1>4 DEF StateTyped, LruTyped, Kinds
  <2>. QED  BY <2>1, <2>2
<1>14. birth' = IF last THEN [birth EXCEPT !["decl"][p0] = FALSE] ELSE birth
  BY <1>3, <1>5
<1>15. last /\ ~birth["decl"][p0] /\ Pinned(lru["decl"], p0, res).pins[p0] > 0 => "stolen" \in slips'
  BY <1>3, <1>5
<1>16. Leaves(x, p0, res, last)
  BY <1>11, <1>12, <1>13, <1>14, <1>15, Zenon DEF Leaves
<1>. QED  BY <1>2, <1>5, <1>7, <1>16, Zenon DEF Moves

\* closeScope, as a move of pins.
LEMMA closeMoves ==
    ASSUME TypeInv, NEW x \in Procs, Closes(x)
    PROVE  Moves(x)
<1>1. /\ birth' = birth /\ scope' = [scope EXCEPT ![x] = NoScope]
      /\ lru' = [k \in Kinds |-> unpinAll(lru[k], Once({p \in Paths : scope[x].via[p] = k}))]
  BY DEF Closes
<1>2. scope \in [Procs -> ScopeType(Ids)]
  BY DEF TypeInv, CallsTyped
<1>3. lru'["decl"] = unpinAll(lru["decl"], Once({p \in Paths : scope[x].via[p] = "decl"}))
  BY <1>1 DEF Kinds
<1>4. scope'[x] = NoScope /\ \A y \in Procs \ {x} : scope'[y] = scope[y]
  BY <1>1, <1>2
<1>. QED  BY <1>1, <1>3, <1>4 DEF Moves, Drops

\* Every step of a call, as a move of pins.
LEMMA CallsMoves ==
    ASSUME TypeInv, PlainInv, LoadPlain, load.plain, NEW x \in Procs, Calls(x)
    PROVE  Moves(x)
<1>1. ASSUME NEW d \in Paths, Imports1(x, d) PROVE Moves(x)
  <2>1. UNCHANGED <<lru, scope, birth>>
    BY <1>1, Zenon DEF Imports1
  <2>. QED  BY <2>1, NothingMoves
<1>. QED  BY <1>1, LookupMoves, WaitMoves, leadMoves, finishMoves, exitMoves, closeMoves DEF Calls

-----------------------------------------------------------------------------
(* PlainInv is kept.                                                       *)

\* The slips are only ever added to, and what a provider is does not change.
LEMMA SlipsGrow ==
    ASSUME NEW x \in Procs, Calls(x)
    PROVE  slips \subseteq slips'
<1>1. ASSUME enterWait(x) \/ join(x) PROVE slips' = slips
  BY <1>1, Zenon DEF enterWait, join
<1>2. ASSUME NEW d \in Paths, Imports1(x, d) PROVE slips' = slips
  BY <1>2, Zenon DEF Imports1
<1>3. ASSUME Lookup(x) \/ Leads(x) \/ Finishes(x) \/ Closes(x) PROVE slips' = slips
  BY <1>3, Zenon DEF Lookup, Leads, Finishes, Closes
<1>4. ASSUME Returns(x) PROVE slips \subseteq slips'
  <2>1. PICK k, p, res : Exits(x, k, p, res)
    BY <1>4 DEF Returns
  <2>2. PICK S : slips' = slips \cup S
    BY <2>1, Zenon DEF Exits
  <2>. QED  BY <2>2
<1>. QED  BY <1>1, <1>2, <1>3, <1>4 DEF Calls

\* The full-body cache stays empty.
LEMMA FullStaysEmpty ==
    ASSUME TypeInv, FullEmpty, DeclFrames, NEW x \in Procs, Running(x), LrusShrink \/ Puts(x)
    PROVE  FullEmpty'
<1>1. ASSUME LrusShrink PROVE FullEmpty'
  BY <1>1, ShrunkEmpty DEF LrusShrink, FullEmpty, Kinds
<1>2. ASSUME Puts(x) PROVE FullEmpty'
  <2>1. Top(x).kind = "decl"
    <3>1. Top(x) = stack[x][Len(stack[x])] /\ Len(stack[x]) \in Nat \ {0}
      BY TopTyped DEF TypeInv
    <3>. QED  BY <3>1 DEF DeclFrames
  <2>2. PICK m : lru' = [lru EXCEPT !["decl"] = m]
    BY <1>2, <2>1, Zenon DEF Puts
  <2>3. lru'["full"] = lru["full"]
    BY <2>2 DEF TypeInv, StateTyped, LruTyped, Kinds
  <2>. QED  BY <2>3 DEF FullEmpty
<1>. QED  BY <1>1, <1>2

\* Frames stay for declarations.
LEMMA DeclStays ==
    ASSUME DeclFrames, load.plain, \A y \in Procs : FramesGoOn(stack[y], stack'[y])
    PROVE  DeclFrames'
BY DEF DeclFrames, FramesGoOn, Fresh, SameSource

\* Neither caches nor scopes say otherwise at the start of a call.
LEMMA StartPins ==
    ASSUME TypeInv, NEW x \in Procs, NEW p \in Paths, NEW k \in Kinds, Starts(x, p, k)
    PROVE  ScopesKeep /\ birth' = birth /\ lru' = lru /\ slips' = slips
<1>1. PICK e : Begins(x, e)
  BY DEF Starts
<1>2. stack[x] = <<>> /\ scope' = [scope EXCEPT ![x] = NoScope] /\ UNCHANGED <<birth, lru, slips>>
  BY <1>1, Zenon DEF Begins
<1>3. scope[x] = NoScope /\ scope \in [Procs -> ScopeType(Ids)]
  BY <1>2 DEF TypeInv, CallsTyped
<1>4. scope' = scope
  BY <1>2, <1>3
<1>. QED  BY <1>2, <1>4 DEF ScopesKeep

\* Every step of a call keeps scopes pinning what they have.
LEMMA MovesPin ==
    ASSUME TypeInv, ScopesPin, NEW x \in Procs, Moves(x)
    PROVE  ScopesPin'
<1>1. CASE ScopesKeep
  BY <1>1, KeepsPins
<1>2. ASSUME NEW p \in Paths, Takes(x, p) PROVE ScopesPin'
  BY <1>2, TakesPins
<1>3. CASE Drops(x)
  <2>1. ScopePins(NoScope)
    BY DEF ScopePins, NoScope, Zero, None
  <2>. QED  BY <1>3, <2>1 DEF Drops, ScopesPin, ScopePins
<1>. QED  BY <1>1, <1>2, <1>3, Zenon DEF Moves, Nothing, Hit, Born, Leaves

\* edit and Delete change no pin and no scope.
LEMMA NotedPlain ==
    ASSUME TypeInv, PlainInv, NEW p \in Paths, edit(p) \/ Delete(p)
    PROVE  PlainInv' /\ ScopesKeep /\ birth' = birth /\ slips' = slips /\ load'.plain = load.plain
<1>1. /\ UNCHANGED <<scope, birth, slips>> /\ FramesNoted /\ LrusShrink
  <2>1. CASE edit(p)
    <3>1. UNCHANGED <<scope, birth, slips, lru>>
      BY <2>1, Zenon DEF edit
    <3>. QED  BY <2>1, <3>1, editTyped, LruSame
  <2>2. CASE Delete(p)
    <3>1. UNCHANGED <<scope, birth, slips>>
      BY <2>2, Zenon DEF Delete
    <3>. QED  BY <2>2, <3>1, DeleteTyped DEF LrusShrink
  <2>. QED  BY <2>1, <2>2
<1>2. load'.plain = load.plain
  BY DEF edit, Delete, TypeInv, StateTyped, LoadType
<1>3. ScopesKeep
  BY <1>1 DEF ScopesKeep
<1>4. ASSUME load.plain PROVE FullEmpty' /\ DeclFrames' /\ ScopesPin'
  <2>1. FullEmpty'
    BY <1>1, <1>4, ShrunkEmpty DEF LrusShrink, FullEmpty, PlainInv, Kinds
  <2>2. ScopesPin'
    BY <1>3, <1>4, KeepsPins DEF PlainInv
  <2>3. DeclFrames'
    <3>1. ASSUME NEW x \in Procs, NEW n \in 1..Len(stack'[x]) PROVE stack'[x][n].kind = "decl"
      <4>1. IsSeq(stack[x]) /\ stack'[x] = [m \in DOMAIN stack[x] |-> stack'[x][m]]
        BY <1>1 DEF TypeInv, CallsTyped, StackInv, FramesNoted
      <4>2. Len(stack'[x]) = Len(stack[x]) /\ DOMAIN stack[x] = 1..Len(stack[x])
        BY <4>1, Mapped
      <4>. QED  BY <1>1, <1>4, <4>2 DEF FramesNoted, Noted, PlainInv, DeclFrames
    <3>. QED  BY <3>1 DEF DeclFrames
  <2>. QED  BY <2>1, <2>2, <2>3
<1>. QED  BY <1>1, <1>2, <1>3, <1>4 DEF PlainInv

\* The invariant of a plain provider is kept by every step.
LEMMA StepsPlain ==
    ASSUME TypeInv, LoadPlain, PlainInv, Steps
    PROVE  PlainInv' /\ load'.plain = load.plain
<1>1. ASSUME NEW x \in Procs, Calls(x) PROVE PlainInv' /\ load'.plain = load.plain
  <2>1. load' = load /\ Running(x) /\ Effect(x)
    BY <1>1, CallsKeepLoad, CallsEffect
  <2>2. ASSUME load.plain PROVE FullEmpty' /\ DeclFrames' /\ ScopesPin'
    <3>1. FullEmpty /\ DeclFrames /\ ScopesPin
      BY <2>2 DEF PlainInv
    <3>2. FullEmpty'
      BY <2>1, <3>1, FullStaysEmpty DEF Effect
    <3>3. DeclFrames'
      BY <2>1, <2>2, <3>1, DeclStays DEF Effect
    <3>4. ScopesPin'
      BY <1>1, <2>2, <3>1, CallsMoves, MovesPin
    <3>. QED  BY <3>2, <3>3, <3>4
  <2>. QED  BY <2>1, <2>2 DEF PlainInv
<1>2. ASSUME LrusShrink, \A y \in Procs : FramesGoOn(stack[y], stack'[y]), ScopesKeep, load'.plain = load.plain
      PROVE  PlainInv'
  <2>1. ASSUME load.plain PROVE FullEmpty' /\ DeclFrames' /\ ScopesPin'
    <3>1. FullEmpty'
      BY <1>2, <2>1, ShrunkEmpty DEF LrusShrink, FullEmpty, PlainInv, Kinds
    <3>2. DeclFrames'
      BY <1>2, <2>1, DeclStays DEF PlainInv
    <3>3. ScopesPin'
      BY <1>2, <2>1, KeepsPins DEF PlainInv
    <3>. QED  BY <3>1, <3>2, <3>3
  <2>. QED  BY <1>2, <2>1 DEF PlainInv
<1>3. ASSUME NEW x \in Procs, NEW p \in Paths, NEW k \in Kinds, Starts(x, p, k)
      PROVE  PlainInv' /\ load'.plain = load.plain
  <2>1. load'.plain = load.plain
    BY <1>3 DEF Starts, LoadKept
  <2>2. ScopesKeep
    BY <1>3, StartPins
  <2>. QED  BY <1>2, <1>3, <2>1, <2>2, StartsEffect
<1>4. CASE Asks
  <2>1. load'.plain = load.plain /\ scope' = scope
    BY <1>4 DEF Asks, LoadKept
  <2>. QED  BY <1>2, <1>4, <2>1, AsksEffect DEF ScopesKeep
<1>. QED  BY <1>1, <1>3, <1>4, NotedPlain DEF Steps

-----------------------------------------------------------------------------
(* Who holds a pin.                                                        *)

\* The calls whose scope has p's package, and with it a pin; and one more pin
\* from a put until the last of its callers has left.
Holders(p) == {y \in Procs : scope[y].got[p] # None}
Held == [p \in Paths |-> Cardinality(Holders(p)) + (IF birth["decl"][p] THEN 1 ELSE 0)]

\* As long as no pin was stolen, every pin is one of a scope, a birth pin or
\* that of a cached package, and what is born is cached.
BirthCached == \A p \in Paths : birth["decl"][p] => lru["decl"].id[p] # None
PinsHeld == Balanced(lru["decl"], Held) /\ BirthCached
PinInv == load.plain /\ "stolen" \notin slips => PinsHeld

\* The holds on a path.
LEMMA HeldHere ==
    ASSUME NEW p \in Paths
    PROVE  /\ Holders(p) \in SUBSET Procs /\ Cardinality(Holders(p)) \in Nat
           /\ Held[p] = Cardinality(Holders(p)) + (IF birth["decl"][p] THEN 1 ELSE 0)
           /\ Held[p] \in Nat
           /\ Held[p] = 0 => ~birth["decl"][p] /\ Holders(p) = {}
<1>1. Holders(p) \in SUBSET Procs
  BY DEF Holders
<1>2. Cardinality(Holders(p)) \in Nat /\ (Cardinality(Holders(p)) = 0 => Holders(p) = {})
  BY <1>1, ProcsCounted
<1>3. Held[p] = Cardinality(Holders(p)) + (IF birth["decl"][p] THEN 1 ELSE 0)
  BY DEF Held
<1>. QED  BY <1>1, <1>2, <1>3

\* The holds on a path after a step.
LEMMA HeldNext ==
    ASSUME NEW p \in Paths
    PROVE  /\ Cardinality(Holders(p)') \in Nat
           /\ Held'[p] = Cardinality(Holders(p)') + (IF birth'["decl"][p] THEN 1 ELSE 0)
           /\ Held'[p] \in Nat
<1>1. Holders(p)' \in SUBSET Procs
  BY DEF Holders
<1>2. Cardinality(Holders(p)') \in Nat
  BY <1>1, ProcsCounted
<1>3. Held'[p] = Cardinality(Holders(p)') + (IF birth'["decl"][p] THEN 1 ELSE 0)
  BY DEF Held
<1>. QED  BY <1>2, <1>3

\* Scopes that keep what they have.
LEMMA HoldersKeep ==
    ASSUME ScopesKeep, NEW p \in Paths
    PROVE  Holders(p)' = Holders(p)
BY DEF ScopesKeep, Holders

\* A scope that takes a package is a holder more.
LEMMA HoldersTake ==
    ASSUME NEW x \in Procs, NEW p \in Paths, Takes(x, p), NEW q \in Paths
    PROVE  Cardinality(Holders(q)') = Cardinality(Holders(q)) + (IF q = p THEN 1 ELSE 0)
<1>1. CASE q # p
  <2>1. Holders(q)' = Holders(q)
    BY <1>1 DEF Takes, Holders
  <2>. QED  BY <1>1, <2>1, HeldHere
<1>2. CASE q = p
  <2>1. Holders(q)' = Holders(q) \cup {x} /\ x \notin Holders(q)
    BY <1>2 DEF Takes, Holders
  <2>2. IsFiniteSet(Holders(q))
    BY ProcsCounted DEF Holders
  <2>. QED  BY <1>2, <2>1, <2>2, FS_AddElement
<1>. QED  BY <1>1, <1>2

\* A scope that is closed holds nothing.
LEMMA HoldersDrop ==
    ASSUME ScopesPin, NEW x \in Procs, Drops(x), NEW q \in Paths
    PROVE  Cardinality(Holders(q)) = Cardinality(Holders(q)') + (IF scope[x].via[q] = "decl" THEN 1 ELSE 0)
<1>1. NoScope.got[q] = None
  BY DEF NoScope, Zero, None
<1>2. Holders(q)' = Holders(q) \ {x}
  BY <1>1 DEF Drops, Holders
<1>3. x \in Holders(q) <=> scope[x].via[q] = "decl"
  BY DEF ScopesPin, ScopePins, Holders
<1>4. IsFiniteSet(Holders(q)) /\ Cardinality(Holders(q)) \in Nat
  BY ProcsCounted DEF Holders
<1>5. CASE x \in Holders(q)
  <2>1. PICK S, T : S = Holders(q) /\ T = Holders(q)'
    OBVIOUS
  <2>2. Cardinality(S \ {x}) = Cardinality(S) - 1
    BY <1>4, <1>5, <2>1, FS_RemoveElement
  <2>3. Cardinality(T) = Cardinality(S) - 1 /\ Cardinality(S) \in Nat
    BY <1>2, <1>4, <2>1, <2>2
  <2>. QED  BY <1>3, <1>5, <2>1, <2>3
<1>6. CASE x \notin Holders(q)
  <2>1. Holders(q)' = Holders(q)
    BY <1>2, <1>6
  <2>. QED  BY <1>3, <1>4, <1>6, <2>1
<1>. QED  BY <1>5, <1>6

\* What a put leaves cached.
LEMMA PutCached ==
    ASSUME NEW l, LruOK(l), NEW p \in Paths, l.id[p] = None, NEW i \in Nat \ {0}, NEW g, Balanced(l, g),
           NEW q \in Paths, q = p \/ (l.id[q] # None /\ g[q] # 0)
    PROVE  pin(lruPut("decl", l, p, i), p).id[q] # None
<1>. DEFINE r == Room("decl", l)
            m == pin(lruPut("decl", l, p, i), p)
<1>1. LruOK(r) /\ m.id = [r.id EXCEPT ![p] = i]
  BY PutPinned
<1>2. FreedOf(l, r, g)
  BY RoomBalanced
<1>. HIDE DEF r, m
<1>3. m.id[q] = IF q = p THEN i ELSE r.id[q]
  BY <1>1 DEF LruOK, LruType
<1>. QED  BY <1>2, <1>3 DEF FreedOf, m, None

\* What is freed has no birth pin.
LEMMA BirthKept ==
    ASSUME BirthCached, \A p \in Paths : birth'["decl"][p] => birth["decl"][p],
           FreedOf(lru["decl"], lru'["decl"], Held')
    PROVE  BirthCached'
<1>1. ASSUME NEW p \in Paths, birth'["decl"][p], lru'["decl"].id[p] = None PROVE FALSE
  <2>1. Held'[p] = 0
    BY <1>1 DEF FreedOf, BirthCached
  <2>2. Held'[p] = Cardinality(Holders(p)') + 1 /\ Cardinality(Holders(p)') \in Nat
    BY <1>1, HeldNext
  <2>. QED  BY <2>1, <2>2
<1>. QED  BY <1>1 DEF BirthCached

\* A step that puts nothing: what it frees is held by no one afterwards.
Frees == Balanced(lru'["decl"], Held') /\ FreedOf(lru["decl"], lru'["decl"], Held')

\* A hit frees what nothing holds.
LEMMA HitFrees ==
    ASSUME TypeInv, PinsHeld, NEW x \in Procs, NEW p \in Paths, Hit(x, p)
    PROVE  Frees
<1>1. PICK l, m, g, h : l = lru["decl"] /\ m = lru'["decl"] /\ g = Held /\ h = Held'
  OBVIOUS
<1>2. Balanced(l, g) /\ MorePins(l, m, p, 1) /\ Takes(x, p) /\ birth' = birth
  BY <1>1 DEF PinsHeld, Hit
<1>3. ASSUME NEW q \in Paths
      PROVE  h[q] \in Nat /\ g[q] \in Nat /\ h[q] = g[q] + (IF q = p THEN 1 ELSE 0)
  BY <1>1, <1>2, HoldersTake, HeldHere, HeldNext
<1>4. \A q \in Paths : l.pins[q] \in Nat
  BY <1>1, LruHere DEF TypeInv, Kinds
<1>5. \A q \in Paths : h[q] \in Nat /\ m.pins[q] = l.pins[q] - g[q] + h[q]
  BY <1>2, <1>3, <1>4 DEF MorePins
<1>6. Balanced(m, h) /\ FreedOf(l, m, h)
  BY <1>2, <1>5, BalancedSame DEF MorePins
<1>. QED  BY <1>1, <1>6 DEF Frees

\* A step that moves no pin frees what nothing holds.
LEMMA NothingFrees ==
    ASSUME TypeInv, PinsHeld, Nothing
    PROVE  Frees
<1>1. PICK l, m, g, h : l = lru["decl"] /\ m = lru'["decl"] /\ g = Held /\ h = Held'
  OBVIOUS
<1>2. Balanced(l, g) /\ m.id = l.id /\ m.pins = l.pins /\ ScopesKeep /\ birth' = birth
  BY <1>1 DEF PinsHeld, Nothing
<1>3. ASSUME NEW q \in Paths
      PROVE  h[q] \in Nat /\ g[q] \in Nat /\ h[q] = g[q]
  BY <1>1, <1>2, HoldersKeep, HeldHere, HeldNext
<1>4. \A q \in Paths : l.pins[q] \in Nat
  BY <1>1, LruHere DEF TypeInv, Kinds
<1>5. \A q \in Paths : h[q] \in Nat /\ m.pins[q] = l.pins[q] - g[q] + h[q]
  BY <1>2, <1>3, <1>4
<1>6. Balanced(m, h) /\ FreedOf(l, m, h)
  BY <1>2, <1>5, BalancedSame
<1>. QED  BY <1>1, <1>6 DEF Frees

\* The end of a closure frees what nothing holds.
LEMMA DropsFrees ==
    ASSUME TypeInv, ScopesPin, PinsHeld, NEW x \in Procs, Drops(x)
    PROVE  Frees
<1>1. PICK l, m, g, h : l = lru["decl"] /\ m = lru'["decl"] /\ g = Held /\ h = Held'
  OBVIOUS
<1>2. PICK ps, n : ps = {p \in Paths : scope[x].via[p] = "decl"} /\ n = Once(ps)
  OBVIOUS
<1>3. Balanced(l, g) /\ m = unpinAll(l, n) /\ birth' = birth
  BY <1>1, <1>2 DEF PinsHeld, Drops
<1>4. n \in [Paths -> Nat] /\ \A q \in Paths : n[q] = IF q \in ps THEN 1 ELSE 0
  BY <1>2, OnceOK
<1>5. ASSUME NEW q \in Paths
      PROVE  h[q] \in Nat /\ g[q] = h[q] + n[q]
  <2>1. Cardinality(Holders(q)) = Cardinality(Holders(q)') + n[q]
    BY <1>2, <1>4, HoldersDrop
  <2>. QED  BY <1>1, <1>3, <1>4, <2>1, HeldHere, HeldNext
<1>6. LruOK(l)
  BY <1>1, LruHere DEF TypeInv, Kinds
<1>7. Balanced(m, h) /\ FreedOf(l, m, h)
  BY <1>3, <1>4, <1>5, <1>6, UnpinBalanced
<1>. QED  BY <1>1, <1>7 DEF Frees

\* A caller that leaves a flight frees what nothing holds.
LEMMA LeavesFrees ==
    ASSUME TypeInv, PinsHeld, "stolen" \notin slips',
           NEW x \in Procs, NEW p \in Paths, NEW res \in Ids, NEW last \in BOOLEAN, Leaves(x, p, res, last)
    PROVE  Frees /\ \A q \in Paths : birth'["decl"][q] => birth["decl"][q]
<1>1. PICK l, k, m, g, h : l = lru["decl"] /\ k = Pinned(l, p, res) /\ m = lru'["decl"] /\ g = Held /\ h = Held'
  OBVIOUS
<1>2. PICK e : e = [q \in Paths |-> g[q] + (IF res # Err /\ q = p THEN 1 ELSE 0)]
  OBVIOUS
<1>3. LruOK(l) /\ \A q \in Paths : l.pins[q] \in Nat
  BY <1>1, LruHere DEF TypeInv, Kinds
<1>4. /\ LruOK(k) /\ k.id = l.id
      /\ \A q \in Paths : k.pins[q] = l.pins[q] + (IF res # Err /\ q = p THEN 1 ELSE 0)
  <2>1. CASE res = Err
    BY <1>1, <1>3, <2>1 DEF Pinned
  <2>2. CASE res # Err
    <3>1. k = pin(l, p)
      BY <1>1, <2>2 DEF Pinned
    <3>. QED  BY <1>3, <2>2, <3>1, PinOK
  <2>. QED  BY <2>1, <2>2
<1>5. ASSUME NEW q \in Paths
      PROVE  /\ g[q] \in Nat /\ e[q] \in Nat /\ e[q] = g[q] + (IF res # Err /\ q = p THEN 1 ELSE 0)
             /\ e[q] = Cardinality(Holders(q)') + (IF birth["decl"][q] THEN 1 ELSE 0)
             /\ Cardinality(Holders(q)') \in Nat
  <2>1. Cardinality(Holders(q)') = Cardinality(Holders(q)) + (IF res # Err /\ q = p THEN 1 ELSE 0)
    <3>1. CASE res = Err
      BY <3>1, HoldersKeep, HeldHere DEF Leaves
    <3>2. CASE res # Err
      BY <3>2, HoldersTake DEF Leaves
    <3>. QED  BY <3>1, <3>2
  <2>. QED  BY <1>1, <1>2, <2>1, HeldHere, HeldNext
<1>6. Balanced(k, e) /\ FreedOf(l, k, e)
  <2>1. Balanced(l, g)
    BY <1>1 DEF PinsHeld
  <2>2. \A q \in Paths : e[q] \in Nat /\ k.pins[q] = l.pins[q] - g[q] + e[q]
    BY <1>3, <1>4, <1>5
  <2>. QED  BY <1>4, <2>1, <2>2, BalancedSame
<1>7. birth \in [Kinds -> [Paths -> BOOLEAN]] /\ "decl" \in Kinds
  BY DEF TypeInv, StateTyped, Kinds
<1>8. CASE ~last
  <2>1. m = k /\ birth' = birth
    BY <1>1, <1>8 DEF Leaves, Left
  <2>2. \A q \in Paths : h[q] = e[q]
    BY <1>1, <1>5, <2>1, HeldNext
  <2>3. Balanced(m, h) /\ FreedOf(l, m, h)
    BY <1>6, <2>1, <2>2 DEF Balanced, FreedOf
  <2>. QED  BY <1>1, <2>1, <2>3 DEF Frees
<1>9. CASE last
  <2>1. PICK n : n = Once({p})
    OBVIOUS
  <2>2. m = unpinAll(k, n) /\ birth' = [birth EXCEPT !["decl"][p] = FALSE]
    BY <1>1, <1>9, <2>1 DEF Leaves, Left
  <2>3. n \in [Paths -> Nat] /\ \A q \in Paths : n[q] = IF q = p THEN 1 ELSE 0
    BY <2>1, OnceOK
  <2>4. ~birth'["decl"][p] /\ \A q \in Paths : q # p => birth'["decl"][q] = birth["decl"][q]
    BY <1>7, <2>2, BirthCleared DEF Cleared
  <2>5. CASE birth["decl"][p]
    <3>1. \A q \in Paths : h[q] \in Nat /\ e[q] = h[q] + n[q]
      BY <1>1, <1>5, <2>3, <2>4, <2>5, HeldNext
    <3>2. Balanced(m, h) /\ FreedOf(k, m, h)
      BY <1>4, <1>6, <2>2, <2>3, <3>1, UnpinBalanced
    <3>3. FreedOf(l, m, h)
      BY <1>4, <3>2 DEF FreedOf
    <3>. QED  BY <1>1, <2>4, <3>2, <3>3 DEF Frees
  <2>6. CASE ~birth["decl"][p]
    <3>1. k.pins[p] = 0
      <4>1. ~(k.pins[p] > 0)
        BY <1>1, <1>9, <2>6 DEF Leaves
      <4>. QED  BY <1>4, <4>1 DEF LruOK, LruType
    <3>2. m.id = k.id /\ \A q \in Paths : m.pins[q] = k.pins[q]
      BY <1>4, <2>2, <2>3, <3>1, UnpinNothing
    <3>3. \A q \in Paths : h[q] \in Nat /\ h[q] = e[q]
      BY <1>1, <1>5, <2>4, <2>6, HeldNext
    <3>4. \A q \in Paths : k.pins[q] \in Nat
      BY <1>4 DEF LruOK, LruType
    <3>5. \A q \in Paths : h[q] \in Nat /\ m.pins[q] = k.pins[q] - e[q] + h[q]
      BY <1>5, <3>2, <3>3, <3>4
    <3>6. Balanced(m, h) /\ FreedOf(k, m, h)
      BY <1>6, <3>2, <3>5, BalancedSame
    <3>7. FreedOf(l, m, h)
      BY <1>4, <3>6 DEF FreedOf
    <3>. QED  BY <1>1, <2>4, <2>6, <3>6, <3>7 DEF Frees
  <2>. QED  BY <2>5, <2>6
<1>. QED  BY <1>8, <1>9

\* A put: the births there were, and its own.
LEMMA BornBalances ==
    ASSUME TypeInv, PinsHeld, NEW x \in Procs, NEW p \in Paths, Born(x, p)
    PROVE  PinsHeld'
<1>1. PICK l, m, g, h, i : l = lru["decl"] /\ m = lru'["decl"] /\ g = Held /\ h = Held' /\ i = Len(inst) + 1
  OBVIOUS
<1>2. Balanced(l, g) /\ LruOK(l) /\ i \in Nat \ {0}
  BY <1>1, LruHere, IdsHere DEF PinsHeld, TypeInv, StateTyped, Kinds
<1>3. /\ ScopesKeep /\ birth' = [birth EXCEPT !["decl"][p] = TRUE]
      /\ l.id[p] = None /\ m = pin(lruPut("decl", l, p, i), p)
  BY <1>1, Zenon DEF Born
<1>4. ~birth["decl"][p]
  BY <1>1, <1>3 DEF PinsHeld, BirthCached
<1>5. birth \in [Kinds -> [Paths -> BOOLEAN]] /\ "decl" \in Kinds
  BY DEF TypeInv, StateTyped, Kinds
<1>6. birth'["decl"][p] /\ \A q \in Paths : q # p => birth'["decl"][q] = birth["decl"][q]
  BY <1>3, <1>5, BirthSet
<1>7. \A q \in Paths : h[q] = g[q] + (IF q = p THEN 1 ELSE 0)
  BY <1>1, <1>3, <1>4, <1>6, HoldersKeep, HeldHere, HeldNext
<1>8. Balanced(m, h)
  BY <1>2, <1>3, <1>7, PutBalanced
<1>9. ASSUME NEW q \in Paths, birth'["decl"][q] PROVE m.id[q] # None
  <2>1. q = p \/ (l.id[q] # None /\ g[q] # 0)
    BY <1>1, <1>6, <1>9, HeldHere DEF PinsHeld, BirthCached
  <2>. QED  BY <1>2, <1>3, <2>1, PutCached
<1>10. BirthCached'
  BY <1>1, <1>9 DEF BirthCached
<1>. QED  BY <1>1, <1>8, <1>10 DEF PinsHeld

\* Every step of a call keeps the balance, and frees only what no one holds.
LEMMA MovesBalance ==
    ASSUME TypeInv, ScopesPin, PinsHeld, "stolen" \notin slips', NEW x \in Procs, Moves(x)
    PROVE  PinsHeld' /\ (Frees \/ \E p \in Paths : Born(x, p))
<1>1. ASSUME Frees, \A p \in Paths : birth'["decl"][p] => birth["decl"][p]
      PROVE  PinsHeld'
  BY <1>1, BirthKept DEF Frees, PinsHeld
<1>2. CASE Nothing
  BY <1>1, <1>2, NothingFrees DEF Nothing
<1>3. ASSUME NEW p \in Paths, Hit(x, p) PROVE PinsHeld' /\ Frees
  BY <1>1, <1>3, HitFrees DEF Hit
<1>4. ASSUME NEW p \in Paths, Born(x, p) PROVE PinsHeld'
  BY <1>4, BornBalances
<1>5. ASSUME NEW p \in Paths, NEW res \in Ids, NEW last \in BOOLEAN, Leaves(x, p, res, last) PROVE PinsHeld' /\ Frees
  BY <1>1, <1>5, LeavesFrees
<1>6. CASE Drops(x)
  BY <1>1, <1>6, DropsFrees DEF Drops
<1>. QED  BY <1>2, <1>3, <1>4, <1>5, <1>6 DEF Moves

\* A step that leaves scopes, births and the cache alone.
LEMMA StillFrees ==
    ASSUME TypeInv, PinsHeld, ScopesKeep, birth' = birth, lru' = lru
    PROVE  PinsHeld' /\ Frees
<1>1. Nothing
  BY DEF Nothing
<1>. QED  BY <1>1, NothingFrees, BirthKept DEF Frees, PinsHeld

\* Delete frees what nothing holds.
LEMMA DeleteFrees ==
    ASSUME TypeInv, PinsHeld, NEW p \in Paths, Delete(p)
    PROVE  PinsHeld' /\ Frees
<1>1. UNCHANGED <<scope, birth>> /\ lru' = [k \in Kinds |-> lruDelete(lru[k], p)]
  BY Zenon DEF Delete
<1>2. PICK l, m, g, h : l = lru["decl"] /\ m = lru'["decl"] /\ g = Held /\ h = Held'
  OBVIOUS
<1>3. m = lruDelete(l, p)
  BY <1>1, <1>2 DEF Kinds
<1>4. LruOK(l) /\ Balanced(l, g)
  BY <1>2, LruHere DEF PinsHeld, TypeInv, Kinds
<1>5. Balanced(m, g) /\ FreedOf(l, m, g)
  BY <1>3, <1>4, DeleteBalanced
<1>6. \A q \in Paths : h[q] = g[q]
  BY <1>1, <1>2, HoldersKeep, HeldHere, HeldNext DEF ScopesKeep
<1>7. Frees
  BY <1>2, <1>5, <1>6 DEF Frees, Balanced, FreedOf
<1>. QED  BY <1>1, <1>7, BirthKept DEF Frees, PinsHeld

\* A pin that was stolen stays so.
LEMMA SlipsStay ==
    ASSUME Steps
    PROVE  slips \subseteq slips'
<1>1. ASSUME NEW x \in Procs, NEW p \in Paths, NEW k \in Kinds, Starts(x, p, k) PROVE slips' = slips
  <2>1. PICK e : Begins(x, e)
    BY <1>1 DEF Starts
  <2>. QED  BY <2>1, Zenon DEF Begins
<1>2. ASSUME NEW p \in Paths, edit(p) \/ Delete(p) PROVE slips' = slips
  BY <1>2, Zenon DEF edit, Delete
<1>3. ASSUME Asks PROVE slips' = slips
  BY <1>3, Zenon DEF Asks
<1>. QED  BY <1>1, <1>2, <1>3, SlipsGrow DEF Steps

\* Every step keeps the balance, and what it frees nothing holds.
LEMMA StepsHeld ==
    ASSUME TypeInv, LoadPlain, PlainInv, load.plain, PinsHeld, "stolen" \notin slips', Steps
    PROVE  PinsHeld' /\ (Frees \/ \E x \in Procs : Calls(x) /\ \E p \in Paths : Born(x, p))
<1>1. ASSUME NEW x \in Procs, Calls(x) PROVE PinsHeld' /\ (Frees \/ \E p \in Paths : Born(x, p))
  <2>1. Moves(x) /\ ScopesPin
    BY <1>1, CallsMoves DEF PlainInv
  <2>. QED  BY <2>1, MovesBalance
<1>2. ASSUME NEW x \in Procs, NEW p \in Paths, NEW k \in Kinds, Starts(x, p, k) PROVE PinsHeld' /\ Frees
  BY <1>2, StartPins, StillFrees
<1>3. ASSUME NEW p \in Paths, edit(p) PROVE PinsHeld' /\ Frees
  <2>1. UNCHANGED <<scope, birth, lru>>
    BY <1>3, Zenon DEF edit
  <2>. QED  BY <2>1, StillFrees DEF ScopesKeep
<1>4. ASSUME Asks PROVE PinsHeld' /\ Frees
  <2>1. UNCHANGED <<scope, birth, lru>>
    BY <1>4, Zenon DEF Asks
  <2>. QED  BY <2>1, StillFrees DEF ScopesKeep
<1>. QED  BY <1>1, <1>2, <1>3, <1>4, DeleteFrees DEF Steps

\* The initial state has no pins.
LEMMA PinsInit == Init => PlainInv /\ PinInv
<1>. SUFFICES ASSUME Init PROVE PlainInv /\ PinInv
  OBVIOUS
<1>1. /\ lru = [k \in Kinds |-> EmptyLRU] /\ stack = [x \in Procs |-> <<>>]
      /\ scope = [x \in Procs |-> NoScope] /\ birth = [k \in Kinds |-> [p \in Paths |-> FALSE]]
  BY Zenon DEF Init, DepInit
<1>2. \A k \in Kinds : \A p \in Paths : lru[k].id[p] = None /\ lru[k].pins[p] = 0
  BY <1>1 DEF EmptyLRU, Zero, None
<1>3. \A x \in Procs : \A n \in 1..Len(stack[x]) : FALSE
  BY <1>1
<1>4. \A p \in Paths : NoScope.got[p] = None /\ NoScope.via[p] = "none"
  BY DEF NoScope, Zero, None
<1>5. PlainInv
  BY <1>1, <1>2, <1>3, <1>4 DEF PlainInv, FullEmpty, DeclFrames, ScopesPin, ScopePins, Kinds
<1>6. "decl" \in Kinds
  BY DEF Kinds
<1>7. \A p \in Paths : ~birth["decl"][p]
  BY <1>1, <1>6
<1>8. \A p \in Paths : Held[p] = 0
  <2>. SUFFICES ASSUME NEW p \in Paths PROVE Held[p] = 0
    OBVIOUS
  <2>1. Holders(p) = {}
    BY <1>1, <1>4 DEF Holders
  <2>2. Cardinality(Holders(p)) = 0
    BY <2>1, FS_EmptySet
  <2>. QED  BY <1>7, <2>2, HeldHere
<1>9. \A p \in Paths : Importers(lru["decl"], p) = {}
  BY <1>2, <1>6 DEF Importers
<1>10. Cardinality({}) = 0
  BY FS_EmptySet
<1>11. Balanced(lru["decl"], Held)
  <2>1. PICK l, g : l = lru["decl"] /\ g = Held
    OBVIOUS
  <2>2. \A p \in Paths : l.pins[p] = 0 /\ g[p] = 0 /\ Cardinality(Importers(l, p)) = 0
    BY <1>2, <1>6, <1>8, <1>9, <1>10, <2>1
  <2>. QED  BY <2>1, <2>2 DEF Balanced
<1>. QED  BY <1>5, <1>7, <1>11 DEF PinInv, PinsHeld, BirthCached

\* Every step keeps the balance of pins.
LEMMA StepsPins ==
    ASSUME TypeInv, LoadPlain, PlainInv, PinInv, Steps
    PROVE  PlainInv' /\ PinInv'
<1>1. PlainInv' /\ load'.plain = load.plain /\ slips \subseteq slips'
  BY StepsPlain, SlipsStay
<1>2. ASSUME load.plain, "stolen" \notin slips' PROVE PinsHeld'
  <2>1. PinsHeld
    BY <1>1, <1>2 DEF PinInv
  <2>. QED  BY <1>2, <2>1, StepsHeld
<1>. QED  BY <1>1, <1>2 DEF PinInv

\* The pins balance always.
LEMMA PinsAlways == Spec => [](AllInv /\ PlainInv /\ PinInv)
<1>1. AllInv /\ PlainInv /\ PinInv /\ [Next]_vars => PlainInv' /\ PinInv'
  <2>. SUFFICES ASSUME AllInv, PlainInv, PinInv, [Next]_vars PROVE PlainInv' /\ PinInv'
    OBVIOUS
  <2>1. Steps
    BY StepsAre, ExportAsks DEF vars, Steps
  <2>. QED  BY <2>1, StepsPins DEF AllInv
<1>2. Spec => []AllInv
  BY AllAlways
<1>. QED  BY PinsInit, <1>1, <1>2, PTL DEF Spec

\* When no call is running, a cached package is pinned exactly once by each
\* cached package of the same cache that imports it: every pin a scope, a birth
\* or an import has taken is given back once, whatever the calls do to each
\* other, as long as no birth pin was released that its caller had not taken.
THEOREM PinsAreBalancedHolds == Spec => []PinsAreBalanced
<1>1. AllInv /\ PlainInv /\ PinInv => PinsAreBalanced
  <2>. SUFFICES ASSUME AllInv, PinInv, Quiet, "stolen" \notin slips, load.plain, NEW p \in Paths
                PROVE  lru.decl.pins[p] = Cardinality({q \in Paths : lru.decl.id[q] # None /\ p \in Imports[q]})
    BY DEF PinsAreBalanced
  <2>1. Balanced(lru["decl"], Held)
    BY DEF PinInv, PinsHeld
  <2>2. \A x \in Procs : stack[x] = <<>> /\ scope[x] = NoScope
    BY DEF Quiet, Running, AllInv, TypeInv, CallsTyped
  <2>3. Holders(p) = {}
    BY <2>2 DEF Holders, NoScope, Zero, None
  <2>4. ~birth["decl"][p]
    <3>1. PICK z : z = <<"decl", p>>
      OBVIOUS
    <3>2. Callers(z, Registering) = {}
      BY <2>2, NoCall DEF Callers
    <3>3. Cardinality({}) = 0
      BY FS_EmptySet
    <3>4. FlightAt("decl", p)
      BY DEF AllInv, TypeInv, FlightInv, Kinds
    <3>5. waiters["decl"][p] = Cardinality(Callers(z, Registering)) /\ (birth["decl"][p] => waiters["decl"][p] > 0)
      BY <3>1, <3>4 DEF FlightAt
    <3>. QED  BY <3>2, <3>3, <3>5
  <2>5. Held[p] = 0
    <3>1. Cardinality(Holders(p)) = 0
      BY <2>3, FS_EmptySet
    <3>. QED  BY <2>4, <3>1, HeldHere
  <2>6. Importers(lru["decl"], p) = {q \in Paths : lru.decl.id[q] # None /\ p \in Imports[q]}
    BY DEF Importers
  <2>7. lru["decl"].pins[p] = Cardinality(Importers(lru["decl"], p)) + Held[p]
    BY <2>1 DEF Balanced
  <2>8. Cardinality(Importers(lru["decl"], p)) \in Nat
    BY ImportersCounted
  <2>. QED  BY <2>5, <2>6, <2>7, <2>8
<1>. QED  BY <1>1, PinsAlways, PTL

-----------------------------------------------------------------------------
(* Closures that are whole.                                                *)

\* Instance j is the cached one of its path.
Current(l, I, j) == j \in DOMAIN I /\ l.id[I[j].path] = j

\* A cached package is not degraded, everything it refers to is cached, and
\* whatever it refers to but itself is imported by something it refers to.
Closed(l, I, i) ==
    /\ i \in DOMAIN I /\ ~I[i].failed /\ i \in I[i].ids
    /\ \A j \in I[i].ids : /\ Current(l, I, j)
                           /\ j = i \/ \E r \in Paths : l.id[r] \in I[i].ids /\ I[j].path \in Imports[r]
Whole(l, I) == \A p \in Paths : l.id[p] # None => Closed(l, I, l.id[p])
PathsRight(l, I) == \A p \in Paths : l.id[p] # None => I[l.id[p]].path = p

\* The packages a scope has got: those that are not degraded are cached.
Sound(got, I, d) == got[d] \in DOMAIN I /\ ~I[got[d]].failed
ScopeWhole(got, l, I) ==
    \A p \in Paths : got[p] # None =>
        got[p] \in DOMAIN I /\ I[got[p]].path = p /\ (~I[got[p]].failed => l.id[p] = got[p])

\* A check refers to what the imports it has resolved refer to, and to nothing
\* else, until it is degraded; and a result is a package of the path asked for.
FrameWhole(f, got, I, gaveUp) ==
    /\ f.pc \notin {"check", "exit", "close"} => f.ids = {}
    /\ f.pc = "check" /\ ~f.failed =>
         /\ ~gaveUp => \A d \in Imports[f.path] \ f.todo : Sound(got, I, d) /\ I[got[d]].ids \subseteq f.ids
         /\ \A j \in f.ids : \E d \in Imports[f.path] : Sound(got, I, d) /\ j \in I[got[d]].ids
    /\ f.pc = "exit" /\ f.res # Err => f.res \in DOMAIN I /\ I[f.res].path = f.path
StackWhole(s, got, I, gaveUp) == \A n \in 1..Len(s) : FrameWhole(s[n], got, I, gaveUp)

\* A package that is not degraded refers to one package per path.
OneEach(I, i) == \A j, k \in I[i].ids : j \in DOMAIN I /\ (I[j].path = I[k].path => j = k)
AllWhole(I) == \A i \in DOMAIN I : I[i].failed \/ OneEach(I, i)

\* More packages, what there was as it was.
Extends(I, J) ==
    \A i \in DOMAIN I : i # None /\ i \in DOMAIN J /\ J[i].path = I[i].path /\ J[i].ids = I[i].ids /\ J[i].failed = I[i].failed
GotMore(got, got2) == \A p \in Paths : got[p] # None => got2[p] = got[p]

\* Nothing cached is replaced or added.
Fewer(l, m) == \A p \in Paths : m.id[p] \in {l.id[p], None}

\* A cache that shrinks gets nothing new.
LEMMA ShrunkFewer ==
    ASSUME NEW l, NEW m, Shrunk(l, m)
    PROVE  Fewer(l, m)
BY DEF Shrunk, Fewer

\* What a step frees, nothing cached refers to: the first path freed of a
\* closure would have an importer in it that is still cached.
LEMMA WholeShrinks ==
    ASSUME NEW l, NEW m, NEW I, NEW g, Fewer(l, m), FreedOf(l, m, g), Whole(l, I), PathsRight(l, I),
           \A i \in DOMAIN I : i # None /\ I[i].path \in Paths
    PROVE  Whole(m, I)
<1>. SUFFICES ASSUME NEW p \in Paths, m.id[p] # None PROVE Closed(m, I, m.id[p])
  BY DEF Whole
<1>1. PICK i : i = l.id[p] /\ m.id[p] = i /\ i # None
  BY DEF Fewer
<1>2. Closed(l, I, i) /\ I[i].path = p
  BY <1>1 DEF Whole, PathsRight
<1>3. \A j \in I[i].ids : j \in DOMAIN I /\ I[j].path \in Paths /\ l.id[I[j].path] = j /\ j # None
  BY <1>2 DEF Closed, Current
<1>4. \A j \in I[i].ids : m.id[I[j].path] = j
  <2>. DEFINE Lost == {j \in I[i].ids : m.id[I[j].path] = None}
              Places == {Pos(I[j].path) : j \in Lost}
  <2>1. ASSUME Lost # {} PROVE FALSE
    <3>1. Places \in SUBSET Nat /\ Places # {}
      BY <1>3, <2>1, PosOfPath
    <3>2. PICK n \in Places : \A o \in Places : n <= o
      <4>. HIDE DEF Places
      <4>. QED  BY <3>1, LeastNat
    <3>3. PICK j \in Lost : n = Pos(I[j].path)
      BY <3>2
    <3>4. PICK q \in Paths : q = I[j].path /\ l.id[q] = j /\ j # None /\ m.id[q] = None
      BY <1>3, <3>3
    <3>5. j # i
      BY <1>1, <1>2, <3>4
    <3>6. PICK r \in Paths : l.id[r] \in I[i].ids /\ q \in Imports[r]
      BY <1>2, <3>3, <3>4, <3>5 DEF Closed
    <3>7. l.id[r] # None /\ I[l.id[r]].path = r
      BY <1>3, <3>6 DEF PathsRight
    <3>8. Pos(r) < Pos(q) /\ Pos(r) \in Nat /\ Pos(q) \in Nat
      BY <3>6, ImportsLater, PosOfPath
    <3>9. m.id[r] # None
      <4>1. ASSUME m.id[r] = None PROVE FALSE
        <5>1. l.id[r] \in Lost
          BY <3>6, <3>7, <4>1
        <5>2. Pos(r) \in Places
          BY <3>7, <5>1
        <5>. QED  BY <3>2, <3>3, <3>4, <3>8, <5>2
      <4>. QED  BY <4>1
    <3>10. r \in Importers(m, q)
      BY <3>6, <3>9 DEF Importers
    <3>. QED  BY <3>4, <3>10 DEF FreedOf
  <2>. QED  BY <1>3, <2>1 DEF Fewer
<1>5. \A j \in I[i].ids : Current(m, I, j)
  BY <1>3, <1>4 DEF Current
<1>6. ASSUME NEW j \in I[i].ids, j # i
      PROVE  \E r \in Paths : m.id[r] \in I[i].ids /\ I[j].path \in Imports[r]
  <2>1. PICK r \in Paths : l.id[r] \in I[i].ids /\ I[j].path \in Imports[r]
    BY <1>2, <1>6 DEF Closed
  <2>2. I[l.id[r]].path = r
    BY <1>3, <2>1 DEF PathsRight
  <2>3. m.id[r] = l.id[r]
    BY <1>4, <2>1, <2>2
  <2>. QED  BY <2>1, <2>3
<1>. QED  BY <1>1, <1>2, <1>5, <1>6 DEF Closed

\* The cache r with a package n of p, in J, that refers to F and itself.
Adds(r, m, I, J, n, p, F) ==
    /\ Extends(I, J) /\ Whole(r, I) /\ PathsRight(r, I) /\ \A i \in DOMAIN I : I[i].path \in Paths
    /\ n \in DOMAIN J /\ n \notin DOMAIN I /\ n # None /\ J[n].path = p /\ ~J[n].failed /\ J[n].ids = F \cup {n}
    /\ r.id[p] = None /\ \A q \in Paths : m.id[q] = IF q = p THEN n ELSE r.id[q]
    /\ \A j \in F : \E d \in Imports[p] : r.id[d] # None /\ j \in I[r.id[d]].ids /\ I[r.id[d]].ids \subseteq F

\* A package whose imports are all cached, and that refers to what they refer
\* to, keeps the cache whole.
LEMMA WholePuts ==
    ASSUME NEW r, NEW m, NEW I, NEW J, NEW n, NEW p \in Paths, NEW F, Adds(r, m, I, J, n, p, F)
    PROVE  Whole(m, J)
<1>0. /\ Extends(I, J) /\ Whole(r, I) /\ PathsRight(r, I) /\ \A i \in DOMAIN I : I[i].path \in Paths
      /\ n \in DOMAIN J /\ n \notin DOMAIN I /\ n # None /\ J[n].path = p /\ ~J[n].failed /\ J[n].ids = F \cup {n}
      /\ r.id[p] = None /\ \A q \in Paths : m.id[q] = IF q = p THEN n ELSE r.id[q]
      /\ \A j \in F : \E d \in Imports[p] : r.id[d] # None /\ j \in I[r.id[d]].ids /\ I[r.id[d]].ids \subseteq F
  BY DEF Adds
<1>1. ASSUME NEW i, NEW j, Closed(r, I, i), j \in I[i].ids
      PROVE  /\ j \in DOMAIN I /\ j # None /\ Current(m, J, j) /\ J[j].path = I[j].path
             /\ j = i \/ \E q \in Paths : m.id[q] \in I[i].ids /\ I[j].path \in Imports[q]
  <2>1. Current(r, I, j)
    BY <1>1 DEF Closed
  <2>2. j \in DOMAIN I /\ j # None /\ r.id[I[j].path] = j /\ I[j].path # p /\ J[j].path = I[j].path /\ j \in DOMAIN J
    BY <1>0, <2>1 DEF Current, Extends
  <2>3. Current(m, J, j)
    BY <1>0, <2>2 DEF Current
  <2>4. ASSUME j # i PROVE \E q \in Paths : m.id[q] \in I[i].ids /\ I[j].path \in Imports[q]
    <3>1. PICK q \in Paths : r.id[q] \in I[i].ids /\ I[j].path \in Imports[q]
      BY <1>1, <2>4 DEF Closed
    <3>2. r.id[q] \in DOMAIN I
      BY <1>1, <3>1 DEF Closed, Current
    <3>3. q # p
      BY <1>0, <3>2 DEF Extends
    <3>. QED  BY <1>0, <3>1, <3>3
  <2>. QED  BY <2>2, <2>3, <2>4
<1>2. ASSUME NEW q \in Paths, q # p, m.id[q] # None PROVE Closed(m, J, m.id[q])
  <2>1. PICK i : i = m.id[q] /\ i = r.id[q]
    BY <1>0, <1>2
  <2>2. Closed(r, I, i)
    BY <1>0, <1>2, <2>1 DEF Whole
  <2>3. i \in DOMAIN J /\ ~J[i].failed /\ J[i].ids = I[i].ids /\ i \in J[i].ids
    BY <1>0, <2>2 DEF Closed, Extends
  <2>. QED  BY <1>1, <2>1, <2>2, <2>3 DEF Closed
<1>3. Closed(m, J, n)
  <2>1. ASSUME NEW j \in F
        PROVE  Current(m, J, j) /\ \E q \in Paths : m.id[q] \in J[n].ids /\ J[j].path \in Imports[q]
    <3>1. PICK d \in Imports[p] : r.id[d] # None /\ j \in I[r.id[d]].ids /\ I[r.id[d]].ids \subseteq F
      BY <1>0, <2>1
    <3>2. PICK i : i = r.id[d] /\ d \in Paths
      BY <3>1, ImportsLater
    <3>3. Closed(r, I, i) /\ I[i].path = d
      BY <1>0, <3>1, <3>2 DEF Whole, PathsRight
    <3>4. /\ Current(m, J, j) /\ J[j].path = I[j].path
          /\ j = i \/ \E q \in Paths : m.id[q] \in I[i].ids /\ I[j].path \in Imports[q]
      BY <1>1, <3>1, <3>2, <3>3
    <3>5. CASE j = i
      BY <1>0, <3>1, <3>3, <3>4, <3>5
    <3>6. CASE \E q \in Paths : m.id[q] \in I[i].ids /\ I[j].path \in Imports[q]
      BY <1>0, <3>1, <3>2, <3>4, <3>6
    <3>. QED  BY <3>4, <3>5, <3>6
  <2>2. Current(m, J, n)
    BY <1>0 DEF Current
  <2>. QED  BY <1>0, <2>1, <2>2 DEF Closed
<1>. QED  BY <1>0, <1>2, <1>3 DEF Whole

\* What a cached package refers to is one package per path.
LEMMA WholeIsOne ==
    ASSUME NEW l, NEW I, Whole(l, I), NEW p \in Paths, l.id[p] # None
    PROVE  OneEach(I, l.id[p])
BY DEF Whole, Closed, Current, OneEach

\* More packages change nothing of what is whole.
LEMMA WholeExtends ==
    ASSUME NEW l, NEW I, NEW J, Extends(I, J), Whole(l, I)
    PROVE  Whole(l, J)
<1>. SUFFICES ASSUME NEW p \in Paths, l.id[p] # None PROVE Closed(l, J, l.id[p])
  BY DEF Whole
<1>1. PICK i : i = l.id[p] /\ Closed(l, I, i)
  BY DEF Whole
<1>2. i \in DOMAIN J /\ ~J[i].failed /\ J[i].ids = I[i].ids
  BY <1>1 DEF Closed, Extends
<1>3. \A j \in I[i].ids : j \in DOMAIN J /\ J[j].path = I[j].path /\ Current(l, J, j)
  BY <1>1 DEF Closed, Extends, Current
<1>. QED  BY <1>1, <1>2, <1>3 DEF Closed

\* More packages do not change what a package refers to.
LEMMA OneEachExtends ==
    ASSUME NEW I, NEW J, Extends(I, J), NEW i \in DOMAIN I, OneEach(I, i)
    PROVE  OneEach(J, i)
BY DEF Extends, OneEach

\* The same of a frame, whose scope may have got more too.
LEMMA FrameExtends ==
    ASSUME NEW f, NEW got, NEW I, NEW c, FrameWhole(f, got, I, c), f.path \in Paths,
           NEW got2, NEW J, NEW c2, GotMore(got, got2), Extends(I, J), c => c2
    PROVE  FrameWhole(f, got2, J, c2)
<1>1. ASSUME NEW d \in Imports[f.path], Sound(got, I, d)
      PROVE  Sound(got2, J, d) /\ J[got2[d]].ids = I[got[d]].ids
  <2>1. d \in Paths
    BY ImportsLater
  <2>. QED  BY <1>1, <2>1 DEF Sound, GotMore, Extends
<1>. QED  BY <1>1 DEF FrameWhole, Extends

\* A stack is cut.
LEMMA CutWhole ==
    ASSUME NEW s, NEW got, NEW I, NEW c, StackWhole(s, got, I, c), \A n \in 1..Len(s) : s[n].path \in Paths,
           NEW t, NEW n, NEW e, Cut(s, t, n, e),
           NEW got2, NEW J, NEW c2, GotMore(got, got2), Extends(I, J), c => c2, FrameWhole(e, got2, J, c2)
    PROVE  StackWhole(t, got2, J, c2)
<1>1. Len(t) = n /\ n \in Nat \ {0} /\ n - 1 <= Len(s) /\ Len(s) \in Nat /\ t[n] = e /\ \A i \in 1..(n - 1) : t[i] = s[i]
  BY DEF Cut
<1>2. ASSUME NEW i \in 1..Len(t) PROVE FrameWhole(t[i], got2, J, c2)
  <2>1. CASE i = n
    BY <1>1, <2>1
  <2>2. CASE i # n
    <3>1. i \in 1..(n - 1) /\ i \in 1..Len(s)
      BY <1>1, <2>2
    <3>2. t[i] = s[i]
      BY <1>1, <3>1
    <3>3. PICK f : f = s[i] /\ f.path \in Paths /\ FrameWhole(f, got, I, c)
      BY <3>1 DEF StackWhole
    <3>. QED  BY <3>2, <3>3, FrameExtends
  <2>. QED  BY <2>1, <2>2
<1>. QED  BY <1>2 DEF StackWhole

\* A stack stays, while packages are added.
LEMMA StackExtends ==
    ASSUME NEW s, NEW got, NEW I, NEW c, StackWhole(s, got, I, c), \A n \in 1..Len(s) : s[n].path \in Paths,
           NEW got2, NEW J, NEW c2, GotMore(got, got2), Extends(I, J), c => c2
    PROVE  StackWhole(s, got2, J, c2)
<1>1. ASSUME NEW i \in 1..Len(s) PROVE FrameWhole(s[i], got2, J, c2)
  <2>1. PICK f : f = s[i] /\ f.path \in Paths /\ FrameWhole(f, got, I, c)
    BY DEF StackWhole
  <2>. QED  BY <2>1, FrameExtends
<1>. QED  BY <1>1 DEF StackWhole

ScopesWhole == \A x \in Procs : ScopeWhole(scope[x].got, lru["decl"], inst)
FramesWhole == \A x \in Procs : StackWhole(stack[x], scope[x].got, inst, x \in canceled)
WholeInv ==
    load.plain /\ slips = {} =>
        Whole(lru["decl"], inst) /\ ScopesWhole /\ FramesWhole /\ AllWhole(inst)

\* What a step leaves in the scopes is what was cached before it.
Gains == \A y \in Procs : ScopeWhole(scope'[y].got, lru["decl"], inst)

\* A step adds packages and keeps those there are.
LEMMA InstExtends ==
    ASSUME TypeInv, InstGrows
    PROVE  Extends(inst, inst')
BY DEF Extends, InstGrows, None

\* A scope that stays has what it had.
LEMMA GotSame ==
    ASSUME NEW got
    PROVE  GotMore(got, got)
BY DEF GotMore

\* Frames are for paths.
LEMMA PathsOfFrames ==
    ASSUME TypeInv, NEW y \in Procs
    PROVE  \A n \in 1..Len(stack[y]) : stack[y][n].path \in Paths /\ stack[y][n] \in FrameType(Ids)
BY DEF TypeInv, CallsTyped, StackInv, FrameInv, FrameType

\* One stack is cut, the others stay as they are.
LEMMA OneCutWhole ==
    ASSUME TypeInv, FramesWhole, InstGrows, NEW x \in Procs, NEW n, NEW e, OneCut(x, n, e), canceled' = canceled,
           \A y \in Procs \ {x} : scope'[y].got = scope[y].got,
           NEW got2, got2 = scope'[x].got, GotMore(scope[x].got, got2),
           NEW J, J = inst', FrameWhole(e, got2, J, x \in canceled)
    PROVE  FramesWhole'
<1>1. Extends(inst, J)
  BY InstExtends
<1>2. ASSUME NEW y \in Procs, y # x PROVE StackWhole(stack'[y], scope'[y].got, J, y \in canceled)
  <2>1. PICK s, got : s = stack[y] /\ got = scope[y].got
    OBVIOUS
  <2>2. StackWhole(s, got, inst, y \in canceled) /\ \A i \in 1..Len(s) : s[i].path \in Paths
    BY <2>1, PathsOfFrames DEF FramesWhole
  <2>3. StackWhole(s, got, J, y \in canceled)
    BY <1>1, <2>2, GotSame, StackExtends
  <2>4. stack'[y] = s /\ scope'[y].got = got
    BY <1>2, <2>1 DEF OneCut
  <2>. QED  BY <2>3, <2>4
<1>3. StackWhole(stack'[x], got2, J, x \in canceled)
  <2>1. PICK s, t, got : s = stack[x] /\ t = stack'[x] /\ got = scope[x].got
    OBVIOUS
  <2>2. StackWhole(s, got, inst, x \in canceled) /\ \A i \in 1..Len(s) : s[i].path \in Paths
    BY <2>1, PathsOfFrames DEF FramesWhole
  <2>3. Cut(s, t, n, e) /\ GotMore(got, got2)
    BY <2>1 DEF OneCut
  <2>4. StackWhole(t, got2, J, x \in canceled)
    BY <1>1, <2>2, <2>3, CutWhole
  <2>. QED  BY <2>1, <2>4
<1>. QED  BY <1>2, <1>3 DEF FramesWhole

\* The importer takes what its import's result refers to.
LEMMA ImportedWhole ==
    ASSUME NEW I, NEW g \in FrameType(I), NEW p \in Imports[g.path], g.pc = "check",
           NEW J, NEW got, NEW c, FrameWhole(g, got, J, c), g.path \in Paths,
           NEW got2, GotMore(got, got2), \A i \in DOMAIN J : i # None,
           NEW ids \in SUBSET I, NEW degraded \in BOOLEAN,
           ~degraded => Sound(got2, J, p) /\ ids = J[got2[p]].ids
    PROVE  FrameWhole(Imported(g, p, ids, degraded), got2, J, c)
<1>1. PICK e : e = Imported(g, p, ids, degraded)
  OBVIOUS
<1>2. /\ e.path = g.path /\ e.pc = "check" /\ e.todo = g.todo \ {p} /\ e.ids = g.ids \cup ids
      /\ e.failed <=> g.failed \/ degraded
  <2>1. e.path = g.path /\ e.pc = "check" /\ e.todo = g.todo \ {p} /\ e.ids = g.ids \cup ids
    BY <1>1 DEF Imported, FrameType
  <2>2. e.failed <=> g.failed \/ degraded
    BY <1>1, ImportedFails
  <2>. QED  BY <2>1, <2>2
<1>3. ASSUME ~e.failed PROVE FrameWhole(e, got2, J, c)
  <2>1. FrameWhole(g, got2, J, c)
    <3>1. Extends(J, J)
      BY DEF Extends
    <3>. QED  BY <3>1, FrameExtends
  <2>2. /\ ~c => \A d \in Imports[g.path] \ g.todo : Sound(got2, J, d) /\ J[got2[d]].ids \subseteq g.ids
        /\ \A j \in g.ids : \E d \in Imports[g.path] : Sound(got2, J, d) /\ j \in J[got2[d]].ids
    BY <1>2, <1>3, <2>1 DEF FrameWhole
  <2>3. Sound(got2, J, p) /\ ids = J[got2[p]].ids
    BY <1>2, <1>3
  <2>4. ~c => \A d \in Imports[g.path] \ e.todo : Sound(got2, J, d) /\ J[got2[d]].ids \subseteq e.ids
    BY <1>2, <2>2, <2>3
  <2>5. \A j \in e.ids : \E d \in Imports[g.path] : Sound(got2, J, d) /\ j \in J[got2[d]].ids
    BY <1>2, <2>2, <2>3
  <2>. QED  BY <1>2, <2>4, <2>5 DEF FrameWhole
<1>4. ASSUME e.failed PROVE FrameWhole(e, got2, J, c)
  BY <1>2, <1>4 DEF FrameWhole
<1>. QED  BY <1>1, <1>3, <1>4

\* A call returns with a package that its scope has got, or with an error.
LEMMA ReturnWhole ==
    ASSUME TypeInv, FramesWhole, NEW x \in Procs, Running(x), NEW res \in Ids \ {None}, NEW sc \in ScopeType(Ids),
           NEW n, NEW e, OneCut(x, n, e), ReturnsFrom(x, res, sc, n, e), canceled' = canceled,
           GotMore(scope[x].got, sc.got), res # Err => sc.got[Top(x).path] = res /\ res \in DOMAIN inst
    PROVE  FramesWhole'
<1>1. CallsTyped /\ StateTyped
  BY DEF TypeInv
<1>2. /\ InstGrows /\ scope'[x].got = sc.got
      /\ \A y \in Procs \ {x} : scope'[y] = scope[y]
  BY <1>1, ReturnedFrame
<1>3. PICK f, s, p, got, got2, J : f = Top(x) /\ s = stack[x] /\ p = f.path /\ got = scope[x].got /\ got2 = sc.got /\ J = inst'
  OBVIOUS
<1>4. StackInv(s, got, Ids) /\ Len(s) \in Nat \ {0} /\ f = s[Len(s)] /\ f \in FrameType(Ids) /\ p \in Paths
  BY <1>1, <1>3, TopTyped
<1>5. Extends(inst, J) /\ \A i \in DOMAIN J : i # None
  BY <1>2, <1>3, InstExtends DEF InstGrows, None
<1>6. FrameWhole(e, got2, J, x \in canceled)
  <2>1. CASE e = Ended(f, "close", res)
    <3>1. e.pc = "close"
      BY <1>4, <2>1 DEF Ended, FrameType
    <3>. QED  BY <3>1 DEF FrameWhole
  <2>2. CASE Len(s) > 1
    <3>1. PICK g : g = s[Len(s) - 1]
      OBVIOUS
    <3>2. /\ g \in FrameType(Ids) /\ Nested(g, f) /\ g.path \in Paths
          /\ FrameWhole(g, got, inst, x \in canceled)
      <4>1. Len(s) - 1 \in 1..Len(s) /\ Len(s) - 1 \in 1..(Len(s) - 1) /\ (Len(s) - 1) + 1 = Len(s)
        BY <1>4, <2>2
      <4>. QED  BY <1>3, <1>4, <3>1, <4>1 DEF StackInv, FrameInv, FrameType, FramesWhole, StackWhole
    <3>3. g.pc = "check" /\ p \in Imports[g.path]
      BY <1>3, <3>2 DEF Nested
    <3>4. FrameWhole(g, got2, J, x \in canceled) /\ g \in FrameType(Ids')
      <4>1. g \in FrameType(Ids')
        BY <1>2, <3>2 DEF InstGrows, FrameType
      <4>. QED  BY <1>3, <1>5, <3>2, <4>1, FrameExtends
    <3>5. CASE res # Err /\ e = Imported(g, p, Reach(res), res > 0 /\ inst[res].failed)
      <4>1. res \in DOMAIN inst /\ got2[p] = res /\ res > 0 /\ res \in Int
        BY <1>1, <1>3, <3>5, IdsHere DEF StateTyped
      <4>2. PICK ids, b : ids = Reach(res) /\ b = (res > 0 /\ inst[res].failed)
        OBVIOUS
      <4>3. ids = inst[res].ids /\ (b <=> inst[res].failed) /\ b \in BOOLEAN /\ ids \in SUBSET Ids
        <5>1. ids = inst[res].ids
          BY <4>1, <4>2 DEF Reach
        <5>2. inst[res] \in InstType(Ids)
          BY <1>1, <4>1 DEF StateTyped
        <5>. HIDE DEF Ids
        <5>3. inst[res].ids \in SUBSET Ids /\ inst[res].failed \in BOOLEAN
          BY <5>2 DEF InstType
        <5>. QED  BY <4>1, <4>2, <5>1, <5>3
      <4>4. res \in DOMAIN J /\ J[res].failed = inst[res].failed /\ J[res].ids = inst[res].ids
        BY <1>5, <4>1 DEF Extends
      <4>5. ~b => Sound(got2, J, p) /\ ids = J[got2[p]].ids
        BY <4>1, <4>3, <4>4 DEF Sound
      <4>6. ids \in SUBSET Ids' /\ e = Imported(g, p, ids, b)
        BY <1>2, <3>5, <4>2, <4>3 DEF InstGrows
      <4>. HIDE DEF Ids
      <4>. QED  BY <1>5, <3>2, <3>3, <3>4, <4>3, <4>5, <4>6, GotSame, ImportedWhole
    <3>6. CASE x \in canceled /\ e = [g EXCEPT !.todo = {}]
      <4>1. e.path = g.path /\ e.pc = g.pc /\ e.ids = g.ids /\ e.failed = g.failed
        BY <3>2, <3>6, GivenUpTyped DEF ImportedFrom
      <4>. QED  BY <3>3, <3>4, <3>6, <4>1 DEF FrameWhole
    <3>7. CASE e = Imported(g, p, {Len(inst) + 1}, TRUE)
      <4>1. e.path = g.path /\ e.pc = "check" /\ e.failed
        BY <3>2, <3>3, <3>7 DEF Imported, FrameType
      <4>. QED  BY <4>1 DEF FrameWhole
    <3>8. \/ res # Err /\ e = Imported(g, p, Reach(res), res > 0 /\ inst[res].failed)
          \/ x \in canceled /\ e = [g EXCEPT !.todo = {}]
          \/ e = Imported(g, p, {Len(inst) + 1}, TRUE)
          \/ Len(s) = 1
      <4>1. \/ res # Err /\ e = Imported(stack[x][Len(stack[x]) - 1], Top(x).path, Reach(res), res > 0 /\ inst[res].failed)
            \/ x \in canceled /\ e = [stack[x][Len(stack[x]) - 1] EXCEPT !.todo = {}]
            \/ e = Imported(stack[x][Len(stack[x]) - 1], Top(x).path, {Len(inst) + 1}, TRUE)
            \/ Len(stack[x]) = 1
        BY Zenon DEF ReturnsFrom
      <4>2. g = stack[x][Len(stack[x]) - 1]
        BY <1>3, <3>1
      <4>. QED  BY <1>3, <4>1, <4>2
    <3>9. Len(s) # 1
      BY <1>4, <2>2
    <3>. QED  BY <3>5, <3>6, <3>7, <3>8, <3>9, Zenon
  <2>. QED  BY <1>3, <2>1, <2>2 DEF ReturnsFrom
<1>. QED  BY <1>2, <1>3, <1>6, OneCutWhole

\* The scopes that got nothing have what they had.
LEMMA GainsNothing ==
    ASSUME ScopesWhole, ScopesKeep
    PROVE  Gains
BY DEF ScopesWhole, ScopesKeep, Gains

\* A scope got what is cached for its path.
LEMMA GainsOne ==
    ASSUME ScopesWhole, NEW x \in Procs, NEW p \in Paths, Takes(x, p),
           NEW i \in DOMAIN inst, scope'[x].got[p] = i, inst[i].path = p, ~inst[i].failed => lru["decl"].id[p] = i
    PROVE  Gains
<1>1. ASSUME NEW y \in Procs, NEW q \in Paths, scope'[y].got[q] # None
      PROVE  LET j == scope'[y].got[q]
             IN  j \in DOMAIN inst /\ inst[j].path = q /\ (~inst[j].failed => lru["decl"].id[q] = j)
  <2>1. CASE y = x /\ q = p
    BY <2>1
  <2>2. CASE ~(y = x /\ q = p)
    <3>1. scope'[y].got[q] = scope[y].got[q]
      BY <2>2 DEF Takes
    <3>. QED  BY <1>1, <3>1 DEF ScopesWhole, ScopeWhole
  <2>. QED  BY <2>1, <2>2
<1>. QED  BY <1>1 DEF Gains, ScopeWhole

\* The top frame moves on and refers to nothing yet.
LEMMA MoveWhole ==
    ASSUME TypeInv, FramesWhole, NEW x \in Procs, Running(x), NEW e, stack' = SetTop(x, e),
           scope' = scope, inst' = inst, canceled' = canceled, FrameWhole(e, scope[x].got, inst, x \in canceled)
    PROVE  FramesWhole'
<1>1. OneCut(x, Len(stack[x]), e)
  BY TopCut, TopTyped DEF TypeInv
<1>2. InstGrows
  BY InstStays DEF TypeInv
<1>3. PICK got2, J : got2 = scope'[x].got /\ J = inst' /\ got2 = scope[x].got /\ J = inst
  OBVIOUS
<1>4. GotMore(scope[x].got, got2)
  BY <1>3, GotSame
<1>5. FrameWhole(e, got2, J, x \in canceled)
  BY <1>3
<1>6. \A y \in Procs \ {x} : scope'[y].got = scope[y].got
  OBVIOUS
<1>. QED  BY <1>1, <1>2, <1>3, <1>4, <1>5, <1>6, OneCutWhole

\* The top frame of a call.
LEMMA TopWhole ==
    ASSUME TypeInv, FramesWhole, NEW x \in Procs, Running(x)
    PROVE  FrameWhole(Top(x), scope[x].got, inst, x \in canceled) /\ Top(x) \in FrameType(Ids) /\ Top(x).path \in Paths
<1>1. Top(x) = stack[x][Len(stack[x])] /\ Len(stack[x]) \in 1..Len(stack[x]) /\ Top(x).path \in Paths /\ Top(x) \in FrameType(Ids)
  BY TopTyped DEF TypeInv
<1>. QED  BY <1>1 DEF FramesWhole, StackWhole

\* A frame that goes on keeps frames whole.
LEMMA AdvanceWhole ==
    ASSUME TypeInv, FramesWhole, NEW x \in Procs, Running(x), Top(x).pc \notin {"check", "exit", "close"},
           NEW pc \in Pcs \ {"check", "exit", "close"}, NEW e, e = [Top(x) EXCEPT !.pc = pc], stack' = SetTop(x, e),
           scope' = scope, inst' = inst, canceled' = canceled
    PROVE  FramesWhole'
<1>1. PICK f : f = Top(x)
  OBVIOUS
<1>2. FrameWhole(f, scope[x].got, inst, x \in canceled) /\ f \in FrameType(Ids)
  BY <1>1, TopWhole
<1>3. e.pc = pc /\ e.ids = f.ids
  BY <1>1, <1>2 DEF FrameType
<1>4. e.ids = {}
  BY <1>1, <1>2, <1>3 DEF FrameWhole
<1>5. FrameWhole(e, scope[x].got, inst, x \in canceled)
  BY <1>3, <1>4 DEF FrameWhole
<1>. QED  BY <1>5, MoveWhole

\* A lookup keeps frames whole.
LEMMA LookupWhole ==
    ASSUME TypeInv, CachedPath, PlainInv, LoadPlain, load.plain, ScopesWhole, FramesWhole, NEW x \in Procs, Lookup(x)
    PROVE  FramesWhole' /\ Gains
<1>0. PICK p0 : p0 = Top(x).path
  OBVIOUS
<1>1. /\ Running(x) /\ Top(x).pc \in {"ask", "pin"}
      /\ UNCHANGED <<waiters, flight, ret, canceled, birth, slips, load>>
  BY DEF Lookup
<1>2. CallsTyped /\ StateTyped
  BY DEF TypeInv
<1>3. p0 \in Paths /\ scope[x] \in ScopeType(Ids) /\ scope[x].got[p0] \in Ids /\ Err \in Ids \ {None}
  <2>1. p0 \in Paths /\ scope[x] \in ScopeType(Ids)
    BY <1>0, <1>1, <1>2, TopTyped
  <2>. QED  BY <1>2, <2>1, IdsHere DEF StateTyped, ScopeType
<1>4. ASSUME NEW k \in Kinds, NEW n, NEW e, Hits(x, k, n, e), scope[x].got[p0] = None
      PROVE  FramesWhole' /\ Gains
  <2>1. lru[k].id[p0] # None
    BY <1>0, <1>4, Zenon DEF Hits
  <2>2. k = "decl"
    BY <1>3, <2>1 DEF PlainInv, FullEmpty, Kinds
  <2>3. PICK l, i, sc : l = lru[k] /\ i = l.id[p0] /\ sc = ScopePut(x, p0, i, k)
    OBVIOUS
  <2>4. OneCut(x, n, e) /\ ReturnsFrom(x, i, sc, n, e)
    BY <1>0, <1>4, <2>3, Zenon DEF Hits
  <2>5. i \in Ids \ {None} /\ i \in DOMAIN inst /\ inst[i].path = p0 /\ l = lru["decl"]
    BY <1>2, <1>3, <2>1, <2>2, <2>3, LruHere DEF CachedPath
  <2>6. /\ sc \in ScopeType(Ids) /\ sc.got[p0] = i /\ sc.via[p0] = k
        /\ \A q \in Paths : q # p0 => sc.got[q] = scope[x].got[q] /\ sc.via[q] = scope[x].via[q]
    BY <1>2, <1>3, <1>4, <2>3, <2>5, ScopePutTyped
  <2>7. /\ \A y \in Procs \ {x} : scope'[y] = scope[y]
        /\ scope'[x].got = sc.got /\ scope'[x].via = sc.via
    BY <1>1, <1>2, <2>4, <2>5, <2>6, ReturnedFrame
  <2>8. Takes(x, p0)
    BY <1>4, <2>2, <2>5, <2>6, <2>7 DEF Takes
  <2>9. Gains
    BY <1>3, <2>3, <2>5, <2>6, <2>7, <2>8, GainsOne
  <2>10. GotMore(scope[x].got, sc.got)
    BY <1>4, <2>6 DEF GotMore
  <2>11. FramesWhole'
    BY <1>0, <1>1, <2>4, <2>5, <2>6, <2>10, ReturnWhole
  <2>. QED  BY <2>9, <2>11
<1>5. ASSUME NEW pc \in {"enter", "pin"}, Advances(x, pc)
      PROVE  FramesWhole' /\ Gains
  <2>1. PICK e : e = [Top(x) EXCEPT !.pc = pc] /\ stack' = SetTop(x, e)
    BY <1>5 DEF Advances
  <2>2. scope' = scope /\ inst' = inst /\ pc \in Pcs \ {"check", "exit", "close"} /\ Top(x).pc \notin {"check", "exit", "close"}
    BY <1>1, <1>5 DEF Advances, Pcs
  <2>. QED  BY <1>1, <2>1, <2>2, AdvanceWhole, GainsNothing DEF ScopesKeep
<1>6. ~load.decode
  BY DEF LoadPlain
<1>7. ASSUME NEW res \in Ids \ {None}, NEW n, NEW e, OneCut(x, n, e), ReturnsFrom(x, res, scope[x], n, e),
             res # Err => scope[x].got[p0] = res /\ res \in DOMAIN inst
      PROVE  FramesWhole' /\ Gains
  <2>1. PICK sc : sc = scope[x]
    OBVIOUS
  <2>2. sc \in ScopeType(Ids) /\ GotMore(scope[x].got, sc.got) /\ ReturnsFrom(x, res, sc, n, e)
    BY <1>3, <1>7, <2>1, GotSame
  <2>3. FramesWhole'
    BY <1>0, <1>1, <1>7, <2>1, <2>2, ReturnWhole
  <2>4. /\ \A y \in Procs \ {x} : scope'[y] = scope[y]
        /\ scope'[x].got = sc.got /\ scope'[x].via = sc.via
    BY <1>1, <1>2, <1>7, <2>2, ReturnedFrame
  <2>. QED  BY <2>1, <2>3, <2>4, GainsNothing DEF ScopesKeep
<1>8. scope[x].got[p0] # None => scope[x].got[p0] \in DOMAIN inst
  BY <1>3 DEF ScopesWhole, ScopeWhole
<1>. QED
  <2>1. CASE lru' = lru /\ \E n, e : \/ scope[x].got[p0] # None /\ OneCut(x, n, e) /\ ReturnsFrom(x, scope[x].got[p0], scope[x], n, e)
                                     \/ OneCut(x, n, e) /\ ReturnsFrom(x, Err, scope[x], n, e)
    BY <1>3, <1>7, <1>8, <2>1
  <2>2. CASE scope[x].got[p0] = None /\ \E k \in Kinds : \E n, e : Hits(x, k, n, e)
    BY <1>4, <2>2
  <2>3. CASE lru' = lru /\ scope[x].got[p0] = None /\ \E pc \in {"enter", "pin"} : Advances(x, pc)
    BY <1>5, <2>3
  <2>. QED  BY <1>0, <1>6, <2>1, <2>2, <2>3, Zenon DEF Lookup

\* Waiting for a flight keeps frames whole.
LEMMA WaitWhole ==
    ASSUME TypeInv, ScopesWhole, FramesWhole, NEW x \in Procs, enterWait(x) \/ join(x)
    PROVE  FramesWhole' /\ Gains
<1>1. /\ Running(x) /\ Top(x).pc \in {"enter", "do"} /\ UNCHANGED <<scope, inst, canceled>>
      /\ \E pc \in {"do", "wait", "lead"} : stack' = SetTop(x, [Top(x) EXCEPT !.pc = pc])
  <2>1. CASE enterWait(x)
    BY <2>1, Zenon DEF enterWait, At
  <2>2. CASE join(x)
    <3>1. /\ Running(x) /\ Top(x).pc = "do" /\ UNCHANGED <<scope, inst, canceled>>
          /\ stack' = SetTop(x, [Top(x) EXCEPT !.pc = IF flight[Top(x).kind][Top(x).path] THEN "wait" ELSE "lead"])
      BY <2>2, Zenon DEF join, At
    <3>2. PICK pc \in {"wait", "lead"} : pc = IF flight[Top(x).kind][Top(x).path] THEN "wait" ELSE "lead"
      OBVIOUS
    <3>. QED  BY <3>1, <3>2
  <2>. QED  BY <2>1, <2>2
<1>2. PICK pc \in {"do", "wait", "lead"} : stack' = SetTop(x, [Top(x) EXCEPT !.pc = pc])
  BY <1>1
<1>3. PICK e : e = [Top(x) EXCEPT !.pc = pc] /\ stack' = SetTop(x, e)
  BY <1>2
<1>4. pc \in Pcs \ {"check", "exit", "close"} /\ Top(x).pc \notin {"check", "exit", "close"}
  BY <1>1 DEF Pcs
<1>. QED  BY <1>1, <1>3, <1>4, AdvanceWhole, GainsNothing DEF ScopesKeep

\* A flight ends with a package of its path, or with an error.
LEMMA EndsWhole ==
    ASSUME TypeInv, FramesWhole, NEW x \in Procs, Running(x), NEW res \in Ids', EndFlight(x, res), InstGrows,
           scope' = scope, canceled' = canceled,
           res # Err => res \in DOMAIN inst' /\ inst'[res].path = Top(x).path
    PROVE  FramesWhole'
<1>1. CallsTyped
  BY DEF TypeInv
<1>2. Ends(x, res)
  BY <1>1, EndFlightEnds
<1>3. PICK J : J = inst'
  OBVIOUS
<1>4. Extends(inst, J)
  BY <1>3, InstExtends
<1>5. ASSUME NEW y \in Procs PROVE StackWhole(stack'[y], scope'[y].got, J, y \in canceled)
  <2>1. PICK s, t, got : s = stack[y] /\ t = stack'[y] /\ got = scope[y].got
    OBVIOUS
  <2>2. StackWhole(s, got, inst, y \in canceled) /\ \A i \in 1..Len(s) : s[i].path \in Paths
    BY <2>1, PathsOfFrames DEF FramesWhole
  <2>3. CASE ~Gets(x, y)
    <3>1. t = s
      BY <1>2, <2>1, <2>3 DEF Ends
    <3>2. StackWhole(s, got, J, y \in canceled)
      BY <1>4, <2>2, GotSame, StackExtends
    <3>. QED  BY <2>1, <3>1, <3>2
  <2>4. CASE Gets(x, y)
    <3>1. PICK e : e = Ended(Top(y), "exit", res) /\ Cut(s, t, Len(s), e)
      BY <1>2, <2>1, <2>4 DEF Ends
    <3>2. Running(y) /\ Top(y).path = Top(x).path
      BY <2>4 DEF Gets, Pair
    <3>3. Top(y) \in FrameType(Ids) /\ "exit" \in Pcs
      BY <1>1, <3>2, TopTyped DEF Pcs
    <3>4. e.pc = "exit" /\ e.res = res /\ e.path = Top(y).path
      BY <3>1, <3>3 DEF Ended, FrameType
    <3>5. FrameWhole(e, got, J, y \in canceled)
      BY <1>3, <3>2, <3>4 DEF FrameWhole
    <3>6. StackWhole(t, got, J, y \in canceled)
      BY <1>4, <2>2, <3>1, <3>5, GotSame, CutWhole
    <3>. QED  BY <2>1, <3>6
  <2>. QED  BY <2>3, <2>4
<1>. QED  BY <1>3, <1>5 DEF FramesWhole

\* lead keeps frames whole.
LEMMA leadWhole ==
    ASSUME TypeInv, CachedPath, ScopesWhole, FramesWhole, NEW x \in Procs, Leads(x)
    PROVE  FramesWhole' /\ Gains
<1>1. Running(x) /\ Top(x).pc = "lead" /\ UNCHANGED <<scope, canceled, inst>>
  BY DEF Leads
<1>2. CallsTyped /\ StateTyped
  BY DEF TypeInv
<1>3. Gains
  BY <1>1, GainsNothing DEF ScopesKeep
<1>4. InstGrows /\ Ids' = Ids
  BY <1>1, <1>2, InstStays
<1>5. Top(x).path \in Paths /\ Top(x) \in FrameType(Ids) /\ FrameWhole(Top(x), scope[x].got, inst, x \in canceled)
  BY <1>1, TopWhole
<1>6. ASSUME NEW k \in Kinds, lru[k].id[Top(x).path] # None, EndFlight(x, lru[k].id[Top(x).path])
      PROVE  FramesWhole'
  <2>1. PICK res : res = lru[k].id[Top(x).path]
    OBVIOUS
  <2>2. res \in Ids /\ res \in DOMAIN inst /\ inst[res].path = Top(x).path
    BY <1>2, <1>5, <1>6, <2>1, LruHere DEF CachedPath
  <2>3. res \in Ids' /\ EndFlight(x, res) /\ res \in DOMAIN inst' /\ inst'[res].path = Top(x).path
    BY <1>1, <1>4, <1>6, <2>1, <2>2
  <2>. QED  BY <1>1, <1>4, <2>3, EndsWhole
<1>7. ASSUME EndFlight(x, Err) PROVE FramesWhole'
  <2>1. Err \in Ids'
    BY <1>2, <1>4, IdsHere DEF StateTyped
  <2>. QED  BY <1>1, <1>4, <1>7, <2>1, EndsWhole
<1>8. ASSUME stack' = SetTop(x, [Top(x) EXCEPT !.pc = "check", !.todo = Imports[Top(x).path]]) PROVE FramesWhole'
  <2>1. PICK f, ps : f = Top(x) /\ ps = Imports[f.path]
    OBVIOUS
  <2>2. PICK e : e = [f EXCEPT !.pc = "check", !.todo = ps]
    OBVIOUS
  <2>3. e.pc = "check" /\ e.todo = ps /\ e.ids = f.ids /\ e.path = f.path
    BY <1>5, <2>1, <2>2 DEF FrameType
  <2>4. f.ids = {}
    BY <1>1, <1>5, <2>1 DEF FrameWhole
  <2>5. FrameWhole(e, scope[x].got, inst, x \in canceled)
    BY <2>1, <2>3, <2>4 DEF FrameWhole
  <2>6. stack' = SetTop(x, e)
    BY <1>8, <2>1, <2>2
  <2>. QED  BY <1>1, <2>5, <2>6, MoveWhole
<1>. QED  BY <1>3, <1>6, <1>7, <1>8, Zenon DEF Leads

\* An import keeps frames whole.
LEMMA ImportWhole ==
    ASSUME TypeInv, ScopesWhole, FramesWhole, NEW x \in Procs, NEW d \in Paths, Imports1(x, d)
    PROVE  FramesWhole' /\ Gains
<1>1. Running(x) /\ Top(x).pc = "check" /\ UNCHANGED <<scope, canceled, inst>>
  BY Zenon DEF Imports1
<1>2. Gains
  BY <1>1, GainsNothing DEF ScopesKeep
<1>3. PICK f : f = Top(x) /\ f \in FrameType(Ids) /\ FrameWhole(f, scope[x].got, inst, x \in canceled)
  BY <1>1, TopWhole
<1>4. CASE x \in canceled /\ stack' = SetTop(x, [f EXCEPT !.todo = {}])
  <2>1. PICK e : e = [f EXCEPT !.todo = {}] /\ stack' = SetTop(x, e)
    BY <1>4
  <2>2. e.path = f.path /\ e.pc = f.pc /\ e.ids = f.ids /\ e.failed = f.failed
    BY <1>3, <2>1, GivenUpTyped DEF ImportedFrom
  <2>3. FrameWhole(e, scope[x].got, inst, x \in canceled)
    BY <1>1, <1>3, <1>4, <2>2 DEF FrameWhole
  <2>. QED  BY <1>1, <1>2, <2>1, <2>3, MoveWhole
<1>5. CASE stack' = SetTop(x, Imported(f, d, {scope[x].holder[d]}, TRUE))
  <2>1. PICK e : e = Imported(f, d, {scope[x].holder[d]}, TRUE) /\ stack' = SetTop(x, e)
    BY <1>5
  <2>2. e.path = f.path /\ e.pc = "check" /\ e.failed
    BY <1>1, <1>3, <2>1 DEF Imported, FrameType
  <2>3. FrameWhole(e, scope[x].got, inst, x \in canceled)
    BY <2>2 DEF FrameWhole
  <2>. QED  BY <1>1, <1>2, <2>1, <2>3, MoveWhole
<1>6. CASE stack' = [stack EXCEPT ![x] = Append(stack[x], Frame(d, "decl", TRUE))]
  <2>1. PICK e : e = Frame(d, "decl", TRUE) /\ stack' = [stack EXCEPT ![x] = Append(stack[x], e)]
    BY <1>6
  <2>2. e.pc = "ask" /\ e.ids = {}
    BY <2>1 DEF Frame
  <2>3. OneCut(x, Len(stack[x]) + 1, e)
    BY <1>1, <2>1, PushCut, TopTyped DEF TypeInv
  <2>4. PICK got2, J : got2 = scope'[x].got /\ J = inst' /\ got2 = scope[x].got
    BY <1>1
  <2>5. GotMore(scope[x].got, got2) /\ FrameWhole(e, got2, J, x \in canceled)
    BY <2>2, <2>4, GotSame DEF FrameWhole
  <2>6. InstGrows
    BY <1>1, InstStays DEF TypeInv
  <2>. QED  BY <1>1, <1>2, <2>3, <2>4, <2>5, <2>6, OneCutWhole
<1>. QED  BY <1>3, <1>4, <1>5, <1>6, Zenon DEF Imports1

\* finishCheck keeps frames whole.
LEMMA finishWhole ==
    ASSUME TypeInv, ScopesWhole, FramesWhole, NEW x \in Procs, Finishes(x)
    PROVE  FramesWhole' /\ Gains
<1>1. Running(x) /\ UNCHANGED <<scope, canceled>>
  BY Zenon DEF Finishes
<1>2. CallsTyped /\ StateTyped
  BY DEF TypeInv
<1>3. Gains
  BY <1>1, GainsNothing DEF ScopesKeep
<1>4. CASE EndFlight(x, Err) /\ inst' = inst
  <2>1. InstGrows /\ Err \in Ids'
    BY <1>2, <1>4, InstStays, IdsHere DEF StateTyped
  <2>. QED  BY <1>1, <1>3, <1>4, <2>1, EndsWhole
<1>5. CASE /\ EndFlight(x, Len(inst) + 1)
           /\ inst' = Append(inst, [path |-> Top(x).path, ids |-> Top(x).ids \cup {Len(inst) + 1}, failed |-> Top(x).failed,
                                    old |-> Top(x).old, raced |-> Top(x).raced])
  <2>1. PICK f, r, i : /\ f = Top(x) /\ i = Len(inst) + 1
                       /\ r = [path |-> f.path, ids |-> f.ids \cup {Len(inst) + 1}, failed |-> f.failed, old |-> f.old, raced |-> f.raced]
    OBVIOUS
  <2>2. f \in FrameType(Ids) /\ inst' = Append(inst, r)
    BY <1>1, <1>2, <1>5, <2>1, TopTyped
  <2>3. InstGrows /\ Len(inst') = i /\ inst'[i] = r /\ i \in Ids' /\ i \in Nat \ {0}
    BY <1>2, <2>1, <2>2, CheckedInst
  <2>4. i \in DOMAIN inst' /\ inst'[i].path = Top(x).path
    BY <2>1, <2>3 DEF InstGrows
  <2>5. EndFlight(x, i)
    BY <1>5, <2>1
  <2>. QED  BY <1>1, <1>3, <2>3, <2>4, <2>5, EndsWhole
<1>. QED  BY <1>4, <1>5, Zenon DEF Finishes

\* exitWait keeps frames whole.
LEMMA exitWhole ==
    ASSUME TypeInv, PlainInv, load.plain, ScopesWhole, FramesWhole, "lost" \notin slips', NEW x \in Procs, Returns(x)
    PROVE  FramesWhole' /\ Gains
<1>1. PICK k0, p0, res : k0 = Top(x).kind /\ p0 = Top(x).path /\ res = Top(x).res /\ Exits(x, k0, p0, res)
  BY DEF Returns
<1>2. /\ Running(x) /\ Top(x).pc = "exit" /\ canceled' = canceled
      /\ res > 0 /\ ~inst[res].failed /\ Pinned(lru[k0], p0, res).id[p0] # res => "lost" \in slips'
      /\ \E n, e : OneCut(x, n, e) /\ ReturnsFrom(x, res, ExitScope(x), n, e)
  BY <1>1, Zenon DEF Exits
<1>3. CallsTyped /\ StateTyped
  BY DEF TypeInv
<1>4. k0 = "decl" /\ p0 \in Paths
  BY <1>1, <1>2, <1>3, TopPlain
<1>5. PICK sc, n, e : sc = ExitScope(x) /\ OneCut(x, n, e) /\ ReturnsFrom(x, res, sc, n, e)
  BY <1>2
<1>6. /\ res \in Ids \ {None} /\ scope[x].got[p0] = None /\ sc \in ScopeType(Ids)
      /\ \A q \in Paths : q # p0 => sc.got[q] = scope[x].got[q] /\ sc.via[q] = scope[x].via[q]
  BY <1>1, <1>2, <1>3, <1>5, ExitScopeTyped
<1>7. /\ \A y \in Procs \ {x} : scope'[y] = scope[y]
      /\ scope'[x].got = sc.got /\ scope'[x].via = sc.via
  BY <1>2, <1>3, <1>5, <1>6, ReturnedFrame
<1>8. GotMore(scope[x].got, sc.got)
  BY <1>6 DEF GotMore
<1>9. CASE res = Err
  <2>1. sc = scope[x]
    BY <1>1, <1>5, <1>9 DEF ExitScope
  <2>2. Gains
    BY <1>7, <2>1, GainsNothing DEF ScopesKeep
  <2>. QED  BY <1>2, <1>5, <1>6, <1>8, <1>9, <2>2, ReturnWhole
<1>10. CASE res # Err
  <2>1. sc = ScopePut(x, p0, res, "decl")
    BY <1>1, <1>4, <1>5, <1>10 DEF ExitScope
  <2>2. sc.got[p0] = res /\ sc.via[p0] = "decl"
    BY <1>3, <1>4, <1>6, <2>1, ScopePutTyped DEF Kinds
  <2>3. Takes(x, p0)
    BY <1>6, <1>7, <2>2 DEF Takes
  <2>4. res \in DOMAIN inst /\ inst[res].path = p0
    BY <1>1, <1>2, <1>10, TopWhole DEF FrameWhole
  <2>5. res > 0
    BY <1>3, <2>4, IdsHere DEF StateTyped
  <2>6. Pinned(lru["decl"], p0, res).id = lru["decl"].id
    <3>1. PICK l : l = lru["decl"] /\ LruOK(l)
      BY <1>3, LruHere DEF Kinds
    <3>2. Pinned(l, p0, res) = pin(l, p0)
      BY <1>10 DEF Pinned
    <3>. QED  BY <1>4, <3>1, <3>2, PinOK
  <2>7. ~inst[res].failed => lru["decl"].id[p0] = res
    BY <1>2, <1>4, <2>5, <2>6
  <2>8. Gains
    BY <1>4, <1>7, <2>2, <2>3, <2>4, <2>7, GainsOne
  <2>9. sc.got[Top(x).path] = res
    BY <1>1, <2>2
  <2>. QED  BY <1>2, <1>5, <1>6, <1>8, <2>4, <2>8, <2>9, ReturnWhole
<1>. QED  BY <1>9, <1>10

\* closeScope keeps frames whole.
LEMMA closeWhole ==
    ASSUME TypeInv, ScopesWhole, FramesWhole, NEW x \in Procs, Closes(x)
    PROVE  FramesWhole' /\ Gains
<1>1. /\ stack' = [stack EXCEPT ![x] = <<>>] /\ scope' = [scope EXCEPT ![x] = NoScope]
      /\ inst' = inst /\ canceled' = canceled
  BY Zenon DEF Closes
<1>2. DOMAIN stack = Procs /\ scope \in [Procs -> ScopeType(Ids)]
  BY DEF TypeInv, CallsTyped
<1>3. ASSUME NEW y \in Procs PROVE StackWhole(stack'[y], scope'[y].got, inst', y \in canceled')
  <2>1. CASE y = x
    <3>1. stack'[y] = <<>>
      BY <1>1, <1>2, <2>1
    <3>. QED  BY <3>1 DEF StackWhole
  <2>2. CASE y # x
    <3>1. stack'[y] = stack[y] /\ scope'[y] = scope[y]
      BY <1>1, <1>2, <2>2
    <3>. QED  BY <1>1, <3>1 DEF FramesWhole
  <2>. QED  BY <2>1, <2>2
<1>4. ASSUME NEW y \in Procs PROVE ScopeWhole(scope'[y].got, lru["decl"], inst)
  <2>1. CASE y = x
    <3>1. scope'[y] = NoScope
      BY <1>1, <1>2, <2>1
    <3>2. \A p \in Paths : NoScope.got[p] = None
      BY DEF NoScope, Zero, None
    <3>. QED  BY <3>1, <3>2 DEF ScopeWhole
  <2>2. CASE y # x
    <3>1. scope'[y] = scope[y]
      BY <1>1, <1>2, <2>2
    <3>. QED  BY <3>1 DEF ScopesWhole
  <2>. QED  BY <2>1, <2>2
<1>. QED  BY <1>3, <1>4 DEF FramesWhole, Gains

\* Every step of a call keeps frames whole.
LEMMA CallsWhole ==
    ASSUME TypeInv, CachedPath, PlainInv, LoadPlain, load.plain, ScopesWhole, FramesWhole, "lost" \notin slips',
           NEW x \in Procs, Calls(x)
    PROVE  FramesWhole' /\ Gains
BY LookupWhole, WaitWhole, leadWhole, ImportWhole, finishWhole, exitWhole, closeWhole DEF Calls

\* A new package is degraded, or cached.
NewInst == \A i \in DOMAIN inst' \ DOMAIN inst : inst'[i].failed \/ \E p \in Paths : lru'["decl"].id[p] = i

\* What a return adds to the packages.
LEMMA NewOfReturn ==
    ASSUME TypeInv, NEW x \in Procs, Running(x), NEW res \in Ids \ {None}, NEW sc \in ScopeType(Ids),
           NEW n, NEW e, ReturnsFrom(x, res, sc, n, e)
    PROVE  NewInst
<1>1. CallsTyped /\ StateTyped
  BY DEF TypeInv
<1>2. CASE inst' = inst
  BY <1>2 DEF NewInst
<1>3. ASSUME NEW r, inst' = Append(inst, r), r.failed PROVE NewInst
  <2>1. IsSeq(inst)
    BY <1>1 DEF StateTyped
  <2>2. DOMAIN inst = 1..Len(inst) /\ DOMAIN inst' = 1..(Len(inst) + 1) /\ inst'[Len(inst) + 1] = r /\ Len(inst) \in Nat
    BY <1>3, <2>1, Pushed
  <2>. QED  BY <1>3, <2>2 DEF NewInst
<1>4. ASSUME inst' = Append(inst, [path |-> Top(x).path, ids |-> {Len(inst) + 1}, failed |-> TRUE, old |-> FALSE, raced |-> FALSE])
      PROVE  NewInst
  <2>1. PICK r : r = [path |-> Top(x).path, ids |-> {Len(inst) + 1}, failed |-> TRUE, old |-> FALSE, raced |-> FALSE]
    OBVIOUS
  <2>. QED  BY <1>3, <1>4, <2>1
<1>5. \/ inst' = inst
      \/ inst' = Append(inst, [path |-> Top(x).path, ids |-> {Len(inst) + 1}, failed |-> TRUE, old |-> FALSE, raced |-> FALSE])
  BY Zenon DEF ReturnsFrom
<1>. QED  BY <1>2, <1>4, <1>5

\* What a lookup adds.
LEMMA LookupNew ==
    ASSUME TypeInv, CachedPath, LoadPlain, load.plain, ScopesWhole, NEW x \in Procs, Lookup(x)
    PROVE  NewInst
<1>0. PICK p0 : p0 = Top(x).path
  OBVIOUS
<1>1. Running(x)
  BY DEF Lookup
<1>2. CallsTyped /\ StateTyped
  BY DEF TypeInv
<1>3. p0 \in Paths /\ scope[x] \in ScopeType(Ids) /\ scope[x].got[p0] \in Ids /\ Err \in Ids \ {None}
  <2>1. p0 \in Paths /\ scope[x] \in ScopeType(Ids)
    BY <1>0, <1>1, <1>2, TopTyped
  <2>. QED  BY <1>2, <2>1, IdsHere DEF StateTyped, ScopeType
<1>4. ASSUME NEW k \in Kinds, NEW n, NEW e, Hits(x, k, n, e) PROVE NewInst
  <2>1. PICK i, sc : i = lru[k].id[p0] /\ sc = ScopePut(x, p0, i, k)
    OBVIOUS
  <2>2. i # None /\ ReturnsFrom(x, i, sc, n, e)
    BY <1>0, <1>4, <2>1, Zenon DEF Hits
  <2>3. i \in Ids \ {None}
    BY <1>2, <1>3, <2>1, <2>2, LruHere
  <2>4. sc \in ScopeType(Ids)
    BY <1>2, <1>3, <2>1, <2>3, ScopePutTyped
  <2>. QED  BY <1>1, <2>2, <2>3, <2>4, NewOfReturn
<1>5. ASSUME NEW pc, Advances(x, pc) PROVE NewInst
  BY <1>5 DEF Advances, NewInst
<1>6. ~load.decode
  BY DEF LoadPlain
<1>7. ASSUME NEW res \in Ids \ {None}, NEW n, NEW e, ReturnsFrom(x, res, scope[x], n, e) PROVE NewInst
  <2>1. PICK sc \in ScopeType(Ids) : sc = scope[x]
    BY <1>3
  <2>. QED  BY <1>1, <1>7, <2>1, NewOfReturn
<1>. QED
  <2>1. CASE \E n, e : \/ scope[x].got[p0] # None /\ ReturnsFrom(x, scope[x].got[p0], scope[x], n, e)
                       \/ ReturnsFrom(x, Err, scope[x], n, e)
    BY <1>3, <1>7, <2>1
  <2>2. CASE \E k \in Kinds : \E n, e : Hits(x, k, n, e)
    BY <1>4, <2>2
  <2>3. CASE \E pc \in {"enter", "pin"} : Advances(x, pc)
    BY <1>5, <2>3
  <2>. QED  BY <1>0, <1>6, <2>1, <2>2, <2>3, Zenon DEF Lookup

\* What finishCheck adds.
LEMMA finishNew ==
    ASSUME TypeInv, TypeInv', PlainInv, load.plain, NEW x \in Procs, Finishes(x)
    PROVE  NewInst
<1>1. Running(x)
  BY DEF Finishes
<1>2. CallsTyped /\ StateTyped /\ StateTyped'
  BY DEF TypeInv
<1>3. Top(x).kind = "decl" /\ Top(x).path \in Paths /\ Top(x) \in FrameType(Ids)
  BY <1>1, <1>2, TopPlain, TopTyped
<1>4. CASE inst' = inst
  BY <1>4 DEF NewInst
<1>5. CASE inst' # inst
  <2>1. /\ inst' = Append(inst, [path |-> Top(x).path, ids |-> Top(x).ids \cup {Len(inst) + 1}, failed |-> Top(x).failed,
                                 old |-> Top(x).old, raced |-> Top(x).raced])
        /\ \/ Top(x).failed
           \/ lru' = [lru EXCEPT ![Top(x).kind] = pin(lruPut(Top(x).kind, lru[Top(x).kind], Top(x).path, Len(inst) + 1), Top(x).path)]
    BY <1>5, Zenon DEF Finishes
  <2>2. PICK f, p0, i, r : /\ f = Top(x) /\ p0 = f.path /\ i = Len(inst) + 1
                           /\ r = [path |-> f.path, ids |-> f.ids \cup {Len(inst) + 1}, failed |-> f.failed, old |-> f.old, raced |-> f.raced]
    OBVIOUS
  <2>3. f \in FrameType(Ids) /\ inst' = Append(inst, r)
    BY <1>3, <2>1, <2>2
  <2>4. InstGrows /\ Len(inst') = i /\ inst'[i] = r /\ i \in Nat \ {0}
    BY <1>2, <2>2, <2>3, CheckedInst
  <2>5. DOMAIN inst' = 1..i /\ DOMAIN inst = 1..(i - 1)
    <3>1. Len(inst) = i - 1 /\ Len(inst) \in Nat
      BY <2>2, <2>4 DEF InstGrows
    <3>. QED  BY <2>4, <3>1 DEF InstGrows
  <2>6. r.failed = f.failed /\ \A j \in DOMAIN inst' \ DOMAIN inst : j = i
    BY <2>2, <2>4, <2>5
  <2>7. CASE f.failed
    BY <2>4, <2>6, <2>7 DEF NewInst
  <2>8. CASE ~f.failed
    <3>1. PICK l, m : l = lru["decl"] /\ m = pin(lruPut("decl", l, p0, i), p0)
      OBVIOUS
    <3>2. lru' = [lru EXCEPT !["decl"] = m]
      BY <1>3, <2>1, <2>2, <2>8, <3>1
    <3>3. lru'["decl"] = m /\ LruOK(l)
      BY <1>2, <3>1, <3>2, LruHere DEF StateTyped, LruTyped, Kinds
    <3>4. PICK R : R \in [Paths -> Nat] /\ m.id = [R EXCEPT ![p0] = i]
      <4>1. l.id[p0] = None
        <5>1. PICK z : z = <<"decl", p0>>
          OBVIOUS
        <5>2. Top(x).pc = "check"
          BY DEF Finishes
        <5>3. z = Pair(Top(x)) /\ stack[x] # <<>> /\ StackInv(stack[x], scope[x].got, Ids) /\ Top(x) = Last(stack[x])
          BY <1>1, <1>2, <1>3, <2>2, <5>1, TopTyped DEF Pair
        <5>4. x \in Callers(z, {"check"})
          BY <5>2, <5>3, InTop DEF Callers
        <5>. QED  BY <1>3, <2>2, <3>1, <5>1, <5>4 DEF FlightInv, FlightAt, TypeInv, Kinds
      <4>2. LruOK(Room("decl", l)) /\ m.id = [Room("decl", l).id EXCEPT ![p0] = i]
        <5>1. p0 \in Paths /\ i \in Nat \ {0} /\ LruOK(l) /\ l.id[p0] = None
          BY <1>3, <2>2, <2>4, <3>3, <4>1
        <5>. QED  BY <3>1, <5>1, PutPinned
      <4>. QED  BY <4>2 DEF LruOK, LruType
    <3>5. m.id[p0] = i
      BY <1>3, <2>2, <3>4
    <3>. QED  BY <1>3, <2>2, <2>6, <3>3, <3>5 DEF NewInst
  <2>. QED  BY <2>7, <2>8
<1>. QED  BY <1>4, <1>5

\* What exitWait adds.
LEMMA exitNew ==
    ASSUME TypeInv, NEW x \in Procs, Returns(x)
    PROVE  NewInst
<1>1. PICK k0, p0, res : k0 = Top(x).kind /\ p0 = Top(x).path /\ res = Top(x).res /\ Exits(x, k0, p0, res)
  BY DEF Returns
<1>2. /\ Running(x) /\ Top(x).pc = "exit"
      /\ \E n, e : OneCut(x, n, e) /\ ReturnsFrom(x, res, ExitScope(x), n, e)
  BY <1>1, Zenon DEF Exits
<1>3. CallsTyped /\ StateTyped
  BY DEF TypeInv
<1>4. PICK n, e, sc : ReturnsFrom(x, res, sc, n, e) /\ sc = ExitScope(x)
  BY <1>2
<1>5. res \in Ids \ {None} /\ sc \in ScopeType(Ids)
  BY <1>1, <1>2, <1>3, <1>4, ExitScopeTyped
<1>. QED  BY <1>2, <1>4, <1>5, NewOfReturn

\* What every step of a call adds.
LEMMA CallsNew ==
    ASSUME TypeInv, TypeInv', CachedPath, PlainInv, LoadPlain, load.plain, ScopesWhole, NEW x \in Procs, Calls(x)
    PROVE  NewInst
<1>1. ASSUME enterWait(x) \/ join(x) PROVE inst' = inst
  BY <1>1, Zenon DEF enterWait, join
<1>2. ASSUME NEW d \in Paths, Imports1(x, d) PROVE inst' = inst
  BY <1>2, Zenon DEF Imports1
<1>3. ASSUME Leads(x) \/ Closes(x) PROVE inst' = inst
  BY <1>3, Zenon DEF Leads, Closes
<1>4. inst' = inst => NewInst
  BY DEF NewInst
<1>. QED  BY <1>1, <1>2, <1>3, <1>4, LookupNew, finishNew, exitNew DEF Calls

\* What is handed out of packages that are all whole is whole.
LEMMA AllStaysWhole ==
    ASSUME AllWhole(inst), InstGrows, Extends(inst, inst'), NewInst, NEW J, J = inst', NEW m, m = lru'["decl"], Whole(m, J)
    PROVE  AllWhole(J)
<1>1. ASSUME NEW i \in DOMAIN J, ~J[i].failed PROVE OneEach(J, i)
  <2>1. CASE i \in DOMAIN inst
    <3>1. OneEach(inst, i)
      BY <1>1, <2>1 DEF AllWhole, Extends
    <3>. QED  BY <2>1, <3>1, OneEachExtends
  <2>2. CASE i \notin DOMAIN inst
    <3>1. PICK p \in Paths : m.id[p] = i
      BY <1>1, <2>2 DEF NewInst
    <3>2. i # None
      BY <2>2 DEF InstGrows, None
    <3>. QED  BY <3>1, <3>2, WholeIsOne
  <2>. QED  BY <2>1, <2>2
<1>. QED  BY <1>1 DEF AllWhole

\* What a scope has got is held, and so stays cached.
LEMMA ScopesStayWhole ==
    ASSUME TypeInv, Gains, InstGrows, NEW J, J = inst', NEW m, m = lru'["decl"],
           \A p \in Paths : lru["decl"].id[p] # None /\ Held'[p] # 0 => m.id[p] = lru["decl"].id[p]
    PROVE  ScopesWhole'
<1>1. Extends(inst, J)
  BY InstExtends
<1>2. ASSUME NEW y \in Procs PROVE ScopeWhole(scope'[y].got, m, J)
  <2>1. ASSUME NEW p \in Paths, scope'[y].got[p] # None
        PROVE  LET i == scope'[y].got[p] IN i \in DOMAIN J /\ J[i].path = p /\ (~J[i].failed => m.id[p] = i)
    <3>1. PICK i : i = scope'[y].got[p] /\ i # None
      BY <2>1
    <3>2. i \in DOMAIN inst /\ inst[i].path = p /\ (~inst[i].failed => lru["decl"].id[p] = i)
      BY <2>1, <3>1 DEF Gains, ScopeWhole
    <3>3. i \in DOMAIN J /\ J[i].path = p /\ J[i].failed = inst[i].failed
      BY <1>1, <3>2 DEF Extends
    <3>4. Held'[p] # 0
      <4>1. y \in Holders(p)'
        BY <3>1 DEF Holders
      <4>2. Cardinality(Holders(p)') \in Nat /\ Cardinality(Holders(p)') # 0
        <5>1. Holders(p)' \in SUBSET Procs
          BY DEF Holders
        <5>. QED  BY <4>1, <5>1, ProcsCounted
      <4>. QED  BY <4>2, HeldNext
    <3>. QED  BY <3>1, <3>2, <3>3, <3>4
  <2>. QED  BY <2>1 DEF ScopeWhole
<1>. QED  BY <1>2 DEF ScopesWhole

\* Packages are of paths, and what a scope has is held.
LEMMA PathsThere ==
    ASSUME TypeInv
    PROVE  /\ \A i \in DOMAIN inst : i # None /\ inst[i].path \in Paths
           /\ \A x \in Procs : \A p \in Paths : scope[x].got[p] # None => Held[p] # 0
<1>1. IsSeq(inst) /\ \A i \in DOMAIN inst : inst[i] \in InstType(Ids)
  BY DEF TypeInv, StateTyped
<1>2. DOMAIN inst = 1..Len(inst) /\ Len(inst) \in Nat
  BY <1>1, IdsHere
<1>3. ASSUME NEW x \in Procs, NEW p \in Paths, scope[x].got[p] # None PROVE Held[p] # 0
  <2>1. x \in Holders(p)
    BY <1>3 DEF Holders
  <2>. QED  BY <2>1, HeldHere
<1>. QED  BY <1>1, <1>2, <1>3 DEF InstType, None

\* A step that puts nothing.
LEMMA FreesWhole ==
    ASSUME TypeInv, CachedPath, InstGrows, Fewer(lru["decl"], lru'["decl"]), Frees, Whole(lru["decl"], inst), Gains
    PROVE  Whole(lru'["decl"], inst') /\ ScopesWhole'
<1>1. PICK l, m, J, h : l = lru["decl"] /\ m = lru'["decl"] /\ J = inst' /\ h = Held'
  OBVIOUS
<1>2. Whole(m, inst)
  <2>1. FreedOf(l, m, h) /\ PathsRight(l, inst)
    BY <1>1 DEF Frees, PathsRight, CachedPath, Kinds
  <2>. QED  BY <1>1, <2>1, PathsThere, WholeShrinks
<1>3. Whole(m, J)
  BY <1>1, <1>2, InstExtends, WholeExtends
<1>4. \A p \in Paths : l.id[p] # None /\ h[p] # 0 => m.id[p] = l.id[p]
  BY <1>1 DEF Frees, FreedOf, Fewer
<1>5. ScopesWhole'
  BY <1>1, <1>4, ScopesStayWhole
<1>. QED  BY <1>1, <1>3, <1>5

\* A put.
LEMMA BornWhole ==
    ASSUME TypeInv, CachedPath, InstGrows, PinsHeld, ScopesWhole, FramesWhole, Whole(lru["decl"], inst), Gains,
           PlainInv, load.plain, NEW x \in Procs, NEW p \in Paths, Born(x, p)
    PROVE  Whole(lru'["decl"], inst') /\ ScopesWhole'
<1>1. PICK l, m, J, g, n, f : /\ l = lru["decl"] /\ m = lru'["decl"] /\ J = inst' /\ g = Held /\ n = Len(inst) + 1
                              /\ f = Top(x)
  OBVIOUS
<1>2. /\ Running(x) /\ p = f.path /\ f.todo = {} /\ f.pc = "check" /\ x \notin canceled /\ ScopesKeep /\ ~f.failed
      /\ birth' = [birth EXCEPT !["decl"][p] = TRUE]
      /\ J = Append(inst, [path |-> f.path, ids |-> f.ids \cup {n}, failed |-> f.failed, old |-> f.old, raced |-> f.raced])
      /\ l.id[p] = None /\ m = pin(lruPut("decl", l, p, n), p)
  BY <1>1, Zenon DEF Born, Puts
<1>3. CallsTyped /\ StateTyped
  BY DEF TypeInv
<1>4. FrameWhole(f, scope[x].got, inst, x \in canceled) /\ f \in FrameType(Ids)
  BY <1>1, <1>2, TopWhole
<1>5. PICK q : q = [path |-> f.path, ids |-> f.ids \cup {n}, failed |-> f.failed, old |-> f.old, raced |-> f.raced]
  OBVIOUS
<1>6. Len(J) = n /\ J[n] = q /\ n \in Nat \ {0} /\ n \in DOMAIN J /\ n \notin DOMAIN inst
  <2>1. Len(inst') = Len(inst) + 1 /\ inst'[Len(inst) + 1] = q /\ Len(inst) + 1 \in Nat \ {0}
    BY <1>1, <1>2, <1>3, <1>4, <1>5, CheckedInst
  <2>. QED  BY <1>1, <2>1 DEF InstGrows
<1>7. LruOK(l) /\ Balanced(l, g)
  BY <1>1, <1>3, LruHere DEF PinsHeld, Kinds
<1>8. PICK r : r = Room("decl", l)
  OBVIOUS
<1>9. LruOK(r) /\ Shrunk(l, r) /\ m.id = [r.id EXCEPT ![p] = n]
  BY <1>2, <1>6, <1>7, <1>8, PutPinned
<1>10. FreedOf(l, r, g)
  BY <1>7, <1>8, RoomBalanced
<1>11. PathsRight(l, inst) /\ PathsRight(r, inst)
  BY <1>1, <1>9 DEF Shrunk, PathsRight, CachedPath, Kinds
<1>12. Whole(r, inst)
  BY <1>1, <1>9, ShrunkFewer, <1>10, <1>11, PathsThere, WholeShrinks
<1>13. /\ r.id[p] = None
       /\ \A d \in Paths : m.id[d] = IF d = p THEN n ELSE r.id[d]
  BY <1>2, <1>9 DEF LruOK, LruType, Shrunk
<1>14. \A d \in Paths : l.id[d] # None /\ g[d] # 0 => r.id[d] = l.id[d]
  BY <1>9, <1>10 DEF FreedOf, Shrunk
<1>15. ASSUME NEW j \in f.ids
       PROVE  \E d \in Imports[p] : r.id[d] # None /\ j \in inst[r.id[d]].ids /\ inst[r.id[d]].ids \subseteq f.ids
  <2>1. PICK d \in Imports[p] : Sound(scope[x].got, inst, d) /\ j \in inst[scope[x].got[d]].ids
    BY <1>2, <1>4 DEF FrameWhole
  <2>2. PICK i : i = scope[x].got[d] /\ d \in Paths
    BY <2>1, ImportsLater
  <2>3. i \in DOMAIN inst /\ ~inst[i].failed /\ j \in inst[i].ids /\ inst[i].ids \subseteq f.ids
    BY <1>2, <1>4, <2>1, <2>2 DEF FrameWhole, Sound
  <2>4. i # None /\ l.id[d] = i /\ g[d] # 0
    BY <1>1, <2>2, <2>3, PathsThere DEF ScopesWhole, ScopeWhole
  <2>5. r.id[d] = i
    BY <1>14, <2>2, <2>4
  <2>. QED  BY <2>3, <2>4, <2>5
<1>16. Whole(m, J)
  <2>1. J[n].path = p /\ ~J[n].failed /\ J[n].ids = f.ids \cup {n} /\ n # None
    BY <1>2, <1>5, <1>6 DEF None
  <2>2. Extends(inst, J) /\ \A i \in DOMAIN inst : inst[i].path \in Paths
    BY <1>1, InstExtends, PathsThere
  <2>3. PICK I, F : I = inst /\ F = f.ids
    OBVIOUS
  <2>4. Adds(r, m, I, J, n, p, F)
    BY <1>6, <1>11, <1>12, <1>13, <1>15, <2>1, <2>2, <2>3 DEF Adds
  <2>. QED  BY <2>4, WholePuts
<1>17. ASSUME NEW d \in Paths, l.id[d] # None, Held'[d] # 0 PROVE m.id[d] = l.id[d]
  <2>1. d # p
    BY <1>2, <1>17
  <2>2. birth'["decl"][d] = birth["decl"][d]
    BY <1>2, <1>3, <2>1, BirthSet DEF StateTyped, Kinds
  <2>3. Held'[d] = g[d]
    BY <1>1, <1>2, <2>2, HoldersKeep, HeldHere, HeldNext
  <2>. QED  BY <1>13, <1>14, <1>17, <2>1, <2>3
<1>18. ScopesWhole'
  BY <1>1, <1>17, ScopesStayWhole
<1>. QED  BY <1>1, <1>16, <1>18

\* The parts of the invariant.
WholeParts == Whole(lru["decl"], inst) /\ ScopesWhole /\ FramesWhole /\ AllWhole(inst)

\* No package is added.
LEMMA NothingNew ==
    ASSUME TypeInv, InstGrows, Len(inst') = Len(inst), AllWhole(inst)
    PROVE  AllWhole(inst')
<1>1. PICK J : J = inst' /\ DOMAIN J = DOMAIN inst
  BY DEF InstGrows
<1>2. Extends(inst, J)
  BY <1>1, InstExtends
<1>3. ASSUME NEW i \in DOMAIN J, ~J[i].failed PROVE OneEach(J, i)
  <2>1. OneEach(inst, i)
    BY <1>1, <1>2, <1>3 DEF AllWhole, Extends
  <2>. QED  BY <1>1, <1>2, <2>1, OneEachExtends
<1>. QED  BY <1>1, <1>3 DEF AllWhole

\* A call begins with a frame that refers to nothing.
LEMMA StartWhole ==
    ASSUME TypeInv, ScopesWhole, FramesWhole, NEW x \in Procs, NEW p \in Paths, NEW k \in Kinds, Starts(x, p, k)
    PROVE  FramesWhole' /\ Gains /\ InstGrows /\ inst' = inst
<1>1. PICK e : e = Frame(p, k, FALSE) /\ Begins(x, e)
  BY DEF Starts
<1>2. /\ stack[x] = <<>> /\ stack' = [stack EXCEPT ![x] = <<e>>] /\ inst' = inst /\ canceled' = canceled \ {x}
  BY <1>1, Zenon DEF Begins
<1>3. CallsTyped /\ StateTyped /\ ScopesKeep
  BY StartPins DEF TypeInv
<1>4. InstGrows
  BY <1>2, <1>3, InstStays
<1>5. OneCut(x, 1, e) /\ e.pc = "ask" /\ e.ids = {}
  BY <1>1, <1>2, <1>3, FirstCut DEF CallsTyped, Frame
<1>6. ASSUME NEW y \in Procs PROVE StackWhole(stack'[y], scope'[y].got, inst', y \in canceled')
  <2>1. CASE y = x
    <3>1. Cut(stack[x], stack'[x], 1, e)
      BY <1>5 DEF OneCut
    <3>2. Len(stack'[x]) = 1 /\ stack'[x][1] = e
      BY <3>1 DEF Cut
    <3>. QED  BY <1>5, <2>1, <3>2 DEF StackWhole, FrameWhole
  <2>2. CASE y # x
    <3>1. stack'[y] = stack[y] /\ scope'[y].got = scope[y].got /\ (y \in canceled' <=> y \in canceled)
      BY <1>2, <1>3, <1>5, <2>2 DEF OneCut, ScopesKeep
    <3>2. PICK c, d : c = (y \in canceled) /\ d = (y \in canceled')
      OBVIOUS
    <3>3. StackWhole(stack[y], scope[y].got, inst, c) /\ d = c
      BY <3>1, <3>2 DEF FramesWhole
    <3>. QED  BY <1>2, <3>1, <3>2, <3>3
  <2>. QED  BY <2>1, <2>2
<1>. QED  BY <1>2, <1>3, <1>4, <1>6, GainsNothing DEF FramesWhole

\* A step that touches no call keeps frames whole.
LEMMA AskWhole ==
    ASSUME TypeInv, ScopesWhole, FramesWhole, Asks
    PROVE  FramesWhole' /\ Gains /\ InstGrows /\ inst' = inst
<1>1. UNCHANGED <<stack, scope, inst>> /\ canceled \subseteq canceled'
  BY Zenon DEF Asks
<1>2. InstGrows
  BY <1>1, InstStays DEF TypeInv
<1>3. ASSUME NEW y \in Procs PROVE StackWhole(stack'[y], scope'[y].got, inst', y \in canceled')
  <2>1. PICK s, got, J, c, d : /\ s = stack[y] /\ got = scope[y].got /\ J = inst' /\ c = (y \in canceled) /\ d = (y \in canceled')
    OBVIOUS
  <2>2. StackWhole(s, got, inst, c) /\ (c => d) /\ \A n \in 1..Len(s) : s[n].path \in Paths
    BY <1>1, <2>1, PathsOfFrames DEF FramesWhole
  <2>3. Extends(inst, J)
    BY <1>2, <2>1, InstExtends
  <2>4. StackWhole(s, got, J, d)
    BY <2>2, <2>3, GotSame, StackExtends
  <2>. QED  BY <1>1, <2>1, <2>4
<1>. QED  BY <1>1, <1>2, <1>3, GainsNothing DEF FramesWhole, ScopesKeep

\* edit and Delete keep frames whole.
LEMMA NotedWhole ==
    ASSUME TypeInv, TypeInv', ScopesWhole, FramesWhole, NEW p \in Paths, edit(p) \/ Delete(p)
    PROVE  FramesWhole' /\ Gains /\ InstGrows /\ Len(inst') = Len(inst)
<1>1. UNCHANGED <<scope, canceled>>
  BY Zenon DEF edit, Delete
<1>2. FramesNoted /\ InstGrows /\ Len(inst') = Len(inst)
  <2>1. CASE edit(p)
    <3>1. FramesNoted /\ InstGrows
      BY <2>1, editTyped
    <3>2. inst' = [i \in DOMAIN inst |-> [inst[i] EXCEPT !.old = @ \/ inst[i].path = p]]
      BY <2>1, Zenon DEF edit
    <3>3. DOMAIN inst' = DOMAIN inst
      BY <3>2
    <3>4. PICK m, n : m = Len(inst) /\ n = Len(inst') /\ m \in Nat /\ n \in Nat /\ n >= m /\ 1..n = 1..m
      BY <3>1, <3>3 DEF InstGrows
    <3>5. n = m
      <4>1. CASE n = 0
        BY <3>4, <4>1
      <4>2. CASE n > 0
        <5>1. n \in 1..m
          BY <3>4, <4>2
        <5>. QED  BY <3>4, <5>1
      <4>. QED  BY <3>4, <4>1, <4>2
    <3>. QED  BY <3>1, <3>4, <3>5
  <2>2. CASE Delete(p)
    <3>1. inst' = inst
      BY <2>2, Zenon DEF Delete
    <3>. QED  BY <2>2, <3>1, DeleteTyped, InstStays DEF TypeInv
  <2>. QED  BY <2>1, <2>2
<1>3. ASSUME NEW y \in Procs PROVE StackWhole(stack'[y], scope'[y].got, inst', y \in canceled')
  <2>1. PICK s, t, got, J, c : /\ s = stack[y] /\ t = stack'[y] /\ got = scope[y].got /\ J = inst' /\ c = (y \in canceled)
    OBVIOUS
  <2>2. StackWhole(s, got, inst, c) /\ \A n \in 1..Len(s) : s[n].path \in Paths
    BY <2>1, PathsOfFrames DEF FramesWhole
  <2>3. Extends(inst, J)
    BY <1>2, <2>1, InstExtends
  <2>4. StackWhole(s, got, J, c)
    BY <2>2, <2>3, GotSame, StackExtends
  <2>5. Len(t) = Len(s) /\ \A n \in 1..Len(s) : Noted(s[n], t[n])
    <3>1. IsSeq(s) /\ t = [m \in DOMAIN s |-> t[m]]
      BY <1>2, <2>1 DEF TypeInv, CallsTyped, StackInv, FramesNoted
    <3>2. Len(t) = Len(s) /\ DOMAIN s = 1..Len(s)
      BY <3>1, Mapped
    <3>. QED  BY <1>2, <2>1, <3>2 DEF FramesNoted
  <2>6. StackWhole(t, got, J, c)
    BY <2>4, <2>5 DEF StackWhole, FrameWhole, Noted
  <2>. QED  BY <1>1, <2>1, <2>6
<1>. QED  BY <1>1, <1>2, <1>3, GainsNothing DEF FramesWhole, ScopesKeep

\* A cache with the same packages.
LEMMA FewerSame ==
    ASSUME NEW l, NEW m, m.id = l.id
    PROVE  Fewer(l, m)
BY DEF Fewer

\* A step of a call that puts nothing leaves no more cached.
LEMMA MovesFewer ==
    ASSUME TypeInv, NEW x \in Procs, Moves(x)
    PROVE  Fewer(lru["decl"], lru'["decl"]) \/ \E p \in Paths : Born(x, p)
<1>1. PICK l, m : l = lru["decl"] /\ m = lru'["decl"] /\ LruOK(l)
  BY LruHere DEF TypeInv, Kinds
<1>2. CASE Nothing
  BY <1>1, <1>2, FewerSame DEF Nothing
<1>3. ASSUME NEW p \in Paths, Hit(x, p) PROVE Fewer(l, m)
  BY <1>1, <1>3, FewerSame DEF Hit, MorePins
<1>4. ASSUME NEW p \in Paths, NEW res \in Ids, NEW last \in BOOLEAN, Leaves(x, p, res, last) PROVE Fewer(l, m)
  <2>1. m = Left(l, p, res, last)
    BY <1>1, <1>4, Zenon DEF Leaves
  <2>. QED  BY <1>1, <2>1, LeftOK, ShrunkFewer
<1>5. CASE Drops(x)
  <2>1. PICK n : n = Once({p \in Paths : scope[x].via[p] = "decl"})
    OBVIOUS
  <2>2. n \in [Paths -> Nat] /\ m = unpinAll(l, n)
    BY <1>1, <1>5, <2>1, OnceOK DEF Drops
  <2>. QED  BY <1>1, <2>2, UnpinOK, ShrunkFewer
<1>. QED  BY <1>1, <1>2, <1>3, <1>4, <1>5 DEF Moves

\* Every step keeps closures whole, while nothing slips.
LEMMA StepsWhole ==
    ASSUME TypeInv, TypeInv', LoadPlain, PlainInv, CachedPath, PinsHeld, load.plain, slips' = {}, WholeParts, Steps
    PROVE  WholeParts'
<1>1. "stolen" \notin slips' /\ "lost" \notin slips'
  OBVIOUS
<1>2. Whole(lru["decl"], inst) /\ ScopesWhole /\ FramesWhole /\ AllWhole(inst)
  BY DEF WholeParts
<1>3. ASSUME NEW x \in Procs, Calls(x) PROVE WholeParts'
  <2>1. FramesWhole' /\ Gains
    BY <1>1, <1>2, <1>3, CallsWhole
  <2>2. Effect(x) /\ InstGrows /\ Running(x)
    BY <1>3, CallsEffect, CallsKeepLoad DEF Effect, InstKept
  <2>3. (Frees /\ Fewer(lru["decl"], lru'["decl"])) \/ (\E p \in Paths : Born(x, p))
    <3>1. Moves(x) /\ ScopesPin
      BY <1>3, CallsMoves DEF PlainInv
    <3>. QED  BY <1>1, <3>1, MovesBalance, MovesFewer
  <2>4. Whole(lru'["decl"], inst') /\ ScopesWhole'
    <3>1. ASSUME NEW p \in Paths, Born(x, p) PROVE Whole(lru'["decl"], inst') /\ ScopesWhole'
      BY <1>2, <2>1, <2>2, <3>1, BornWhole
    <3>2. ASSUME Frees, Fewer(lru["decl"], lru'["decl"]) PROVE Whole(lru'["decl"], inst') /\ ScopesWhole'
      BY <1>2, <2>1, <2>2, <3>2, FreesWhole
    <3>. QED  BY <2>3, <3>1, <3>2
  <2>5. NewInst
    BY <1>2, <1>3, CallsNew
  <2>6. AllWhole(inst')
    BY <1>2, <2>2, <2>4, <2>5, InstExtends, AllStaysWhole
  <2>. QED  BY <2>1, <2>4, <2>6 DEF WholeParts
<1>4. ASSUME FramesWhole', Gains, InstGrows, Len(inst') = Len(inst), Frees, Fewer(lru["decl"], lru'["decl"])
      PROVE  WholeParts'
  BY <1>2, <1>4, FreesWhole, NothingNew DEF WholeParts
<1>5. ASSUME NEW x \in Procs, NEW p \in Paths, NEW k \in Kinds, Starts(x, p, k) PROVE WholeParts'
  <2>1. Frees /\ lru' = lru
    BY <1>5, StartPins, StillFrees
  <2>2. Fewer(lru["decl"], lru'["decl"])
    BY <2>1, FewerSame
  <2>. QED  BY <1>2, <1>4, <1>5, <2>1, <2>2, StartWhole
<1>6. CASE Asks
  <2>1. UNCHANGED <<scope, birth, lru>>
    BY <1>6, Zenon DEF Asks
  <2>2. Frees /\ Fewer(lru["decl"], lru'["decl"])
    BY <2>1, StillFrees, FewerSame DEF ScopesKeep
  <2>. QED  BY <1>2, <1>4, <1>6, <2>2, AskWhole
<1>7. ASSUME NEW p \in Paths, edit(p) PROVE WholeParts'
  <2>1. UNCHANGED <<scope, birth, lru>>
    BY <1>7, Zenon DEF edit
  <2>2. Frees /\ Fewer(lru["decl"], lru'["decl"])
    BY <2>1, StillFrees, FewerSame DEF ScopesKeep
  <2>. QED  BY <1>2, <1>4, <1>7, <2>2, NotedWhole
<1>8. ASSUME NEW p \in Paths, Delete(p) PROVE WholeParts'
  <2>1. Frees /\ Fewer(lru["decl"], lru'["decl"])
    BY <1>8, DeleteFrees, DeleteTyped, ShrunkFewer DEF Kinds
  <2>. QED  BY <1>2, <1>4, <1>8, <2>1, NotedWhole
<1>. QED  BY <1>3, <1>5, <1>6, <1>7, <1>8 DEF Steps

\* Nothing is cached at first.
LEMMA WholeInit == Init => WholeInv
<1>. SUFFICES ASSUME Init PROVE WholeInv
  OBVIOUS
<1>1. /\ lru = [k \in Kinds |-> EmptyLRU] /\ stack = [x \in Procs |-> <<>>]
      /\ scope = [x \in Procs |-> NoScope] /\ inst = <<>>
  BY Zenon DEF Init, DepInit
<1>2. \A p \in Paths : lru["decl"].id[p] = None
  BY <1>1 DEF EmptyLRU, Zero, None, Kinds
<1>3. \A x \in Procs : Len(stack[x]) = 0
  BY <1>1
<1>4. \A p \in Paths : NoScope.got[p] = None
  BY DEF NoScope, Zero, None
<1>5. Whole(lru["decl"], inst)
  BY <1>2 DEF Whole
<1>6. ScopesWhole
  BY <1>1, <1>4 DEF ScopesWhole, ScopeWhole
<1>7. FramesWhole
  BY <1>3 DEF FramesWhole, StackWhole
<1>8. AllWhole(inst)
  BY <1>1 DEF AllWhole
<1>. QED  BY <1>5, <1>6, <1>7, <1>8 DEF WholeInv

\* What the three invariants before it say makes the fourth inductive.
LEMMA WholeStays ==
    AllInv /\ AllInv' /\ OldInv /\ PlainInv /\ PinInv /\ WholeInv /\ [Next]_vars => WholeInv'
<1>. SUFFICES ASSUME AllInv, AllInv', OldInv, PlainInv, PinInv, WholeInv, [Next]_vars PROVE WholeInv'
  OBVIOUS
<1>1. Steps
  BY StepsAre, ExportAsks DEF vars, Steps
<1>2. load'.plain = load.plain /\ slips \subseteq slips'
  BY <1>1, StepsPlain, SlipsStay DEF AllInv
<1>3. ASSUME load.plain, slips' = {} PROVE WholeParts'
  <2>1. slips = {} /\ load.plain
    BY <1>2, <1>3
  <2>2. PinsHeld /\ WholeParts
    BY <2>1 DEF PinInv, WholeInv, WholeParts
  <2>. QED  BY <1>1, <1>3, <2>2, StepsWhole DEF AllInv, OldInv
<1>4. WholeParts' => Whole(lru'["decl"], inst') /\ ScopesWhole' /\ FramesWhole' /\ AllWhole(inst')
  BY DEF WholeParts
<1>. QED  BY <1>2, <1>3, <1>4 DEF WholeInv

\* Closures are whole as long as nothing slips.
LEMMA WholeAlways == Spec => [](AllInv /\ WholeInv)
<1>1. AllInv /\ OldInv /\ PlainInv /\ PinInv /\ WholeInv /\ AllInv' /\ [Next]_vars => WholeInv'
  BY WholeStays
<1>2. Spec => [](AllInv /\ OldInv)
  BY OldAlways
<1>3. Spec => [](AllInv /\ PlainInv /\ PinInv)
  BY PinsAlways
<1>. QED  BY WholeInit, <1>1, <1>2, <1>3, PTL DEF Spec

\* No package that is not degraded refers to two packages of one import path,
\* over caches smaller than any closure and for every interleaving of the calls
\* that fill and empty them, as long as no birth pin was released that its
\* caller had not taken and no package was handed out unpinned.
THEOREM ClosuresAreWholeHolds == Spec => []ClosuresAreWhole
<1>1. AllInv /\ WholeInv => ClosuresAreWhole
  <2>. SUFFICES ASSUME AllInv, WholeInv, slips = {}, load.plain, NEW i \in DOMAIN inst, ~inst[i].failed
                PROVE  OneIdentity(inst[i].ids)
    BY DEF ClosuresAreWhole
  <2>1. OneEach(inst, i)
    BY DEF WholeInv, AllWhole
  <2>2. DOMAIN inst \subseteq Nat \ {0}
    BY IdsHere DEF AllInv, TypeInv, StateTyped
  <2>3. \A j \in inst[i].ids : j > 0 /\ PathOf(j) = inst[j].path
    BY <2>1, <2>2 DEF OneEach, PathOf
  <2>. QED  BY <2>1, <2>3 DEF OneIdentity, OneEach
<1>. QED  BY <1>1, WholeAlways, PTL
=============================================================================
