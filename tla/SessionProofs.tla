--------------------------- MODULE SessionProofs ----------------------------
(***************************************************************************)
(* What Session.tla's process keeps true, for any requests, documents,     *)
(* tasks and loads: its safety properties, and that it implements          *)
(* RpcService.                                                             *)
(*                                                                         *)
(* The argument is about one document's line of functions: the one drain   *)
(* is running, then the pending ones.  Its changes are the accepted and    *)
(* not yet applied ones, each once, in order; before a request's barrier   *)
(* stands every change accepted before the request (QueueInv).  And wg is  *)
(* the number of requests in flight, accepted changes not yet applied and  *)
(* tasks not yet over (CountInv).                                          *)
(***************************************************************************)
EXTENDS Session, FiniteSetTheorems, SequenceTheorems, TLAPS

\* What a notification queue holds.
Entry == [kind : {"change"}, n : Nat] \cup [kind : {"join"}, r : Reqs]

\* The functions of document d that have not returned, in the order they run.
Line(d) == current[d] \o queue[d]

IsChange(f, n) == f.kind = "change" /\ f.n = n

\* A line holds the changes a+1 .. c, in order.
Sorted(line, a, c) ==
  /\ \A i \in DOMAIN line : line[i].kind = "change" => a < line[i].n /\ line[i].n <= c
  /\ \A i, j \in DOMAIN line :
       i < j /\ line[i].kind = "change" /\ line[j].kind = "change" => line[i].n < line[j].n
  /\ \A n \in Nat : a < n /\ n <= c => \E i \in DOMAIN line : IsChange(line[i], n)

\* The changes up to b that are not applied stand before position i.
Precede(line, i, a, b) ==
  \A n \in Nat : a < n /\ n <= b => \E j \in DOMAIN line : j < i /\ IsChange(line[j], n)

QueueType ==
  /\ queue \in [Docs -> Seq(Entry)]
  /\ current \in [Docs -> Seq(Entry)]
  /\ applied \in [Docs -> Seq(Nat)]

\* The barrier at position i of document d's line is a dispatched request's, and every change
\* accepted before that request is applied or stands before the barrier.
JoinInv(d, i) ==
  LET r == Line(d)[i].r
  IN  /\ DocOf[r] = d
      /\ phase[r] # "unsent"
      /\ Precede(Line(d), i, Len(applied[d]), before[r])

DocInv(d) ==
  /\ Len(current[d]) <= 1
  /\ Len(applied[d]) <= changes[d]
  /\ \A i \in 1..Len(applied[d]) : applied[d][i] = i
  /\ Sorted(Line(d), Len(applied[d]), changes[d])
  /\ \A i \in DOMAIN Line(d) : Line(d)[i].kind = "join" => JoinInv(d, i)

BarrierInv ==
  \A r \in barrier : phase[r] # "unsent" /\ before[r] <= Len(applied[DocOf[r]])

QueueInv == QueueType /\ (\A d \in Docs : DocInv(d)) /\ BarrierInv

\* A handler runs behind its barrier; a request is answered once, as it ends.
AnswerInv ==
  \A r \in Reqs :
    /\ phase[r] \in {"handler", "returned"} => r \in barrier
    /\ resp[r] = IF phase[r] = "done" THEN 1 ELSE 0

\* What drain waits for.
OpenRequests == {r \in Reqs : phase[r] \in InFlight}
OpenChanges == {p \in Docs \X Nat : Len(applied[p[1]]) < p[2] /\ p[2] <= changes[p[1]]}
OpenTasks == {t \in Tasks : task[t] \in {"working", "asking", "asked"}}

CountInv ==
  /\ IsFiniteSet(OpenRequests) /\ IsFiniteSet(OpenChanges) /\ IsFiniteSet(OpenTasks)
  /\ wg = Cardinality(OpenRequests) + Cardinality(OpenChanges) + Cardinality(OpenTasks)

\* Serve returns into the exit of the process, and waited for wg unless it gave up.
ServeInv ==
  serve = "returned" => proc # "running" /\ (~abandoned => wg = 0)

SessionInv ==
  load \in Loads /\ TypeOK /\ QueueInv /\ AnswerInv /\ CountInv /\ ServeInv /\ discarded = {}

-----------------------------------------------------------------------------
(* A line of functions: what a push, a pop and a return do to it.          *)

\* drain's pop moves the first pending function and leaves the line as it was.
LEMMA LinePop ==
  ASSUME NEW S, NEW q \in Seq(S), q # <<>>
  PROVE  /\ <<Head(q)>> \in Seq(S)
         /\ Tail(q) \in Seq(S)
         /\ <<Head(q)>> \o Tail(q) = <<>> \o q
PROOF
<1>1. Head(q) \in S /\ Tail(q) \in Seq(S)
  BY HeadTailProperties
<1>2. Len(q) \in Nat /\ Len(q) > 0
  BY EmptySeq, LenProperties
<1> QED
  BY <1>1, <1>2, HeadTailProperties, ConcatProperties

\* A push adds to the end of the line, whether or not drain is running a function.
LEMMA LinePush ==
  ASSUME NEW S, NEW c \in Seq(S), NEW q \in Seq(S), NEW f \in S
  PROVE  /\ Append(q, f) \in Seq(S)
         /\ c \o Append(q, f) \in Seq(S)
         /\ Len(c \o Append(q, f)) = Len(c \o q) + 1
         /\ \A i \in 1..Len(c \o q) : (c \o Append(q, f))[i] = (c \o q)[i]
         /\ (c \o Append(q, f))[Len(c \o q) + 1] = f
PROOF
  BY AppendProperties, ConcatProperties

\* A function that returns leaves the line: the rest moves up.
LEMMA LineRan ==
  ASSUME NEW S, NEW c \in Seq(S), NEW q \in Seq(S), Len(c) = 1
  PROVE  /\ c[1] \in S
         /\ (c \o q)[1] = c[1]
         /\ <<>> \o q \in Seq(S)
         /\ Len(c \o q) = Len(<<>> \o q) + 1
         /\ \A i \in 1..Len(<<>> \o q) : (<<>> \o q)[i] = (c \o q)[i + 1]
PROOF
<1>1. c[1] \in S
  BY ElementOfSeq, LenProperties
<1>2. <<>> \o q = q
  BY ConcatEmptySeq
<1>3. Len(q) \in Nat /\ Len(c \o q) = Len(q) + 1
  <2>1. Len(q) \in Nat
    BY LenProperties
  <2>2. Len(c \o q) = Len(c) + Len(q)
    BY ConcatProperties
  <2> QED
    BY <2>1, <2>2
<1>4. \A i \in 1..Len(q) : (c \o q)[i + 1] = q[i]
  BY <1>3, ConcatProperties
<1>5. (c \o q)[1] = c[1]
  BY <1>3, ConcatProperties
<1> QED
  BY <1>1, <1>2, <1>3, <1>4, <1>5

\* A line that grew by f at its end, and one that lost its first function.
Grown(line, new, f) ==
  /\ line \in Seq(Entry) /\ new \in Seq(Entry)
  /\ Len(new) = Len(line) + 1
  /\ \A i \in 1..Len(line) : new[i] = line[i]
  /\ new[Len(line) + 1] = f

Shrunk(line, new) ==
  /\ line \in Seq(Entry) /\ new \in Seq(Entry)
  /\ Len(line) = Len(new) + 1
  /\ \A i \in 1..Len(new) : new[i] = line[i + 1]

\* dispatchNotification: the new change is the next one.
LEMMA SortedChange ==
  ASSUME NEW line, NEW new, NEW a \in Nat, NEW c \in Nat,
         Grown(line, new, Change(c + 1)), Sorted(line, a, c), a <= c
  PROVE  Sorted(new, a, c + 1)
PROOF
<1> USE DEF Grown, Change
<1>1. Len(line) \in Nat /\ DOMAIN line = 1..Len(line) /\ DOMAIN new = 1..(Len(line) + 1)
  BY LenProperties
<1>2. new[Len(line) + 1].kind = "change" /\ new[Len(line) + 1].n = c + 1
  OBVIOUS
<1>3. ASSUME NEW i \in DOMAIN new, new[i].kind = "change"
      PROVE  new[i].n \in Nat
  BY <1>1, <1>3, ElementOfSeq DEF Entry
<1>4. ASSUME NEW i \in DOMAIN new, new[i].kind = "change"
      PROVE  a < new[i].n /\ new[i].n <= c + 1
  BY <1>1, <1>2, <1>3, <1>4 DEF Sorted
<1>5. ASSUME NEW i \in DOMAIN new, NEW j \in DOMAIN new, i < j,
             new[i].kind = "change", new[j].kind = "change"
      PROVE  new[i].n < new[j].n
  <2>1. new[i].n \in Nat /\ i \in DOMAIN line /\ new[i] = line[i]
    BY <1>1, <1>3, <1>5
  <2>2. CASE j = Len(line) + 1
    BY <1>2, <2>1, <2>2, <1>5 DEF Sorted
  <2>3. CASE j # Len(line) + 1
    BY <1>1, <2>1, <2>3, <1>5 DEF Sorted
  <2> QED
    BY <2>2, <2>3
<1>6. ASSUME NEW n \in Nat, a < n, n <= c + 1
      PROVE  \E i \in DOMAIN new : IsChange(new[i], n)
  <2>1. CASE n = c + 1
    BY <1>1, <1>2, <2>1 DEF IsChange
  <2>2. CASE n # c + 1
    <3>1. PICK i \in DOMAIN line : IsChange(line[i], n)
      BY <1>6, <2>2 DEF Sorted
    <3> QED
      BY <1>1, <3>1
  <2> QED
    BY <2>1, <2>2
<1> QED
  BY <1>4, <1>5, <1>6 DEF Sorted

\* dispatchRequest: a barrier at the end changes nothing about the changes.
LEMMA SortedJoin ==
  ASSUME NEW line, NEW new, NEW a \in Nat, NEW c \in Nat, NEW r \in Reqs,
         Grown(line, new, Barrier(r)), Sorted(line, a, c)
  PROVE  Sorted(new, a, c)
PROOF
<1> USE DEF Grown
<1>1. Len(line) \in Nat /\ DOMAIN line = 1..Len(line) /\ DOMAIN new = 1..(Len(line) + 1)
  BY LenProperties
<1>2. new[Len(line) + 1].kind = "join"
  BY DEF Barrier
<1>3. \A i \in DOMAIN new : new[i].kind = "change" => i \in DOMAIN line /\ new[i] = line[i]
  BY <1>1, <1>2
<1>4. \A i \in DOMAIN line : i \in DOMAIN new /\ new[i] = line[i]
  BY <1>1
<1> QED
  BY <1>3, <1>4 DEF Sorted

\* drain runs the changes in order: the first function, if it is a change, is the next one.
LEMMA SortedHead ==
  ASSUME NEW line \in Seq(Entry), NEW a \in Nat, NEW c \in Nat,
         Sorted(line, a, c), Len(line) > 0, line[1].kind = "change"
  PROVE  line[1].n = a + 1 /\ a < c
PROOF
<1>1. Len(line) \in Nat /\ DOMAIN line = 1..Len(line)
  BY LenProperties
<1>2. 1 \in DOMAIN line /\ line[1].n \in Nat /\ a < line[1].n /\ line[1].n <= c
  BY <1>1, ElementOfSeq DEF Sorted, Entry
<1>2a. a + 1 \in Nat /\ a < a + 1 /\ a + 1 <= c
  BY <1>2
<1>3. PICK i \in DOMAIN line : IsChange(line[i], a + 1)
  BY <1>2a DEF Sorted
<1>4. i = 1 \/ line[1].n < a + 1
  BY <1>1, <1>2, <1>3 DEF Sorted, IsChange
<1> QED
  BY <1>2, <1>3, <1>4 DEF IsChange

\* drain ran a change: what is left starts one later.
LEMMA SortedRanChange ==
  ASSUME NEW line, NEW new, NEW a \in Nat, NEW c \in Nat,
         Shrunk(line, new), Sorted(line, a, c), line[1].kind = "change"
  PROVE  Sorted(new, a + 1, c)
PROOF
<1> USE DEF Shrunk
<1>1. Len(new) \in Nat /\ DOMAIN new = 1..Len(new) /\ DOMAIN line = 1..(Len(new) + 1)
  BY LenProperties
<1>2. line[1].n = a + 1 /\ a < c
  BY <1>1, SortedHead
<1>3. \A i \in DOMAIN new : i + 1 \in DOMAIN line /\ 1 < i + 1 /\ new[i] = line[i + 1]
  BY <1>1
<1>3a. ASSUME NEW i \in DOMAIN new, new[i].kind = "change"
       PROVE  new[i].n \in Nat
  BY <1>1, <1>3a, ElementOfSeq DEF Entry
<1>4. ASSUME NEW i \in DOMAIN new, new[i].kind = "change"
      PROVE  a + 1 < new[i].n /\ new[i].n <= c
  BY <1>1, <1>2, <1>3, <1>4 DEF Sorted
<1>5. ASSUME NEW i \in DOMAIN new, NEW j \in DOMAIN new, i < j,
             new[i].kind = "change", new[j].kind = "change"
      PROVE  new[i].n < new[j].n
  <2>1. i + 1 < j + 1
    BY <1>1, <1>5
  <2> QED
    BY <1>3, <1>5, <2>1 DEF Sorted
<1>6. ASSUME NEW n \in Nat, a + 1 < n, n <= c
      PROVE  \E i \in DOMAIN new : IsChange(new[i], n)
  <2>1. PICK i \in DOMAIN line : IsChange(line[i], n)
    BY <1>6 DEF Sorted
  <2>2. i # 1
    BY <1>2, <1>6, <2>1 DEF IsChange
  <2>3. i - 1 \in DOMAIN new /\ new[i - 1] = line[i]
    BY <1>1, <2>2
  <2> QED
    BY <2>1, <2>3
<1> QED
  BY <1>4, <1>5, <1>6 DEF Sorted

\* drain ran a barrier: the changes are those that were there.
LEMMA SortedRanJoin ==
  ASSUME NEW line, NEW new, NEW a \in Nat, NEW c \in Nat,
         Shrunk(line, new), Sorted(line, a, c), line[1].kind = "join"
  PROVE  Sorted(new, a, c)
PROOF
<1> USE DEF Shrunk
<1>1. Len(new) \in Nat /\ DOMAIN new = 1..Len(new) /\ DOMAIN line = 1..(Len(new) + 1)
  BY LenProperties
<1>3. \A i \in DOMAIN new : i + 1 \in DOMAIN line /\ new[i] = line[i + 1]
  BY <1>1
<1>5. ASSUME NEW i \in DOMAIN new, NEW j \in DOMAIN new, i < j,
             new[i].kind = "change", new[j].kind = "change"
      PROVE  new[i].n < new[j].n
  <2>1. i + 1 < j + 1
    BY <1>1, <1>5
  <2> QED
    BY <1>3, <1>5, <2>1 DEF Sorted
<1>6. ASSUME NEW n \in Nat, a < n, n <= c
      PROVE  \E i \in DOMAIN new : IsChange(new[i], n)
  <2>1. PICK i \in DOMAIN line : IsChange(line[i], n)
    BY <1>6 DEF Sorted
  <2>2. i # 1
    BY <2>1 DEF IsChange
  <2>3. i - 1 \in DOMAIN new /\ new[i - 1] = line[i]
    BY <1>1, <2>2
  <2> QED
    BY <2>1, <2>3
<1> QED
  BY <1>3, <1>5, <1>6 DEF Sorted

\* A push behind position i leaves what precedes it.
LEMMA PrecedeGrown ==
  ASSUME NEW line, NEW new, NEW f, Grown(line, new, f),
         NEW i \in DOMAIN line, NEW a \in Nat, NEW b \in Nat, Precede(line, i, a, b)
  PROVE  Precede(new, i, a, b)
PROOF
<1>1. Len(line) \in Nat /\ DOMAIN line = 1..Len(line) /\ DOMAIN new = 1..(Len(line) + 1)
  BY LenProperties DEF Grown
<1>2. \A j \in DOMAIN line : j \in DOMAIN new /\ new[j] = line[j]
  BY <1>1 DEF Grown
<1> QED
  BY <1>2 DEF Precede

\* A barrier pushed now stands behind every accepted change.
LEMMA PrecedeJoin ==
  ASSUME NEW line, NEW new, NEW f, Grown(line, new, f),
         NEW a \in Nat, NEW c \in Nat, Sorted(line, a, c)
  PROVE  Precede(new, Len(line) + 1, a, c)
PROOF
<1>1. Len(line) \in Nat /\ DOMAIN line = 1..Len(line) /\ DOMAIN new = 1..(Len(line) + 1)
  BY LenProperties DEF Grown
<1>2. \A j \in DOMAIN line : j \in DOMAIN new /\ new[j] = line[j] /\ j < Len(line) + 1
  BY <1>1 DEF Grown
<1> QED
  BY <1>2 DEF Precede, Sorted

\* The first function returned, a change or a barrier: what precedes the others is still complete.
LEMMA PrecedeShrunk ==
  ASSUME NEW line, NEW new, Shrunk(line, new), NEW i \in DOMAIN new,
         NEW a \in Nat, NEW e \in Nat, NEW b \in Nat,
         Precede(line, i + 1, a, b),
         line[1].kind = "change" => line[1].n = a + 1 /\ e = a + 1,
         line[1].kind # "change" => e = a
  PROVE  Precede(new, i, e, b)
PROOF
<1>1. Len(new) \in Nat /\ DOMAIN new = 1..Len(new) /\ DOMAIN line = 1..(Len(new) + 1)
  BY LenProperties DEF Shrunk
<1>2. SUFFICES ASSUME NEW n \in Nat, e < n, n <= b
               PROVE  \E j \in DOMAIN new : j < i /\ IsChange(new[j], n)
  BY DEF Precede
<1>3. a < n
  BY <1>2
<1>4. PICK j \in DOMAIN line : j < i + 1 /\ IsChange(line[j], n)
  BY <1>2, <1>3 DEF Precede
<1>5. j # 1
  BY <1>2, <1>4 DEF IsChange
<1>6. j - 1 \in DOMAIN new /\ j - 1 < i /\ new[j - 1] = line[j]
  BY <1>1, <1>4, <1>5 DEF Shrunk
<1> QED
  BY <1>4, <1>6

-----------------------------------------------------------------------------
(* One document's line through a step.                                     *)

\* Dispatched requests stay dispatched, and their history with them.
KeepsRequests ==
  \A r \in Reqs : phase[r] # "unsent" => phase'[r] # "unsent" /\ before'[r] = before[r]

SameDoc(d) ==
  /\ queue'[d] = queue[d] /\ current'[d] = current[d]
  /\ changes'[d] = changes[d] /\ applied'[d] = applied[d]

\* The line of a document and its parts are what their names say.
LEMMA LineType ==
  ASSUME QueueType, NEW d \in Docs
  PROVE  /\ queue[d] \in Seq(Entry) /\ current[d] \in Seq(Entry) /\ applied[d] \in Seq(Nat)
         /\ Line(d) \in Seq(Entry)
         /\ Len(Line(d)) \in Nat
         /\ DOMAIN Line(d) = 1..Len(Line(d))
         /\ Len(applied[d]) \in Nat
PROOF
<1>1. queue[d] \in Seq(Entry) /\ current[d] \in Seq(Entry) /\ applied[d] \in Seq(Nat)
  BY DEF QueueType
<1>2. Line(d) \in Seq(Entry)
  BY <1>1, ConcatProperties DEF Line
<1> QED
  BY <1>1, <1>2, LenProperties

\* The request of a barrier is a request.
LEMMA JoinRequest ==
  ASSUME QueueType, NEW d \in Docs, NEW i \in DOMAIN Line(d), Line(d)[i].kind = "join"
  PROVE  Line(d)[i].r \in Reqs
PROOF
<1>1. Line(d)[i] \in Entry
  BY LineType, ElementOfSeq
<1> QED
  BY <1>1 DEF Entry

\* A step that leaves a document alone.
LEMMA DocFrame ==
  ASSUME QueueType, NEW d \in Docs, DocInv(d), KeepsRequests, SameDoc(d)
  PROVE  DocInv(d)'
PROOF
<1>1. Line(d)' = Line(d)
  BY DEF Line, SameDoc
<1>2. ASSUME NEW i \in DOMAIN Line(d), Line(d)[i].kind = "join"
      PROVE  JoinInv(d, i)'
  <2>1. Line(d)[i].r \in Reqs /\ JoinInv(d, i)
    BY <1>2, JoinRequest DEF DocInv
  <2>2. before'[Line(d)[i].r] = before[Line(d)[i].r] /\ phase'[Line(d)[i].r] # "unsent"
    BY <2>1 DEF JoinInv, KeepsRequests
  <2> QED
    BY <1>1, <2>1, <2>2 DEF JoinInv, SameDoc
<1> QED
  BY <1>1, <1>2 DEF DocInv, SameDoc

\* A step that changes no queue.
LEMMA QueueFrame ==
  ASSUME QueueInv, barrier \subseteq Reqs, KeepsRequests,
         UNCHANGED <<queue, current, changes, applied, barrier>>
  PROVE  QueueInv'
PROOF
<1>1. \A d \in Docs : SameDoc(d)
  BY DEF SameDoc
<1>2. \A d \in Docs : DocInv(d)'
  BY <1>1, DocFrame DEF QueueInv
<1>3. QueueType'
  BY DEF QueueInv, QueueType
<1>4. BarrierInv'
  BY DEF QueueInv, BarrierInv, KeepsRequests
<1> QED
  BY <1>2, <1>3, <1>4 DEF QueueInv

\* drain pops the next function.
LEMMA QueuePop ==
  ASSUME QueueInv, barrier \subseteq Reqs, NEW d \in Docs, drainPop(d)
  PROVE  QueueInv'
PROOF
<1> USE DEF drainPop, requestVars
<1>1. KeepsRequests
  BY DEF KeepsRequests
<1>2. QueueType /\ queue[d] \in Seq(Entry)
  BY LineType DEF QueueInv
<1>3. <<Head(queue[d])>> \in Seq(Entry) /\ Tail(queue[d]) \in Seq(Entry)
      /\ <<Head(queue[d])>> \o Tail(queue[d]) = <<>> \o queue[d]
  BY <1>2, LinePop
<1>4. QueueType'
  BY <1>2, <1>3 DEF QueueType
<1>5. current'[d] = <<Head(queue[d])>> /\ queue'[d] = Tail(queue[d]) /\ current[d] = <<>>
  BY <1>2 DEF QueueType
<1>6. Line(d)' = Line(d) /\ Len(current'[d]) <= 1
  <2>1. Line(d)' = <<Head(queue[d])>> \o Tail(queue[d]) /\ Line(d) = <<>> \o queue[d]
    BY <1>5 DEF Line
  <2>2. Len(<<Head(queue[d])>>) = 1
    OBVIOUS
  <2> QED
    BY <1>3, <1>5, <2>1, <2>2
<1>7. \A i \in DOMAIN Line(d) : JoinInv(d, i)' <=> JoinInv(d, i)
  BY <1>6 DEF JoinInv
<1>8. DocInv(d)'
  BY <1>6, <1>7 DEF DocInv, QueueInv
<1>9. ASSUME NEW e \in Docs, e # d
      PROVE  DocInv(e)'
  <2>1. SameDoc(e)
    BY <1>2, <1>9 DEF SameDoc, QueueType
  <2> QED
    BY <1>1, <1>2, <2>1, DocFrame DEF QueueInv
<1>10. BarrierInv'
  BY DEF QueueInv, BarrierInv
<1> QED
  BY <1>4, <1>8, <1>9, <1>10 DEF QueueInv

\* A function is pushed on document d's queue: the request's barrier or the new change.
Pushed(d, f) ==
  /\ f \in Entry
  /\ queue' = [queue EXCEPT ![d] = Append(@, f)]
  /\ UNCHANGED <<current, applied>>

\* A push keeps the types and grows one line.
LEMMA PushGrows ==
  ASSUME QueueType, NEW d \in Docs, NEW f, Pushed(d, f)
  PROVE  /\ QueueType'
         /\ Grown(Line(d), Line(d)', f)
         /\ \A e \in Docs : e # d => queue'[e] = queue[e]
PROOF
<1> USE DEF Pushed
<1>1. queue[d] \in Seq(Entry) /\ current[d] \in Seq(Entry)
  BY LineType
<1>2. queue'[d] = Append(queue[d], f) /\ Append(queue[d], f) \in Seq(Entry)
  BY <1>1, AppendProperties DEF QueueType
<1>3. QueueType'
  BY <1>2 DEF QueueType
<1>4. Line(d)' = current[d] \o Append(queue[d], f)
  BY <1>2 DEF Line
<1>5. Grown(Line(d), Line(d)', f)
  <2> DEFINE c == current[d]
             q == queue[d]
  <2>1. c \in Seq(Entry) /\ q \in Seq(Entry) /\ f \in Entry
    BY <1>1
  <2> HIDE DEF c, q
  <2>2. /\ c \o Append(q, f) \in Seq(Entry)
        /\ Len(c \o Append(q, f)) = Len(c \o q) + 1
        /\ \A i \in 1..Len(c \o q) : (c \o Append(q, f))[i] = (c \o q)[i]
        /\ (c \o Append(q, f))[Len(c \o q) + 1] = f
    BY <2>1, LinePush
  <2>3. Line(d) = c \o q /\ Line(d)' = c \o Append(q, f) /\ Line(d) \in Seq(Entry)
    BY <1>4, LineType DEF Line, c, q
  <2> QED
    BY <2>2, <2>3 DEF Grown
<1> QED
  BY <1>3, <1>5 DEF QueueType

\* The joins that were in the line keep what precedes them when a function is pushed.
LEMMA JoinGrown ==
  ASSUME QueueType, before \in [Reqs -> Nat], NEW d \in Docs, NEW f, Pushed(d, f), DocInv(d),
         KeepsRequests, NEW i \in DOMAIN Line(d), Line(d)[i].kind = "join"
  PROVE  JoinInv(d, i)'
PROOF
<1>1. Grown(Line(d), Line(d)', f)
  BY PushGrows
<1>2. Line(d)[i].r \in Reqs /\ JoinInv(d, i)
  BY JoinRequest DEF DocInv
<1>3. Line(d)'[i] = Line(d)[i]
  BY <1>1, LineType DEF Grown
<1>4. before'[Line(d)[i].r] = before[Line(d)[i].r] /\ phase'[Line(d)[i].r] # "unsent"
      /\ before[Line(d)[i].r] \in Nat
  BY <1>2 DEF JoinInv, KeepsRequests
<1>5. Len(applied[d]) \in Nat /\ Len(applied[d])' = Len(applied[d])
  BY LineType DEF Pushed
<1>6. Precede(Line(d), i, Len(applied[d]), before[Line(d)[i].r])
  BY <1>2 DEF JoinInv
<1>7. Precede(Line(d)', i, Len(applied[d]), before[Line(d)[i].r])
  BY <1>1, <1>4, <1>5, <1>6, PrecedeGrown
<1> QED
  BY <1>2, <1>3, <1>4, <1>5, <1>7 DEF JoinInv

\* dispatchRequest: the request's barrier goes to the end of its document's line.
LEMMA QueueDispatchRequest ==
  ASSUME QueueInv, barrier \subseteq Reqs, before \in [Reqs -> Nat], changes \in [Docs -> Nat],
         phase \in [Reqs -> Phases], DocOf \in [Reqs -> Docs],
         NEW r \in Reqs, dispatchRequest(r)
  PROVE  QueueInv'
PROOF
<1> DEFINE d == DocOf[r]
           f == Barrier(r)
<1>1. d \in Docs /\ f \in Entry /\ f.kind = "join" /\ f.r = r
  BY DEF Barrier, Entry
<1>2. KeepsRequests /\ phase'[r] # "unsent" /\ before'[r] = changes[d]
  BY DEF dispatchRequest, KeepsRequests
<1>3. Pushed(d, f)
  BY <1>1 DEF Pushed, dispatchRequest, push
<1> HIDE DEF f
<1>4. QueueType /\ DocInv(d)
  BY <1>1 DEF QueueInv
<1>5. /\ QueueType'
      /\ Grown(Line(d), Line(d)', f)
      /\ \A e \in Docs : e # d => queue'[e] = queue[e]
  BY <1>1, <1>3, <1>4, PushGrows
<1>6. Len(applied[d]) \in Nat /\ changes[d] \in Nat /\ applied' = applied /\ changes' = changes
      /\ current' = current /\ barrier' = barrier
  BY <1>1, <1>4, LineType DEF dispatchRequest
<1>7. Sorted(Line(d)', Len(applied[d]), changes[d])
  BY <1>4, <1>5, <1>6, SortedJoin DEF DocInv, f
<1>8. ASSUME NEW i \in DOMAIN Line(d)', Line(d)'[i].kind = "join"
      PROVE  JoinInv(d, i)'
  <2>1. Len(Line(d)) \in Nat /\ DOMAIN Line(d) = 1..Len(Line(d))
        /\ DOMAIN Line(d)' = 1..(Len(Line(d)) + 1)
    BY <1>1, <1>4, <1>5, LineType, LenProperties DEF Grown
  <2>2. CASE i \in DOMAIN Line(d)
    <3>1. Line(d)[i].kind = "join"
      BY <1>5, <1>8, <2>1, <2>2 DEF Grown
    <3> QED
      BY <1>1, <1>2, <1>3, <1>4, <2>2, <3>1, JoinGrown
  <2>3. CASE i = Len(Line(d)) + 1
    <3>1. Line(d)'[i] = f
      BY <1>5, <2>3 DEF Grown
    <3>2. Precede(Line(d)', i, Len(applied[d]), changes[d])
      BY <1>4, <1>5, <1>6, <2>3, PrecedeJoin DEF DocInv
    <3> QED
      BY <1>1, <1>2, <1>6, <3>1, <3>2 DEF JoinInv
  <2> QED
    BY <1>8, <2>1, <2>2, <2>3
<1>9. DocInv(d)'
  BY <1>4, <1>6, <1>7, <1>8 DEF DocInv
<1>10. ASSUME NEW e \in Docs, e # d
       PROVE  DocInv(e)'
  <2>1. SameDoc(e)
    BY <1>5, <1>6, <1>10 DEF SameDoc
  <2> QED
    BY <1>2, <1>4, <2>1, DocFrame DEF QueueInv
<1>11. BarrierInv'
  BY <1>2, <1>6 DEF QueueInv, BarrierInv, KeepsRequests
<1> QED
  BY <1>5, <1>9, <1>10, <1>11 DEF QueueInv

\* dispatchNotification: the next change goes to the end of its document's line.
LEMMA QueueDispatchNotification ==
  ASSUME QueueInv, barrier \subseteq Reqs, before \in [Reqs -> Nat], changes \in [Docs -> Nat],
         NEW d \in Docs, dispatchNotification(d)
  PROVE  QueueInv'
PROOF
<1> DEFINE f == Change(changes[d] + 1)
<1>1. f \in Entry /\ f.kind = "change"
  BY DEF Change, Entry
<1>2. KeepsRequests
  BY DEF dispatchNotification, KeepsRequests, requestVars
<1>3. Pushed(d, f)
  BY <1>1 DEF Pushed, dispatchNotification, push
<1> HIDE DEF f
<1>4. QueueType /\ DocInv(d)
  BY DEF QueueInv
<1>5. /\ QueueType'
      /\ Grown(Line(d), Line(d)', f)
      /\ \A e \in Docs : e # d => queue'[e] = queue[e]
  BY <1>1, <1>3, <1>4, PushGrows
<1>6. Len(applied[d]) \in Nat /\ changes[d] \in Nat /\ applied' = applied
      /\ changes'[d] = changes[d] + 1 /\ \A e \in Docs : e # d => changes'[e] = changes[e]
  BY <1>4, LineType DEF dispatchNotification
<1>6a. current' = current /\ barrier' = barrier
  BY DEF dispatchNotification
<1>7. Sorted(Line(d)', Len(applied[d]), changes[d] + 1)
  BY <1>4, <1>5, <1>6, SortedChange DEF DocInv, f
<1>8. ASSUME NEW i \in DOMAIN Line(d)', Line(d)'[i].kind = "join"
      PROVE  JoinInv(d, i)'
  <2>1. Len(Line(d)) \in Nat /\ DOMAIN Line(d) = 1..Len(Line(d))
        /\ DOMAIN Line(d)' = 1..(Len(Line(d)) + 1)
    BY <1>4, <1>5, LineType, LenProperties DEF Grown
  <2>2. i \in DOMAIN Line(d) /\ Line(d)[i].kind = "join"
    BY <1>1, <1>5, <1>8, <2>1 DEF Grown
  <2> QED
    BY <1>2, <1>3, <1>4, <2>2, JoinGrown
<1>9. DocInv(d)'
  BY <1>4, <1>6, <1>6a, <1>7, <1>8 DEF DocInv
<1>10. ASSUME NEW e \in Docs, e # d
       PROVE  DocInv(e)'
  <2>1. SameDoc(e)
    BY <1>5, <1>6, <1>6a, <1>10 DEF SameDoc
  <2> QED
    BY <1>2, <1>4, <2>1, DocFrame DEF QueueInv
<1>11. BarrierInv'
  BY <1>2, <1>6, <1>6a DEF QueueInv, BarrierInv, KeepsRequests
<1> QED
  BY <1>5, <1>9, <1>10, <1>11 DEF QueueInv

\* The function document d was running returned: its line is one shorter.
LEMMA RanShrinks ==
  ASSUME QueueInv, NEW d \in Docs, NEW L, drainRan(d, L)
  PROVE  /\ Shrunk(Line(d), Line(d)')
         /\ current[d][1] \in Entry
         /\ Line(d)[1] = current[d][1]
         /\ Len(Line(d)) > 0
         /\ Len(current'[d]) <= 1
         /\ current' \in [Docs -> Seq(Entry)]
         /\ queue' = queue
         /\ \A e \in Docs : e # d => current'[e] = current[e]
PROOF
<1>1. QueueType /\ Len(current[d]) <= 1 /\ current[d] # <<>>
  BY DEF QueueInv, DocInv, drainRan
<1>2. queue[d] \in Seq(Entry) /\ current[d] \in Seq(Entry)
  BY <1>1, LineType
<1>3. Len(current[d]) = 1
  <2> DEFINE k == Len(current[d])
  <2>1. k \in Nat
    BY <1>2, LenProperties
  <2>2. k # 0
    BY <1>1, <1>2, EmptySeq
  <2>3. k <= 1
    BY <1>1
  <2> HIDE DEF k
  <2>4. k = 1
    BY <2>1, <2>2, <2>3
  <2> QED
    BY <2>4 DEF k
<1>4. current'[d] = <<>> /\ queue' = queue /\ current' = [current EXCEPT ![d] = <<>>]
  BY <1>1 DEF drainRan, QueueType
<1>4a. <<>> \in Seq(Entry) /\ Len(<<>>) = 0
  BY EmptySeq
<1> DEFINE c == current[d]
           q == queue[d]
<1>5. Line(d) = c \o q /\ Line(d)' = <<>> \o q /\ Line(d) \in Seq(Entry)
      /\ Len(Line(d)) \in Nat
  BY <1>1, <1>4, LineType DEF Line
<1>6. c \in Seq(Entry) /\ q \in Seq(Entry) /\ Len(c) = 1
  BY <1>2, <1>3
<1> HIDE DEF c, q
<1>7. /\ c[1] \in Entry
      /\ (c \o q)[1] = c[1]
      /\ <<>> \o q \in Seq(Entry)
      /\ Len(c \o q) = Len(<<>> \o q) + 1
      /\ \A i \in 1..Len(<<>> \o q) : (<<>> \o q)[i] = (c \o q)[i + 1]
  BY <1>6, LineRan
<1>8. Shrunk(Line(d), Line(d)')
  BY <1>5, <1>7 DEF Shrunk
<1>9. Len(Line(d)) > 0
  BY <1>5, <1>7, LenProperties
<1>10. current' \in [Docs -> Seq(Entry)] /\ \A e \in Docs : e # d => current'[e] = current[e]
  BY <1>1, <1>4, <1>4a DEF QueueType
<1> QED
  BY <1>4, <1>4a, <1>5, <1>7, <1>8, <1>9, <1>10 DEF c

\* The joins left in the line still have before them what is not applied.
LEMMA JoinShrunk ==
  ASSUME QueueInv, before \in [Reqs -> Nat], changes \in [Docs -> Nat],
         NEW d \in Docs, Shrunk(Line(d), Line(d)'), KeepsRequests, Len(Line(d)) > 0,
         Len(applied'[d]) = IF Line(d)[1].kind = "change" THEN Len(applied[d]) + 1
                                                         ELSE Len(applied[d]),
         NEW i \in DOMAIN Line(d)', Line(d)'[i].kind = "join"
  PROVE  JoinInv(d, i)'
PROOF
<1>1. QueueType /\ DocInv(d)
  BY DEF QueueInv
<1>2. Len(Line(d)') \in Nat /\ DOMAIN Line(d)' = 1..Len(Line(d)')
      /\ DOMAIN Line(d) = 1..(Len(Line(d)') + 1)
  BY LenProperties DEF Shrunk
<1>3. i + 1 \in DOMAIN Line(d) /\ Line(d)'[i] = Line(d)[i + 1]
  BY <1>2 DEF Shrunk
<1> DEFINE r == Line(d)[i + 1].r
<1>4. JoinInv(d, i + 1) /\ r \in Reqs
  BY <1>1, <1>3, JoinRequest DEF DocInv
<1>5. before'[r] = before[r] /\ phase'[r] # "unsent" /\ before[r] \in Nat /\ DocOf[r] = d
  BY <1>4 DEF JoinInv, KeepsRequests
<1>6. Len(applied[d]) \in Nat /\ Len(applied'[d]) \in Nat /\ Line(d) \in Seq(Entry)
  BY <1>1, LineType
<1>7. Line(d)[1].kind = "change" => Line(d)[1].n = Len(applied[d]) + 1
  BY <1>1, <1>6, SortedHead DEF DocInv
<1>8. Precede(Line(d), i + 1, Len(applied[d]), before[r])
  BY <1>4 DEF JoinInv
<1> HIDE DEF r
<1>9. Precede(Line(d)', i, Len(applied'[d]), before[r])
  BY <1>5, <1>6, <1>7, <1>8, PrecedeShrunk
<1> QED
  BY <1>3, <1>5, <1>9 DEF JoinInv, r

\* drain ran a notification handler or a barrier.
LEMMA QueueRan ==
  ASSUME QueueInv, barrier \subseteq Reqs, before \in [Reqs -> Nat], changes \in [Docs -> Nat],
         DocOf \in [Reqs -> Docs], NEW d \in Docs, NEW L, drainRan(d, L)
  PROVE  QueueInv'
PROOF
<1>1. /\ Shrunk(Line(d), Line(d)')
      /\ current[d][1] \in Entry
      /\ Line(d)[1] = current[d][1]
      /\ Len(Line(d)) > 0
      /\ Len(current'[d]) <= 1
      /\ current' \in [Docs -> Seq(Entry)]
      /\ queue' = queue
      /\ \A e \in Docs : e # d => current'[e] = current[e]
  BY RanShrinks
<1>2. KeepsRequests /\ UNCHANGED <<changes, phase, before>>
  BY DEF drainRan, KeepsRequests, requestVars
<1>3. QueueType /\ DocInv(d) /\ applied[d] \in Seq(Nat) /\ Len(applied[d]) \in Nat
      /\ Line(d) \in Seq(Entry) /\ changes[d] \in Nat
  BY LineType DEF QueueInv
<1> DEFINE f == current[d][1]
<1>4. CASE f.kind = "change"
  <2>1. f.n = Len(applied[d]) + 1 /\ Len(applied[d]) < changes[d]
    BY <1>1, <1>3, <1>4, SortedHead DEF DocInv
  <2>2. applied' = [applied EXCEPT ![d] = Append(applied[d], f.n)] /\ barrier' = barrier
    BY <1>4 DEF drainRan
  <2>3. /\ applied' \in [Docs -> Seq(Nat)]
        /\ applied'[d] = Append(applied[d], Len(applied[d]) + 1)
        /\ \A e \in Docs : e # d => applied'[e] = applied[e]
    BY <1>3, <2>1, <2>2, AppendProperties DEF QueueType
  <2>4. /\ Len(applied'[d]) = Len(applied[d]) + 1
        /\ \A i \in 1..Len(applied[d]) : applied'[d][i] = applied[d][i]
        /\ applied'[d][Len(applied[d]) + 1] = Len(applied[d]) + 1
    BY <1>3, <2>3, AppendProperties
  <2>5. Sorted(Line(d)', Len(applied[d]) + 1, changes[d])
    BY <1>1, <1>3, <1>4, SortedRanChange DEF DocInv
  <2>6. \A i \in DOMAIN Line(d)' : Line(d)'[i].kind = "join" => JoinInv(d, i)'
    BY <1>1, <1>2, <1>4, <2>4, JoinShrunk
  <2>7. ASSUME NEW i \in 1..Len(applied'[d])
        PROVE  applied'[d][i] = i
    <3>1. i \in 1..Len(applied[d]) \/ i = Len(applied[d]) + 1
      BY <1>3, <2>4
    <3>2. \A k \in 1..Len(applied[d]) : applied[d][k] = k
      BY <1>3 DEF DocInv
    <3> QED
      BY <2>4, <3>1, <3>2
  <2>8. DocInv(d)'
    BY <1>1, <1>2, <1>3, <2>1, <2>4, <2>5, <2>6, <2>7 DEF DocInv
  <2>9. ASSUME NEW e \in Docs, e # d
        PROVE  DocInv(e)'
    <3>1. SameDoc(e)
      BY <1>1, <1>2, <2>3, <2>9 DEF SameDoc
    <3> QED
      BY <1>2, <1>3, <3>1, DocFrame DEF QueueInv
  <2>10. ASSUME NEW r \in barrier
         PROVE  phase'[r] # "unsent" /\ before'[r] <= Len(applied'[DocOf[r]])
    <3>1. DocOf[r] \in Docs /\ before[r] \in Nat
          /\ phase[r] # "unsent" /\ before[r] <= Len(applied[DocOf[r]])
      BY DEF QueueInv, BarrierInv
    <3>2. \/ Len(applied'[DocOf[r]]) = Len(applied[DocOf[r]])
          \/ /\ Len(applied[DocOf[r]]) \in Nat
             /\ Len(applied'[DocOf[r]]) = Len(applied[DocOf[r]]) + 1
      BY <1>3, <2>3, <2>4, <3>1
    <3> QED
      BY <1>2, <3>1, <3>2
  <2>11. BarrierInv' /\ QueueType'
    BY <1>1, <1>3, <2>2, <2>3, <2>10 DEF BarrierInv, QueueType
  <2> QED
    BY <2>8, <2>9, <2>11 DEF QueueInv
<1>5. CASE f.kind # "change"
  <2>1. f.kind = "join" /\ f.r \in Reqs
    BY <1>1, <1>5 DEF Entry
  <2>2. applied' = applied /\ barrier' = barrier \cup {f.r}
    BY <1>5 DEF drainRan
  <2>3. Sorted(Line(d)', Len(applied[d]), changes[d])
    BY <1>1, <1>3, <2>1, SortedRanJoin DEF DocInv
  <2>4. \A i \in DOMAIN Line(d)' : Line(d)'[i].kind = "join" => JoinInv(d, i)'
    BY <1>1, <1>2, <2>1, <2>2, JoinShrunk
  <2>5. DocInv(d)'
    BY <1>1, <1>2, <1>3, <2>2, <2>3, <2>4 DEF DocInv
  <2>6. ASSUME NEW e \in Docs, e # d
        PROVE  DocInv(e)'
    <3>1. SameDoc(e)
      BY <1>1, <1>2, <2>2, <2>6 DEF SameDoc
    <3> QED
      BY <1>2, <1>3, <3>1, DocFrame DEF QueueInv
  <2>7. phase[f.r] # "unsent" /\ DocOf[f.r] = d /\ before[f.r] <= Len(applied[d])
    <3>1. 1 \in DOMAIN Line(d)
      BY <1>1, <1>3, LineType
    <3>2. JoinInv(d, 1) /\ Line(d)[1] = f
      BY <1>1, <1>3, <2>1, <3>1 DEF DocInv
    <3>3. Precede(Line(d), 1, Len(applied[d]), before[f.r]) /\ phase[f.r] # "unsent"
          /\ DocOf[f.r] = d
      BY <3>2 DEF JoinInv
    <3>4. ~(Len(applied[d]) < before[f.r])
      BY SMTT(20), <1>3, <2>1, <3>3, LineType DEF Precede
    <3> QED
      BY <1>3, <2>1, <3>3, <3>4
  <2>8. BarrierInv' /\ QueueType'
    BY <1>1, <1>2, <1>3, <2>2, <2>7 DEF BarrierInv, QueueType, QueueInv
  <2> QED
    BY <2>5, <2>6, <2>8 DEF QueueInv
<1> QED
  BY <1>4, <1>5

-----------------------------------------------------------------------------
(* What wg counts.                                                         *)

Busy == {"working", "asking", "asked"}
One(b) == IF b THEN 1 ELSE 0

\* A request's goroutine moves on.
LEMMA RequestsMove ==
  ASSUME phase \in [Reqs -> Phases], IsFiniteSet(OpenRequests), NEW r \in Reqs, NEW p,
         phase' = [phase EXCEPT ![r] = p]
  PROVE  /\ IsFiniteSet(OpenRequests')
         /\ Cardinality(OpenRequests) \in Nat
         /\ Cardinality(OpenRequests') \in Nat
         /\ Cardinality(OpenRequests') + One(phase[r] \in InFlight)
              = Cardinality(OpenRequests) + One(p \in InFlight)
PROOF
<1>1. OpenRequests' = {x \in Reqs : IF x = r THEN p \in InFlight ELSE phase[x] \in InFlight}
  BY DEF OpenRequests
<1>2. Cardinality(OpenRequests) \in Nat
  BY FS_CardinalityType
<1>3. CASE p \in InFlight /\ phase[r] \notin InFlight
  <2>1. OpenRequests' = OpenRequests \cup {r} /\ r \notin OpenRequests
    BY <1>1, <1>3 DEF OpenRequests
  <2> QED
    BY <1>2, <1>3, <2>1, FS_AddElement DEF One
<1>4. CASE p \notin InFlight /\ phase[r] \in InFlight
  <2>1. OpenRequests' = OpenRequests \ {r} /\ r \in OpenRequests
    BY <1>1, <1>4 DEF OpenRequests
  <2>2. IsFiniteSet(OpenRequests') /\ Cardinality(OpenRequests') = Cardinality(OpenRequests) - 1
    BY <1>2, <2>1, FS_RemoveElement
  <2>3. Cardinality(OpenRequests') \in Nat
    BY <2>2, FS_CardinalityType
  <2> QED
    BY <1>2, <1>4, <2>2, <2>3 DEF One
<1>5. CASE p \in InFlight <=> phase[r] \in InFlight
  <2>1. OpenRequests' = OpenRequests
    BY <1>1, <1>5 DEF OpenRequests
  <2> QED
    BY <1>2, <1>5, <2>1 DEF One
<1> QED
  BY <1>3, <1>4, <1>5

\* A detached task moves on.
LEMMA TasksMove ==
  ASSUME DOMAIN task = Tasks, task = [x \in Tasks |-> task[x]],
         IsFiniteSet(OpenTasks), NEW t \in Tasks, NEW p,
         task' = [task EXCEPT ![t] = p], task[t] \in Busy
  PROVE  /\ IsFiniteSet(OpenTasks')
         /\ Cardinality(OpenTasks) \in Nat
         /\ Cardinality(OpenTasks') \in Nat
         /\ Cardinality(OpenTasks') + 1 = Cardinality(OpenTasks) + One(p \in Busy)
PROOF
<1>1. OpenTasks' = {x \in Tasks : IF x = t THEN p \in Busy ELSE task[x] \in Busy}
  BY DEF OpenTasks, Busy
<1>2. Cardinality(OpenTasks) \in Nat /\ t \in OpenTasks
  BY FS_CardinalityType DEF OpenTasks, Busy
<1>3. CASE p \in Busy
  <2>1. OpenTasks' = OpenTasks
    BY <1>1, <1>3 DEF OpenTasks, Busy
  <2> QED
    BY <1>2, <1>3, <2>1 DEF One
<1>4. CASE p \notin Busy
  <2>1. OpenTasks' = OpenTasks \ {t}
    BY <1>1, <1>4 DEF OpenTasks, Busy
  <2>2. IsFiniteSet(OpenTasks') /\ Cardinality(OpenTasks') = Cardinality(OpenTasks) - 1
    BY <1>2, <2>1, FS_RemoveElement
  <2>3. Cardinality(OpenTasks') \in Nat
    BY <2>2, FS_CardinalityType
  <2> QED
    BY <1>2, <1>4, <2>2, <2>3 DEF One
<1> QED
  BY <1>3, <1>4

\* A handler started tasks with Go.
LEMMA TasksStart ==
  ASSUME IsFiniteSet(OpenTasks), NEW L \in SUBSET Tasks, IsFiniteSet(L),
         \A t \in L : task[t] = "none",
         task' = [t \in Tasks |-> IF t \in L THEN "working" ELSE task[t]]
  PROVE  /\ IsFiniteSet(OpenTasks')
         /\ Cardinality(OpenTasks) \in Nat /\ Cardinality(L) \in Nat
         /\ Cardinality(OpenTasks') = Cardinality(OpenTasks) + Cardinality(L)
PROOF
<1>1. OpenTasks' = OpenTasks \cup L /\ OpenTasks \cap L = {}
  BY DEF OpenTasks
<1>2. Cardinality({}) = 0
  BY FS_EmptySet
<1>3. Cardinality(OpenTasks) \in Nat /\ Cardinality(L) \in Nat
  BY FS_CardinalityType
<1>4. /\ IsFiniteSet(OpenTasks \cup L)
      /\ Cardinality(OpenTasks \cup L)
           = Cardinality(OpenTasks) + Cardinality(L) - Cardinality(OpenTasks \cap L)
  BY FS_Union
<1>5. Cardinality(OpenTasks \cap L) = 0
  BY <1>1, <1>2
<1> QED
  BY <1>1, <1>3, <1>4, <1>5

\* A notification is accepted.
LEMMA ChangesAccept ==
  ASSUME QueueType, changes \in [Docs -> Nat], IsFiniteSet(OpenChanges), NEW d \in Docs,
         DocInv(d), changes' = [changes EXCEPT ![d] = @ + 1], applied' = applied
  PROVE  /\ IsFiniteSet(OpenChanges')
         /\ Cardinality(OpenChanges) \in Nat
         /\ Cardinality(OpenChanges') = Cardinality(OpenChanges) + 1
PROOF
<1> DEFINE p == <<d, changes[d] + 1>>
<1>1. Len(applied[d]) \in Nat /\ Len(applied[d]) <= changes[d] /\ changes[d] \in Nat
  BY LineType DEF DocInv
<1>2. p \notin OpenChanges
  BY <1>1 DEF OpenChanges
<1>3. ASSUME NEW e \in Docs, NEW n \in Nat
      PROVE  <<e, n>> \in OpenChanges' <=> <<e, n>> \in OpenChanges \/ <<e, n>> = p
  <2>1. CASE e = d
    BY <1>1, <2>1 DEF OpenChanges
  <2>2. CASE e # d
    BY <2>2 DEF OpenChanges
  <2> QED
    BY <2>1, <2>2
<1>4. p \in Docs \X Nat /\ OpenChanges \subseteq Docs \X Nat /\ OpenChanges' \subseteq Docs \X Nat
  BY <1>1 DEF OpenChanges
<1> HIDE DEF p
<1>5. OpenChanges' = OpenChanges \cup {p}
  <2>1. \A x \in Docs \X Nat : x = <<x[1], x[2]>> /\ x[1] \in Docs /\ x[2] \in Nat
    OBVIOUS
  <2>2. \A x \in Docs \X Nat : x \in OpenChanges' <=> x \in OpenChanges \/ x = p
    BY <1>3, <2>1
  <2> QED
    BY <1>4, <2>2
<1> QED
  BY <1>2, <1>5, FS_AddElement, FS_CardinalityType

\* A notification is handled.
LEMMA ChangesApply ==
  ASSUME QueueType, changes \in [Docs -> Nat], IsFiniteSet(OpenChanges), NEW d \in Docs,
         Len(applied[d]) < changes[d], changes' = changes,
         Len(applied'[d]) = Len(applied[d]) + 1,
         \A e \in Docs : e # d => applied'[e] = applied[e]
  PROVE  /\ IsFiniteSet(OpenChanges')
         /\ Cardinality(OpenChanges') \in Nat
         /\ Cardinality(OpenChanges) = Cardinality(OpenChanges') + 1
PROOF
<1> DEFINE p == <<d, Len(applied[d]) + 1>>
<1>1. Len(applied[d]) \in Nat /\ changes[d] \in Nat
  BY LineType
<1>2. p \in OpenChanges
  BY <1>1 DEF OpenChanges
<1>3. ASSUME NEW e \in Docs, NEW n \in Nat
      PROVE  <<e, n>> \in OpenChanges' <=> <<e, n>> \in OpenChanges /\ <<e, n>> # p
  <2>1. CASE e = d
    BY <1>1, <2>1 DEF OpenChanges
  <2>2. CASE e # d
    BY <2>2 DEF OpenChanges
  <2> QED
    BY <2>1, <2>2
<1>4. OpenChanges \subseteq Docs \X Nat /\ OpenChanges' \subseteq Docs \X Nat
  BY DEF OpenChanges
<1> HIDE DEF p
<1>5. OpenChanges' = OpenChanges \ {p}
  <2>1. \A x \in Docs \X Nat : x = <<x[1], x[2]>> /\ x[1] \in Docs /\ x[2] \in Nat
    OBVIOUS
  <2>2. \A x \in Docs \X Nat : x \in OpenChanges' <=> x \in OpenChanges /\ x # p
    BY <1>3, <2>1
  <2> QED
    BY <1>4, <2>2
<1>6. Cardinality(OpenChanges) \in Nat
  BY FS_CardinalityType
<1>7. IsFiniteSet(OpenChanges') /\ Cardinality(OpenChanges') = Cardinality(OpenChanges) - 1
  BY <1>2, <1>5, FS_RemoveElement
<1> QED
  BY <1>6, <1>7, FS_CardinalityType

-----------------------------------------------------------------------------
(* The steps.                                                              *)

\* TypeOK without wg, whose type is CountInv's, one conjunct per variable.
FlatType ==
  /\ state \in {"uninitialized", "initialized", "shuttingDown", "exited"}
  /\ serve \in {"loop", "draining", "returned"}
  /\ exitErr \in {"none", "exit0", "exit1"} \cup Ends
  /\ abandoned \in BOOLEAN /\ rootDone \in BOOLEAN
  /\ sessionDone \in BOOLEAN /\ backstop \in BOOLEAN
  /\ phase \in [Reqs -> Phases]
  /\ ctx \in [Reqs -> {"none", "live", "canceled", "expired"}]
  /\ out \in [Reqs -> {"none"} \cup Outcomes]
  /\ resp \in [Reqs -> Nat]
  /\ before \in [Reqs -> Nat]
  /\ cancels \subseteq Reqs /\ barrier \subseteq Reqs
  /\ running \in [Docs -> BOOLEAN]
  /\ changes \in [Docs -> Nat]
  /\ task \in [Tasks -> {"none", "working", "asking", "asked", "done"}]
  /\ pending \subseteq Tasks \ {Watcher} /\ inbox \subseteq Tasks \ {Watcher}
  /\ client \in {"alive", "dead"}
  /\ faults \in 0..load.faults
  /\ proc \in {"running", "exit0", "exit1"}

\* A sum of cardinalities is a number of goroutines.
LEMMA CountNat ==
  /\ CountInv => wg \in Nat
  /\ CountInv' => wg' \in Nat
PROOF
<1>1. \A S : IsFiniteSet(S) => Cardinality(S) \in Nat
  BY FS_CardinalityType
<1> QED
  BY <1>1 DEF CountInv

\* TypeOK from its parts.
LEMMA TypeParts ==
  /\ TypeOK => FlatType
  /\ FlatType /\ CountInv => TypeOK
  /\ FlatType' /\ CountInv' => TypeOK'
PROOF
  BY CountNat DEF TypeOK, FlatType

\* The invariant from its parts.
LEMMA Assemble ==
  ASSUME SessionInv, FlatType', QueueInv', AnswerInv', CountInv', ServeInv',
         UNCHANGED load, discarded' = {}
  PROVE  SessionInv'
PROOF
  BY TypeParts DEF SessionInv

\* What the invariant gives every step, the assumptions on the constants with it.
LEMMA Facts ==
  ASSUME SessionInv
  PROVE  /\ FlatType /\ QueueInv /\ QueueType /\ AnswerInv /\ CountInv
         /\ load \in Loads /\ discarded = {}
         /\ DocOf \in [Reqs -> Docs]
         /\ wg \in Nat
         /\ Alive => serve # "returned"
PROOF
  BY TypeParts, CountNat, RpcConstants DEF SessionInv, QueueInv, ServeInv, Alive

\* A step that moves no request, no change and no task.
LEMMA QuietStep ==
  ASSUME SessionInv, FlatType', QueueInv', ServeInv',
         UNCHANGED <<phase, resp, applied, changes, task, wg, load, discarded>>,
         barrier \subseteq barrier'
  PROVE  SessionInv'
PROOF
<1>1. AnswerInv'
  BY DEF SessionInv, AnswerInv
<1>2. OpenRequests' = OpenRequests /\ OpenChanges' = OpenChanges /\ OpenTasks' = OpenTasks
  BY DEF OpenRequests, OpenChanges, OpenTasks
<1>3. CountInv'
  BY <1>2 DEF SessionInv, CountInv
<1> QED
  BY <1>1, <1>3, Assemble DEF SessionInv

\* Serve has not returned while the process runs.
LEMMA StillServing ==
  ASSUME SessionInv, Alive, serve' = serve \/ serve' = "draining"
  PROVE  ServeInv'
PROOF
  BY Facts DEF ServeInv

\* $/cancelRequest.
LEMMA CancelStep ==
  ASSUME SessionInv, Alive, NEW r \in Reqs, handleCancelRequest(r), Outside
  PROVE  SessionInv'
PROOF
<1>1. FlatType /\ QueueInv
  BY Facts
<1>2. FlatType'
  BY <1>1 DEF FlatType, handleCancelRequest, loopVars, queueVars, taskVars, Outside
<1>3. QueueInv'
  BY <1>1, QueueFrame DEF FlatType, handleCancelRequest, queueVars, KeepsRequests
<1>4. ServeInv'
  BY StillServing DEF handleCancelRequest, loopVars
<1> QED
  BY <1>2, <1>3, <1>4, QuietStep
     DEF handleCancelRequest, loopVars, queueVars, taskVars

\* A request's deadline passes.
LEMMA ExpireStep ==
  ASSUME SessionInv, Alive, NEW r \in Reqs, expire(r), Outside
  PROVE  SessionInv'
PROOF
<1>1. FlatType /\ QueueInv
  BY Facts
<1>2. FlatType'
  BY <1>1 DEF FlatType, expire, loopVars, queueVars, taskVars, Outside
<1>3. QueueInv'
  BY <1>1, QueueFrame DEF FlatType, expire, queueVars, KeepsRequests
<1>4. ServeInv'
  BY StillServing DEF expire, loopVars
<1> QED
  BY <1>2, <1>3, <1>4, QuietStep DEF expire, loopVars, queueVars, taskVars

\* Why reading a frame fails.
LEMMA ReadFrameEnds ==
  ASSUME NEW lines, NEW wholeBody, readFrame(lines, wholeBody) # "body"
  PROVE  readFrame(lines, wholeBody) \in Ends
PROOF
  BY DEF readFrame, Ends

\* The exit notification, and a stream that ends or breaks.
LEMMA LeaveStep ==
  ASSUME SessionInv, Alive, UNCHANGED <<client, backstop, proc>>,
         \/ handleExit /\ faults' = faults
         \/ Fault /\ \E f \in BadFrames : readFails(f.lines, f.whole)
  PROVE  SessionInv'
PROOF
<1>1. FlatType /\ QueueInv /\ load \in Loads
  BY Facts
<1>1a. load.faults \in Nat
  BY <1>1, SessionConstants
<1>2. /\ serve' = "draining" /\ sessionDone' = TRUE
      /\ exitErr' \in {"none", "exit0", "exit1"} \cup Ends
      /\ state' \in {"uninitialized", "initialized", "shuttingDown", "exited"}
      /\ faults' \in 0..load.faults
      /\ UNCHANGED <<abandoned, rootDone, load, wg, requestVars, queueVars, taskVars>>
  <2>1. CASE handleExit /\ faults' = faults
    BY <1>1, <2>1 DEF FlatType, handleExit, leaveLoop
  <2>2. CASE Fault /\ \E f \in BadFrames : readFails(f.lines, f.whole)
    <3>1. PICK f \in BadFrames : readFails(f.lines, f.whole)
      BY <2>2
    <3>2. faults' \in 0..load.faults
      BY <1>1, <1>1a, <2>2 DEF Fault, FlatType
    <3>3. exitErr' \in Ends
      BY <3>1, ReadFrameEnds DEF readFails
    <3> QED
      BY <1>1, <3>1, <3>2, <3>3 DEF FlatType, readFails, leaveLoop
  <2> QED
    BY <2>1, <2>2
<1>3. FlatType'
  BY <1>1, <1>2 DEF FlatType, requestVars, queueVars, taskVars
<1>4. QueueInv'
  BY <1>1, <1>2, QueueFrame DEF FlatType, requestVars, queueVars, KeepsRequests
<1>5. ServeInv'
  BY <1>2, StillServing
<1> QED
  BY <1>2, <1>3, <1>4, <1>5, QuietStep DEF requestVars, queueVars, taskVars

\* The client dies, a signal arrives, or the backstop ends the process.
LEMMA OutsideStep ==
  ASSUME SessionInv, clientDies \/ signal \/ forceExit
  PROVE  SessionInv'
PROOF
<1>1. FlatType /\ QueueInv /\ load \in Loads
  BY Facts
<1>1a. load.faults \in Nat
  BY <1>1, SessionConstants
<1>2. CASE clientDies
  <2>1. FlatType'
    BY <1>1, <1>1a, <1>2 DEF FlatType, clientDies, Fault, rpcVars
  <2>2. QueueInv'
    BY <1>1, <1>2, QueueFrame DEF FlatType, clientDies, rpcVars, KeepsRequests
  <2>3. ServeInv'
    BY <1>2, StillServing DEF clientDies, rpcVars
  <2> QED
    BY <1>2, <2>1, <2>2, <2>3, QuietStep DEF clientDies, rpcVars
<1>3. CASE signal
  <2>1. FlatType'
    BY <1>1, <1>1a, <1>3 DEF FlatType, signal, Fault, queueVars, taskVars
  <2>2. QueueInv'
    BY <1>1, <1>3, QueueFrame DEF FlatType, signal, queueVars, KeepsRequests
  <2>3. ServeInv'
    BY <1>3, StillServing DEF signal
  <2> QED
    BY <1>3, <2>1, <2>2, <2>3, QuietStep DEF signal, queueVars, taskVars
<1>4. CASE forceExit
  <2>1. FlatType'
    BY <1>1, <1>4 DEF FlatType, forceExit, rpcVars
  <2>2. QueueInv'
    BY <1>1, <1>4, QueueFrame DEF FlatType, forceExit, rpcVars, KeepsRequests
  <2>3. ServeInv'
    BY <1>4 DEF SessionInv, ServeInv, forceExit, rpcVars
  <2> QED
    BY <1>4, <2>1, <2>2, <2>3, QuietStep DEF forceExit, rpcVars
<1> QED
  BY <1>2, <1>3, <1>4

\* drain finds nothing left to wait for, or gives up: the process exits.
LEMMA RunStep ==
  ASSUME SessionInv, run \/ runAbandons
  PROVE  SessionInv'
PROOF
<1>1. FlatType /\ QueueInv
  BY Facts
<1>2. /\ serve' = "returned" /\ proc' \in {"exit0", "exit1"}
      /\ UNCHANGED <<state, exitErr, rootDone, sessionDone, load, wg, requestVars, queueVars,
                     taskVars, client, backstop, faults>>
      /\ abandoned' = TRUE \/ (abandoned' = abandoned /\ wg = 0)
  BY DEF run, runAbandons, drain, drainTimeout, ExitCode
<1>3. FlatType'
  BY ZenonT(60), <1>1, <1>2 DEF FlatType, requestVars, queueVars, taskVars
<1>4. QueueInv'
  BY <1>1, <1>2, QueueFrame DEF FlatType, requestVars, queueVars, KeepsRequests
<1>5. ServeInv'
  BY <1>2 DEF ServeInv
<1> QED
  BY <1>2, <1>3, <1>4, <1>5, QuietStep DEF requestVars, queueVars, taskVars

\* drain's own steps, between two functions.
LEMMA DrainStep ==
  ASSUME SessionInv, Alive, NEW d \in Docs, drainPop(d) \/ drainExit(d), Outside
  PROVE  SessionInv'
PROOF
<1>1. FlatType /\ QueueInv
  BY Facts
<1>2. CASE drainPop(d)
  <2>1. FlatType'
    BY <1>1, <1>2 DEF FlatType, drainPop, loopVars, requestVars, taskVars, Outside
  <2>2. QueueInv'
    BY <1>1, <1>2, QueuePop DEF FlatType
  <2>3. ServeInv'
    BY <1>2, StillServing DEF drainPop, loopVars
  <2> QED
    BY <1>2, <2>1, <2>2, <2>3, QuietStep DEF drainPop, loopVars, requestVars, taskVars
<1>3. CASE drainExit(d)
  <2>1. FlatType'
    BY <1>1, <1>3 DEF FlatType, drainExit, loopVars, requestVars, taskVars, Outside
  <2>2. QueueInv'
    BY <1>1, <1>3, QueueFrame DEF FlatType, drainExit, requestVars, KeepsRequests
  <2>3. ServeInv'
    BY <1>3, StillServing DEF drainExit, loopVars
  <2> QED
    BY <1>3, <2>1, <2>2, <2>3, QuietStep DEF drainExit, loopVars, requestVars, taskVars
<1> QED
  BY <1>2, <1>3

\* A response of the client reaches the task that waits for it.
LEMMA ResponseStep ==
  ASSUME SessionInv, Alive, NEW t \in Tasks, dispatchResponse(t), Outside
  PROVE  SessionInv'
PROOF
<1>1. FlatType /\ QueueInv
  BY Facts
<1>2. FlatType'
  BY <1>1 DEF FlatType, dispatchResponse, loopVars, requestVars, queueVars, Outside
<1>3. QueueInv'
  BY <1>1, QueueFrame DEF FlatType, dispatchResponse, requestVars, queueVars, KeepsRequests
<1>4. ServeInv'
  BY StillServing DEF dispatchResponse, loopVars
<1> QED
  BY <1>2, <1>3, <1>4, QuietStep DEF dispatchResponse, loopVars, requestVars, queueVars

\* A request is dispatched: one more to wait for, behind its barrier.
LEMMA RequestStarts ==
  ASSUME SessionInv, Alive, NEW r \in Reqs, dispatchRequest(r), Outside
  PROVE  SessionInv'
PROOF
<1>1. FlatType /\ QueueInv /\ AnswerInv /\ CountInv /\ DocOf \in [Reqs -> Docs] /\ wg \in Nat
      /\ discarded = {}
  BY Facts
<1>2. FlatType'
  BY <1>1 DEF FlatType, Phases, dispatchRequest, push, taskVars, Outside
<1>3. QueueInv'
  BY <1>1, QueueDispatchRequest DEF FlatType
<1>4. AnswerInv'
  BY <1>1 DEF FlatType, AnswerInv, dispatchRequest
<1>5. CountInv'
  <2>1. phase' = [phase EXCEPT ![r] = "spawned"] /\ phase[r] = "unsent"
        /\ wg' = wg + 1 /\ UNCHANGED <<applied, changes, task>>
    BY DEF dispatchRequest, taskVars
  <2>2. OpenChanges' = OpenChanges /\ OpenTasks' = OpenTasks
    BY <2>1 DEF OpenChanges, OpenTasks
  <2>3. /\ IsFiniteSet(OpenRequests')
        /\ Cardinality(OpenRequests) \in Nat
        /\ Cardinality(OpenRequests') \in Nat
        /\ Cardinality(OpenRequests') + One(phase[r] \in InFlight)
             = Cardinality(OpenRequests) + One("spawned" \in InFlight)
    BY <1>1, <2>1, RequestsMove DEF FlatType, CountInv
  <2>4. Cardinality(OpenRequests') = Cardinality(OpenRequests) + 1
    BY <2>1, <2>3 DEF One, InFlight
  <2>5. Cardinality(OpenChanges) \in Nat /\ Cardinality(OpenTasks) \in Nat
    BY <1>1, FS_CardinalityType DEF CountInv
  <2> QED
    BY <1>1, <2>1, <2>2, <2>3, <2>4, <2>5 DEF CountInv
<1>6. ServeInv'
  BY StillServing DEF dispatchRequest
<1> QED
  BY <1>1, <1>2, <1>3, <1>4, <1>5, <1>6, Assemble DEF dispatchRequest

\* A request the lifecycle refuses is answered at once and never counted.
LEMMA RefuseStep ==
  ASSUME SessionInv, Alive, NEW r \in Reqs, refuseRequest(r), Outside
  PROVE  SessionInv'
PROOF
<1>1. FlatType /\ QueueInv /\ AnswerInv /\ CountInv /\ discarded = {}
  BY Facts
<1>2. FlatType'
  BY <1>1 DEF FlatType, Phases, refuseRequest, loopVars, queueVars, taskVars, Outside
<1>3. KeepsRequests
  BY <1>1 DEF FlatType, KeepsRequests, refuseRequest
<1>4. QueueInv'
  BY <1>1, <1>3, QueueFrame DEF FlatType, refuseRequest, queueVars
<1>5. AnswerInv'
  BY <1>1 DEF FlatType, AnswerInv, refuseRequest, queueVars
<1>6. CountInv'
  <2>1. OpenRequests' = OpenRequests
    BY <1>1 DEF FlatType, OpenRequests, InFlight, refuseRequest
  <2>2. OpenChanges' = OpenChanges /\ OpenTasks' = OpenTasks /\ wg' = wg
    BY DEF OpenChanges, OpenTasks, refuseRequest, queueVars, taskVars
  <2> QED
    BY <1>1, <2>1, <2>2 DEF CountInv
<1>7. ServeInv'
  BY StillServing DEF refuseRequest, loopVars
<1> QED
  BY <1>1, <1>2, <1>4, <1>5, <1>6, <1>7, Assemble DEF refuseRequest, loopVars

\* A notification is accepted: one more to wait for.
LEMMA NotificationStep ==
  ASSUME SessionInv, Alive, NEW d \in Docs, dispatchNotification(d), Outside
  PROVE  SessionInv'
PROOF
<1>1. FlatType /\ QueueInv /\ AnswerInv /\ CountInv /\ QueueType /\ wg \in Nat /\ discarded = {}
  BY Facts
<1>2. FlatType'
  BY <1>1 DEF FlatType, dispatchNotification, push, loopVars, requestVars, taskVars, Outside
<1>3. QueueInv'
  BY <1>1, QueueDispatchNotification DEF FlatType
<1>4. AnswerInv'
  BY <1>1 DEF AnswerInv, dispatchNotification, requestVars
<1>5. CountInv'
  <2>1. changes' = [changes EXCEPT ![d] = @ + 1] /\ wg' = wg + 1
        /\ UNCHANGED <<applied, phase, task>>
    BY DEF dispatchNotification, requestVars, taskVars
  <2>2. OpenRequests' = OpenRequests /\ OpenTasks' = OpenTasks
    BY <2>1 DEF OpenRequests, OpenTasks
  <2>3. /\ IsFiniteSet(OpenChanges')
        /\ Cardinality(OpenChanges) \in Nat
        /\ Cardinality(OpenChanges') = Cardinality(OpenChanges) + 1
    BY <1>1, <2>1, ChangesAccept DEF FlatType, CountInv, QueueInv
  <2>4. Cardinality(OpenRequests) \in Nat /\ Cardinality(OpenTasks) \in Nat
    BY <1>1, FS_CardinalityType DEF CountInv
  <2> QED
    BY <1>1, <2>1, <2>2, <2>3, <2>4 DEF CountInv
<1>6. ServeInv'
  BY StillServing DEF dispatchNotification, loopVars
<1> QED
  BY <1>1, <1>2, <1>3, <1>4, <1>5, <1>6, Assemble
     DEF dispatchNotification, loopVars, requestVars

\* A request's goroutine gets its token, or finds its barrier closed.
LEMMA WaitStep ==
  ASSUME SessionInv, Alive, NEW r \in Reqs, poolRun(r) \/ runRequest(r), Outside
  PROVE  SessionInv'
PROOF
<1>1. FlatType /\ QueueInv /\ AnswerInv /\ CountInv /\ discarded = {}
  BY Facts
<1>2. PICK p \in {"waiting", "handler"} :
        /\ phase[r] \in {"spawned", "waiting"}
        /\ phase' = [phase EXCEPT ![r] = p]
        /\ p = "handler" => r \in barrier
  BY DEF poolRun, runRequest
<1>3. UNCHANGED <<loopVars, wg, ctx, out, resp, before, cancels, discarded, queueVars, taskVars>>
  BY DEF poolRun, runRequest
<1>4. FlatType'
  BY <1>1, <1>2, <1>3 DEF FlatType, Phases, loopVars, queueVars, taskVars, Outside
<1>5. KeepsRequests
  BY <1>1, <1>2, <1>3 DEF FlatType, KeepsRequests
<1>6. QueueInv'
  BY <1>1, <1>3, <1>5, QueueFrame DEF FlatType, queueVars
<1>7. AnswerInv'
  BY <1>1, <1>2, <1>3 DEF FlatType, AnswerInv, queueVars
<1>8. CountInv'
  <2>1. OpenRequests' = OpenRequests
    BY <1>1, <1>2 DEF FlatType, OpenRequests, InFlight
  <2>2. OpenChanges' = OpenChanges /\ OpenTasks' = OpenTasks /\ wg' = wg
    BY <1>3 DEF OpenChanges, OpenTasks, queueVars, taskVars
  <2> QED
    BY <1>1, <2>1, <2>2 DEF CountInv
<1>9. ServeInv'
  BY <1>3, StillServing DEF loopVars
<1> QED
  BY <1>1, <1>3, <1>4, <1>6, <1>7, <1>8, <1>9, Assemble DEF loopVars

\* The response is written and the defers run: one less to wait for.
LEMMA RespondStep ==
  ASSUME SessionInv, Alive, NEW r \in Reqs, respond(r), Outside
  PROVE  SessionInv'
PROOF
<1>1. FlatType /\ QueueInv /\ AnswerInv /\ CountInv /\ wg \in Nat /\ discarded = {}
  BY Facts
<1>2. FlatType'
  BY <1>1 DEF FlatType, Phases, respond, loopVars, queueVars, taskVars, Outside
<1>3. KeepsRequests
  BY <1>1 DEF FlatType, KeepsRequests, respond
<1>4. QueueInv'
  BY <1>1, <1>3, QueueFrame DEF FlatType, respond, queueVars
<1>5. AnswerInv'
  BY <1>1 DEF FlatType, AnswerInv, respond, queueVars
<1>6. CountInv'
  <2>1. phase' = [phase EXCEPT ![r] = "done"] /\ phase[r] = "returned" /\ wg' = wg - 1
        /\ UNCHANGED <<applied, changes, task>>
    BY DEF respond, queueVars, taskVars
  <2>2. OpenChanges' = OpenChanges /\ OpenTasks' = OpenTasks
    BY <2>1 DEF OpenChanges, OpenTasks
  <2>3. /\ IsFiniteSet(OpenRequests')
        /\ Cardinality(OpenRequests) \in Nat
        /\ Cardinality(OpenRequests') \in Nat
        /\ Cardinality(OpenRequests') + One(phase[r] \in InFlight)
             = Cardinality(OpenRequests) + One("done" \in InFlight)
    BY <1>1, <2>1, RequestsMove DEF FlatType, CountInv
  <2>4. Cardinality(OpenRequests') + 1 = Cardinality(OpenRequests)
    BY <2>1, <2>3 DEF One, InFlight
  <2>5. Cardinality(OpenChanges) \in Nat /\ Cardinality(OpenTasks) \in Nat
    BY <1>1, FS_CardinalityType DEF CountInv
  <2> QED
    BY <1>1, <2>1, <2>2, <2>3, <2>4, <2>5 DEF CountInv
<1>7. ServeInv'
  BY StillServing DEF respond, loopVars
<1>8. discarded' = {}
  BY <1>1 DEF respond, AnswerTo
<1> QED
  BY <1>2, <1>4, <1>5, <1>6, <1>7, <1>8, Assemble DEF respond, loopVars

\* A handler's tasks are tasks, and finitely many.
LEMMA LaunchFacts ==
  ASSUME SessionInv, NEW x \in Reqs \cup Docs, NEW L \in SUBSET load.launches[x]
  PROVE  L \in SUBSET Tasks /\ IsFiniteSet(L)
PROOF
<1>1. load.launches[x] \in SUBSET Tasks /\ IsFiniteSet(load.launches[x])
  BY Facts, RpcConstants
<1> QED
  BY <1>1, FS_Subset

\* A request handler returns; the tasks it started are counted.
LEMMA HandlerStep ==
  ASSUME SessionInv, Alive, NEW r \in Reqs, handlerReturns(r)
  PROVE  SessionInv'
PROOF
<1>1. FlatType /\ QueueInv /\ AnswerInv /\ CountInv /\ wg \in Nat /\ discarded = {}
  BY Facts
<1>2. PICK o \in Outcomes, L \in SUBSET load.launches[r] : callRequestHandler(r, o, L)
  BY DEF handlerReturns, HandlerReturns
<1>3. L \in SUBSET Tasks /\ IsFiniteSet(L)
  BY LaunchFacts
<1>4. /\ Outside
      /\ UNCHANGED <<loopVars, ctx, resp, before, cancels, discarded, queueVars, pending, inbox>>
  BY <1>2 DEF handlerReturns, callRequestHandler
<1>5. FlatType'
  BY <1>1, <1>2, <1>3, <1>4
     DEF FlatType, Phases, callRequestHandler, loopVars, queueVars, Outside
<1>6. KeepsRequests
  BY <1>1, <1>2 DEF FlatType, KeepsRequests, callRequestHandler
<1>7. QueueInv'
  BY <1>1, <1>4, <1>6, QueueFrame DEF FlatType, queueVars
<1>8. AnswerInv'
  BY <1>1, <1>2, <1>4 DEF FlatType, AnswerInv, callRequestHandler, queueVars
<1>9. CountInv'
  <2>1. OpenRequests' = OpenRequests
    BY <1>1, <1>2 DEF FlatType, OpenRequests, InFlight, callRequestHandler
  <2>2. OpenChanges' = OpenChanges /\ wg' = wg + Cardinality(L)
    BY <1>2, <1>4 DEF OpenChanges, queueVars, callRequestHandler
  <2>3. /\ IsFiniteSet(OpenTasks')
        /\ Cardinality(OpenTasks) \in Nat /\ Cardinality(L) \in Nat
        /\ Cardinality(OpenTasks') = Cardinality(OpenTasks) + Cardinality(L)
    BY <1>1, <1>2, <1>3, TasksStart DEF CountInv, callRequestHandler
  <2>4. Cardinality(OpenRequests) \in Nat /\ Cardinality(OpenChanges) \in Nat
    BY <1>1, FS_CardinalityType DEF CountInv
  <2> QED
    BY <1>1, <2>1, <2>2, <2>3, <2>4 DEF CountInv
<1>10. ServeInv'
  BY <1>4, StillServing DEF loopVars
<1> QED
  BY <1>1, <1>4, <1>5, <1>7, <1>8, <1>9, <1>10, Assemble DEF loopVars

\* drain ran a function: a barrier closes, or a notification handler returns.
LEMMA RanStep ==
  ASSUME SessionInv, Alive, NEW d \in Docs, NEW L \in SUBSET load.launches[d],
         drainRan(d, L), Outside
  PROVE  SessionInv'
PROOF
<1>1. FlatType /\ QueueInv /\ AnswerInv /\ CountInv /\ wg \in Nat /\ discarded = {}
      /\ DocOf \in [Reqs -> Docs] /\ QueueType
  BY Facts
<1>2. L \in SUBSET Tasks /\ IsFiniteSet(L)
  BY LaunchFacts
<1>3. UNCHANGED <<loopVars, requestVars, queue, running, changes, pending, inbox>>
  BY DEF drainRan
<1>4. current[d][1] \in Entry /\ Line(d)[1] = current[d][1] /\ Len(Line(d)) > 0
  BY <1>1, RanShrinks
<1>5. barrier' \subseteq Reqs /\ barrier \subseteq barrier'
  BY <1>1, <1>4 DEF FlatType, drainRan, Entry
<1>6. FlatType'
  BY <1>1, <1>2, <1>3, <1>5 DEF FlatType, drainRan, loopVars, requestVars, Outside
<1>7. QueueInv'
  BY <1>1, QueueRan DEF FlatType
<1>8. AnswerInv'
  BY <1>1, <1>3, <1>5 DEF AnswerInv, requestVars
<1>9. OpenRequests' = OpenRequests
  BY <1>3 DEF OpenRequests, requestVars
<1>10. Cardinality(OpenRequests) \in Nat /\ Cardinality(OpenChanges) \in Nat
  BY <1>1, FS_CardinalityType DEF CountInv
<1>11. /\ IsFiniteSet(OpenTasks')
       /\ Cardinality(OpenTasks) \in Nat /\ Cardinality(L) \in Nat
       /\ Cardinality(OpenTasks') = Cardinality(OpenTasks) + Cardinality(L)
  BY <1>1, <1>2, TasksStart DEF CountInv, drainRan
<1>12. CountInv'
  <2>1. CASE current[d][1].kind = "change"
    <3>1. Len(applied[d]) < changes[d] /\ applied[d] \in Seq(Nat)
      BY <1>1, <1>4, <2>1, SortedHead, LineType DEF QueueInv, DocInv, FlatType
    <3>2. applied' = [applied EXCEPT ![d] = Append(applied[d], current[d][1].n)]
          /\ wg' = wg - 1 + Cardinality(L) /\ current[d][1].n \in Nat
      BY <1>4, <2>1 DEF drainRan, Entry
    <3>3. /\ Len(applied'[d]) = Len(applied[d]) + 1
          /\ \A e \in Docs : e # d => applied'[e] = applied[e]
      BY <1>1, <3>1, <3>2, AppendProperties DEF QueueType
    <3>4. /\ IsFiniteSet(OpenChanges')
          /\ Cardinality(OpenChanges') \in Nat
          /\ Cardinality(OpenChanges) = Cardinality(OpenChanges') + 1
      BY <1>1, <1>3, <3>1, <3>3, ChangesApply DEF FlatType, CountInv
    <3>5. wg = Cardinality(OpenRequests) + Cardinality(OpenChanges) + Cardinality(OpenTasks)
      BY <1>1 DEF CountInv
    <3>6. wg' = Cardinality(OpenRequests) + Cardinality(OpenChanges') + Cardinality(OpenTasks')
      BY SMTT(20), <1>10, <1>11, <3>2, <3>4, <3>5
    <3> QED
      BY <1>1, <1>9, <1>11, <3>4, <3>6 DEF CountInv
  <2>2. CASE current[d][1].kind # "change"
    <3>1. applied' = applied /\ wg' = wg /\ L = {}
      BY <2>2 DEF drainRan
    <3>2. OpenChanges' = OpenChanges /\ Cardinality(L) = 0
      BY <1>3, <3>1, FS_EmptySet DEF OpenChanges
    <3> QED
      BY <1>1, <1>9, <1>10, <1>11, <3>1, <3>2 DEF CountInv
  <2> QED
    BY <2>1, <2>2
<1>13. ServeInv'
  BY <1>3, StillServing DEF loopVars
<1> QED
  BY <1>1, <1>3, <1>6, <1>7, <1>8, <1>12, <1>13, Assemble DEF loopVars, requestVars

\* A task sends a request to the client, its Request returns, or it ends.
LEMMA TaskStep ==
  ASSUME SessionInv, Alive, NEW t \in Tasks,
         \/ t # Watcher /\ Request(t)
         \/ t # Watcher /\ requestReturns(t)
         \/ taskEnds(t),
         Outside
  PROVE  SessionInv'
PROOF
<1>1. FlatType /\ QueueInv /\ AnswerInv /\ CountInv /\ wg \in Nat /\ discarded = {}
  BY Facts
<1>2. UNCHANGED <<loopVars, requestVars, queueVars>>
  BY DEF Request, requestReturns, taskEnds
<1>3. PICK p \in {"asking", "asked", "done"} :
        /\ task[t] \in Busy
        /\ task' = [task EXCEPT ![t] = p]
        /\ wg' = IF p \in Busy THEN wg ELSE wg - 1
  BY DEF Request, requestReturns, taskEnds, Busy
<1>4. pending' \subseteq Tasks \ {Watcher} /\ inbox' \subseteq Tasks \ {Watcher}
  BY <1>1 DEF FlatType, Request, requestReturns, taskEnds
<1>5. FlatType'
  BY <1>1, <1>2, <1>3, <1>4 DEF FlatType, loopVars, requestVars, queueVars, Outside
<1>6. QueueInv'
  BY <1>1, <1>2, QueueFrame DEF FlatType, requestVars, queueVars, KeepsRequests
<1>7. AnswerInv'
  BY <1>1, <1>2 DEF AnswerInv, requestVars, queueVars
<1>8. CountInv'
  <2>1. OpenRequests' = OpenRequests /\ OpenChanges' = OpenChanges
    BY <1>2 DEF OpenRequests, OpenChanges, requestVars, queueVars
  <2>2. /\ IsFiniteSet(OpenTasks')
        /\ Cardinality(OpenTasks) \in Nat
        /\ Cardinality(OpenTasks') \in Nat
        /\ Cardinality(OpenTasks') + 1 = Cardinality(OpenTasks) + One(p \in Busy)
    BY <1>1, <1>3, TasksMove DEF FlatType, CountInv
  <2>3. Cardinality(OpenRequests) \in Nat /\ Cardinality(OpenChanges) \in Nat
    BY <1>1, FS_CardinalityType DEF CountInv
  <2> QED
    BY <1>1, <1>3, <2>1, <2>2, <2>3 DEF CountInv, One
<1>9. ServeInv'
  BY <1>2, StillServing DEF loopVars
<1> QED
  BY <1>1, <1>2, <1>5, <1>6, <1>7, <1>8, <1>9, Assemble DEF loopVars, requestVars

\* The watch finds the client gone: it ends, and with it the read loop.
LEMMA WatchStep ==
  ASSUME SessionInv, watchFindsClientGone
  PROVE  SessionInv'
PROOF
<1>1. FlatType /\ QueueInv /\ AnswerInv /\ CountInv /\ wg \in Nat /\ discarded = {}
      /\ Watcher \in Tasks
  BY Facts, SessionConstants
<1>2. /\ UNCHANGED <<load, requestVars, queueVars, pending, inbox>>
      /\ Alive /\ serve' \in {serve, "draining"}
      /\ task[Watcher] = "working" /\ task' = [task EXCEPT ![Watcher] = "done"] /\ wg' = wg - 1
  BY DEF watchFindsClientGone, leaveLoop
<1>2a. /\ exitErr' \in {"none", "exit0", "exit1"} \cup Ends /\ sessionDone' \in BOOLEAN
       /\ backstop' = TRUE /\ UNCHANGED <<state, abandoned, rootDone, client, proc, faults>>
  BY <1>1 DEF FlatType, watchFindsClientGone, leaveLoop, Ends
<1>3. FlatType'
  BY <1>1, <1>2, <1>2a DEF FlatType, requestVars, queueVars
<1>4. QueueInv'
  BY <1>1, <1>2, QueueFrame DEF FlatType, requestVars, queueVars, KeepsRequests
<1>5. AnswerInv'
  BY <1>1, <1>2 DEF AnswerInv, requestVars, queueVars
<1>6. CountInv'
  <2>1. OpenRequests' = OpenRequests /\ OpenChanges' = OpenChanges
    BY <1>2 DEF OpenRequests, OpenChanges, requestVars, queueVars
  <2>2. /\ IsFiniteSet(OpenTasks')
        /\ Cardinality(OpenTasks) \in Nat
        /\ Cardinality(OpenTasks') \in Nat
        /\ Cardinality(OpenTasks') + 1 = Cardinality(OpenTasks) + One("done" \in Busy)
    BY <1>1, <1>2, TasksMove DEF FlatType, CountInv, Busy
  <2>3. Cardinality(OpenRequests) \in Nat /\ Cardinality(OpenChanges) \in Nat
    BY <1>1, FS_CardinalityType DEF CountInv
  <2> QED
    BY <1>1, <1>2, <2>1, <2>2, <2>3 DEF CountInv, One, Busy
<1>7. ServeInv'
  BY <1>2, StillServing
<1> QED
  BY <1>1, <1>2, <1>3, <1>4, <1>5, <1>6, <1>7, Assemble DEF requestVars

-----------------------------------------------------------------------------
(* The invariant, and what it says.                                        *)

\* The process starts in the invariant.
LEMMA InitInv ==
  SessionInit => SessionInv
PROOF
<1> SUFFICES ASSUME SessionInit PROVE SessionInv
  OBVIOUS
<1> USE DEF SessionInit, Init
<1>1. load.faults \in Nat
  BY SessionConstants
<1>2. FlatType
  <2>1. /\ phase \in [Reqs -> Phases] /\ ctx \in [Reqs -> {"none", "live", "canceled", "expired"}]
        /\ out \in [Reqs -> {"none"} \cup Outcomes]
        /\ resp \in [Reqs -> Nat] /\ before \in [Reqs -> Nat]
        /\ running \in [Docs -> BOOLEAN] /\ changes \in [Docs -> Nat]
        /\ task \in [Tasks -> {"none", "working", "asking", "asked", "done"}]
    BY DEF Phases
  <2>2. faults \in 0..load.faults
    BY <1>1
  <2> QED
    BY <2>1, <2>2 DEF FlatType
<1>3. QueueInv
  <2>1. <<>> \in Seq(Entry) /\ <<>> \in Seq(Nat) /\ Len(<<>>) = 0 /\ DOMAIN (<<>> \o <<>>) = {}
    BY EmptySeq, ConcatEmptySeq
  <2>2. QueueType
    BY <2>1 DEF QueueType
  <2>3. ASSUME NEW d \in Docs PROVE DocInv(d)
    <3>1. Line(d) = <<>> \o <<>> /\ applied[d] = <<>> /\ current[d] = <<>> /\ changes[d] = 0
      BY DEF Line
    <3>2. Sorted(<<>> \o <<>>, 0, 0)
      BY <2>1 DEF Sorted
    <3> QED
      BY <2>1, <3>1, <3>2 DEF DocInv
  <2> QED
    BY <2>2, <2>3 DEF QueueInv, BarrierInv
<1>4. CountInv
  <2>1. OpenRequests = {} /\ OpenTasks = {}
    BY DEF OpenRequests, OpenTasks, InFlight
  <2>2. OpenChanges = {}
    <3>1. Len(<<>>) = 0
      OBVIOUS
    <3>2. ASSUME NEW p \in Docs \X Nat PROVE p \notin OpenChanges
      BY <3>1 DEF OpenChanges
    <3> QED
      BY <3>2 DEF OpenChanges
  <2> QED
    BY <2>1, <2>2, FS_EmptySet DEF CountInv
<1>5. AnswerInv /\ ServeInv
  BY DEF AnswerInv, ServeInv
<1>6. TypeOK
  BY <1>2, <1>4, TypeParts
<1> QED
  BY <1>3, <1>4, <1>5, <1>6 DEF SessionInv

\* The steps of the process, split by what they are about.
LEMMA StepCases ==
  ASSUME SessionNext
  PROVE  \/ \E r \in Reqs : Alive /\ dispatchRequest(r) /\ Outside
         \/ \E r \in Reqs : Alive /\ refuseRequest(r) /\ Outside
         \/ \E r \in Reqs : Alive /\ handleCancelRequest(r) /\ Outside
         \/ \E d \in Docs : Alive /\ dispatchNotification(d) /\ Outside
         \/ \E t \in Tasks : Alive /\ dispatchResponse(t) /\ Outside
         \/ Alive /\ handleExit /\ Outside
         \/ streamEnds
         \/ clientDies \/ signal \/ forceExit
         \/ \E d \in Docs : Alive /\ (drainPop(d) \/ drainExit(d)) /\ Outside
         \/ \E d \in Docs : \E L \in SUBSET load.launches[d] : Alive /\ drainRan(d, L) /\ Outside
         \/ \E r \in Reqs : Alive /\ (poolRun(r) \/ runRequest(r)) /\ Outside
         \/ \E r \in Reqs : Alive /\ respond(r) /\ Outside
         \/ \E r \in Reqs : Alive /\ handlerReturns(r)
         \/ \E r \in Reqs : Alive /\ expire(r) /\ Outside
         \/ \E t \in Tasks : /\ Alive /\ Outside
                             /\ \/ t # Watcher /\ Request(t)
                                \/ t # Watcher /\ requestReturns(t)
                                \/ taskEnds(t)
         \/ watchFindsClientGone
         \/ run \/ runAbandons
PROOF
<1>1. CASE clientSends
  BY <1>1 DEF clientSends, ReadMessage
<1>2. CASE streamEnds \/ clientDies \/ signal \/ watchFindsClientGone \/ run \/ runAbandons
           \/ forceExit
  BY <1>2
<1>3. CASE \E d \in Docs : queueStep(d)
  BY <1>3 DEF queueStep, QueueStep
<1>4. CASE \E r \in Reqs : requestStep(r) \/ handlerReturns(r) \/ deadlinePasses(r)
  BY <1>4 DEF requestStep, RequestStep, handlerReturns, deadlinePasses
<1>5. CASE \E t \in Tasks : taskAsks(t) \/ taskReturns(t)
  BY <1>5 DEF taskAsks, taskReturns
<1>6. CASE watchStops
  BY <1>6, SessionConstants DEF watchStops
<1> QED
  BY <1>1, <1>2, <1>3, <1>4, <1>5, <1>6 DEF SessionNext

\* Every step of the process keeps the invariant.
LEMMA StepInv ==
  SessionInv /\ [SessionNext]_vars => SessionInv'
PROOF
<1> SUFFICES ASSUME SessionInv, [SessionNext]_vars PROVE SessionInv'
  OBVIOUS
<1>1. CASE SessionNext
  <2>1. CASE streamEnds
    BY <2>1, LeaveStep DEF streamEnds
  <2>2. CASE Alive /\ handleExit /\ Outside
    BY <2>2, LeaveStep DEF Outside
  <2> QED
    BY <1>1, <2>1, <2>2, StepCases, RequestStarts, RefuseStep, CancelStep, NotificationStep,
       ResponseStep, OutsideStep, DrainStep, RanStep, WaitStep, RespondStep, HandlerStep,
       ExpireStep, TaskStep, WatchStep, RunStep
<1>2. CASE UNCHANGED vars
  <2> USE <1>2 DEF vars, rpcVars
  <2>1. FlatType /\ QueueInv
    BY Facts
  <2>2. FlatType'
    BY <2>1 DEF FlatType
  <2>3. QueueInv'
    BY <2>1, QueueFrame DEF FlatType, KeepsRequests
  <2>4. ServeInv'
    BY DEF SessionInv, ServeInv
  <2> QED
    BY <2>2, <2>3, <2>4, QuietStep
<1> QED
  BY <1>1, <1>2

\* The inductive invariant of the process: its types, one document's line of functions, one
\* response per request, and what wg counts.
THEOREM SessionSafe == SessionSpec => []SessionInv
PROOF
  BY InitInv, StepInv, PTL DEF SessionSpec, SessionSafety

\* Every variable keeps its type; wg in particular never goes below zero, where sync.WaitGroup
\* would panic.
THEOREM TypeCorrect == SessionSpec => []TypeOK
PROOF
<1>1. SessionInv => TypeOK
  BY DEF SessionInv
<1> QED
  BY <1>1, SessionSafe, PTL

\* A computed result is never replaced by RequestCancelled.
THEOREM FinishedWorkIsDeliveredHolds == SessionSpec => []FinishedWorkIsDelivered
PROOF
<1>1. SessionInv => FinishedWorkIsDelivered
  BY DEF SessionInv, FinishedWorkIsDelivered
<1> QED
  BY <1>1, SessionSafe, PTL

\* When drain has waited for wg no request, notification or task is left.
LEMMA NothingCounted ==
  SessionInv => NothingLeftBehind
PROOF
<1> SUFFICES ASSUME SessionInv, serve = "returned", ~abandoned
             PROVE  /\ \A r \in Reqs : phase[r] \in {"unsent", "done"}
                    /\ \A d \in Docs : Len(applied[d]) = changes[d]
                    /\ \A t \in Tasks : task[t] \in {"none", "done"}
  BY DEF NothingLeftBehind
<1>1. FlatType /\ QueueInv /\ QueueType /\ CountInv
  BY Facts
<1>2. wg = 0
  BY DEF SessionInv, ServeInv
<1>3. /\ Cardinality(OpenRequests) \in Nat /\ Cardinality(OpenChanges) \in Nat
      /\ Cardinality(OpenTasks) \in Nat
  BY <1>1, FS_CardinalityType DEF CountInv
<1>4. /\ Cardinality(OpenRequests) = 0 /\ Cardinality(OpenChanges) = 0
      /\ Cardinality(OpenTasks) = 0
  BY <1>1, <1>2, <1>3 DEF CountInv
<1>5. OpenRequests = {} /\ OpenChanges = {} /\ OpenTasks = {}
  BY <1>1, <1>4, FS_EmptySet DEF CountInv
<1>6. ASSUME NEW r \in Reqs PROVE phase[r] \in {"unsent", "done"}
  BY <1>1, <1>5 DEF OpenRequests, FlatType, Phases, InFlight
<1>7. ASSUME NEW d \in Docs PROVE Len(applied[d]) = changes[d]
  <2>1. Len(applied[d]) \in Nat /\ changes[d] \in Nat /\ Len(applied[d]) <= changes[d]
    BY <1>1, LineType DEF QueueInv, DocInv, FlatType
  <2>2. <<d, changes[d]>> \notin OpenChanges
    BY <1>5
  <2>3. ~(Len(applied[d]) < changes[d])
    BY <2>1, <2>2 DEF OpenChanges
  <2> QED
    BY <2>1, <2>3
<1>8. ASSUME NEW t \in Tasks PROVE task[t] \in {"none", "done"}
  BY <1>1, <1>5 DEF OpenTasks, FlatType
<1> QED
  BY <1>6, <1>7, <1>8

\* Serve returns without having abandoned anything only when everything it accepted is over.
THEOREM NothingLeftBehindHolds == SessionSpec => []NothingLeftBehind
PROOF
  BY NothingCounted, SessionSafe, PTL

-----------------------------------------------------------------------------
(* RpcService, step by step.                                               *)

\* The views of Session's state that RpcService's variables are.
RequestView ==
  [r \in Reqs |-> IF phase[r] = "unsent" THEN "unsent"
                  ELSE IF resp[r] = 0 THEN "open"
                  ELSE IF resp[r] = 1 THEN "answered" ELSE "answered twice"]
AppliedView ==
  [d \in Docs |-> IF applied[d] = [i \in 1..Len(applied[d]) |-> i] THEN Len(applied[d]) ELSE -1]

\* What the client sees of a request, by its phase.
SeenAs(p) == IF p = "unsent" THEN "unsent" ELSE IF p = "done" THEN "answered" ELSE "open"

\* In a state of the invariant the views are simple: changes are applied in order, and a request
\* has one response when it is done and none before.
SimpleViews ==
  /\ RequestView = [r \in Reqs |-> SeenAs(phase[r])]
  /\ AppliedView = [d \in Docs |-> Len(applied[d])]

\* SimpleViews holds wherever the invariant does.
LEMMA Views ==
  SessionInv => SimpleViews
PROOF
<1> SUFFICES ASSUME SessionInv PROVE SimpleViews
  OBVIOUS
<1>1. FlatType /\ QueueInv /\ QueueType /\ AnswerInv
  BY Facts
<1>2. ASSUME NEW d \in Docs
      PROVE  applied[d] = [i \in 1..Len(applied[d]) |-> i]
  <2>1. applied[d] \in Seq(Nat) /\ \A i \in 1..Len(applied[d]) : applied[d][i] = i
    BY <1>1, LineType DEF QueueInv, DocInv
  <2>2. applied[d] = [i \in 1..Len(applied[d]) |-> applied[d][i]]
    BY <2>1, LenProperties
  <2> QED
    BY <2>1, <2>2
<1>3. AppliedView = [d \in Docs |-> Len(applied[d])]
  BY <1>2 DEF AppliedView
<1>4. ASSUME NEW r \in Reqs
      PROVE  RequestView[r] = SeenAs(phase[r])
  <2>1. resp[r] = IF phase[r] = "done" THEN 1 ELSE 0
    BY <1>1 DEF AnswerInv
  <2>2. RequestView[r] = IF phase[r] = "unsent" THEN "unsent"
                         ELSE IF resp[r] = 0 THEN "open"
                         ELSE IF resp[r] = 1 THEN "answered" ELSE "answered twice"
    BY DEF RequestView
  <2>3. CASE phase[r] = "unsent"
    BY <2>2, <2>3 DEF SeenAs
  <2>4. CASE phase[r] = "done"
    BY <2>1, <2>2, <2>4 DEF SeenAs
  <2>5. CASE phase[r] # "unsent" /\ phase[r] # "done"
    BY <2>1, <2>2, <2>5 DEF SeenAs
  <2> QED
    BY <2>3, <2>4, <2>5
<1> QED
  BY <1>3, <1>4 DEF RequestView, SimpleViews

\* The same of the state after a step.
LEMMA ViewsNext ==
  SessionInv' => SimpleViews'
PROOF
  BY Views, PTL

\* A step the client does not see.
LEMMA Unseen ==
  ASSUME SessionInv, SessionInv', \A r \in Reqs : SeenAs(phase'[r]) = SeenAs(phase[r]),
         UNCHANGED <<changes, applied, before>>
  PROVE  UNCHANGED Service!svars
PROOF
<1>1. RequestView' = RequestView /\ AppliedView' = AppliedView
  BY Views, ViewsNext DEF SimpleViews
<1> QED
  BY <1>1 DEF Service!svars, RequestView, AppliedView

\* A request moves on: the client's view of it, and of no other, moves with it.
LEMMA RequestSeen ==
  ASSUME SessionInv, SessionInv', NEW r \in Reqs, NEW p, phase' = [phase EXCEPT ![r] = p]
  PROVE  /\ RequestView[r] = SeenAs(phase[r])
         /\ RequestView' = [RequestView EXCEPT ![r] = SeenAs(p)]
PROOF
<1>1. phase \in [Reqs -> Phases]
  BY Facts DEF FlatType
<1> QED
  BY <1>1, Views, ViewsNext DEF SimpleViews

\* The number of changes applied, as the client sees it.
LEMMA AppliedSeen ==
  ASSUME SessionInv, SessionInv', UNCHANGED applied
  PROVE  AppliedView' = AppliedView
PROOF
  BY Views, ViewsNext DEF SimpleViews

\* dispatchRequest accepts the request.
LEMMA AcceptSeen ==
  ASSUME SessionInv, SessionInv', NEW r \in Reqs, dispatchRequest(r)
  PROVE  Service!Accept(r)
PROOF
<1>1. phase[r] = "unsent" /\ phase' = [phase EXCEPT ![r] = "spawned"]
      /\ before' = [before EXCEPT ![r] = changes[DocOf[r]]] /\ UNCHANGED <<changes, applied>>
  BY DEF dispatchRequest
<1>2. RequestView[r] = "unsent" /\ RequestView' = [RequestView EXCEPT ![r] = "open"]
  <2>1. SeenAs(phase[r]) = "unsent" /\ SeenAs("spawned") = "open"
    BY <1>1 DEF SeenAs
  <2> QED
    BY <1>1, <2>1, RequestSeen
<1>3. AppliedView' = AppliedView
  BY <1>1, AppliedSeen
<1> QED
  BY <1>1, <1>2, <1>3 DEF Service!Accept, Service!Unsent, Service!Open, RequestView, AppliedView

\* refuseRequest answers a request at once.
LEMMA RefuseSeen ==
  ASSUME SessionInv, SessionInv', NEW r \in Reqs, refuseRequest(r)
  PROVE  Service!Refuse(r)
PROOF
<1>1. phase[r] = "unsent" /\ phase' = [phase EXCEPT ![r] = "done"]
      /\ UNCHANGED <<before, changes, applied>>
  BY DEF refuseRequest, queueVars
<1>2. RequestView[r] = "unsent" /\ RequestView' = [RequestView EXCEPT ![r] = "answered"]
  BY <1>1, RequestSeen DEF SeenAs
<1>3. AppliedView' = AppliedView
  BY <1>1, AppliedSeen
<1> QED
  BY <1>1, <1>2, <1>3
     DEF Service!Refuse, Service!Unsent, Service!Answered, RequestView, AppliedView

\* respond answers a request whose document has every change that was accepted before it.
LEMMA AnswerSeen ==
  ASSUME SessionInv, SessionInv', NEW r \in Reqs, respond(r)
  PROVE  Service!Answer(r)
PROOF
<1>1. phase[r] = "returned" /\ phase' = [phase EXCEPT ![r] = "done"]
      /\ UNCHANGED <<before, changes, applied>>
  BY DEF respond, queueVars
<1>2. RequestView[r] = "open" /\ RequestView' = [RequestView EXCEPT ![r] = "answered"]
  BY <1>1, RequestSeen DEF SeenAs
<1>3. AppliedView' = AppliedView
  BY <1>1, AppliedSeen
<1>4. before[r] <= AppliedView[DocOf[r]]
  <2>1. r \in barrier /\ DocOf[r] \in Docs
    BY <1>1, Facts DEF AnswerInv
  <2>2. before[r] <= Len(applied[DocOf[r]])
    BY <2>1, Facts DEF QueueInv, BarrierInv
  <2> QED
    BY <2>1, <2>2, Views DEF SimpleViews
<1> QED
  BY <1>1, <1>2, <1>3, <1>4
     DEF Service!Answer, Service!Open, Service!Answered, RequestView, AppliedView

\* dispatchNotification accepts a change.
LEMMA ChangeSeen ==
  ASSUME SessionInv, SessionInv', NEW d \in Docs, dispatchNotification(d)
  PROVE  Service!Change(d)
PROOF
<1>1. changes' = [changes EXCEPT ![d] = @ + 1] /\ UNCHANGED <<phase, before, applied>>
  BY DEF dispatchNotification, requestVars
<1>2. RequestView' = RequestView
  BY <1>1, Views, ViewsNext DEF SimpleViews
<1>3. AppliedView' = AppliedView
  BY <1>1, AppliedSeen
<1> QED
  BY <1>1, <1>2, <1>3 DEF Service!Change, RequestView, AppliedView

\* drain runs the next change of the document, or a barrier the client does not see.
LEMMA RanSeen ==
  ASSUME SessionInv, SessionInv', NEW d \in Docs, NEW L, drainRan(d, L)
  PROVE  Service!Apply(d) \/ UNCHANGED Service!svars
PROOF
<1>1. FlatType /\ QueueInv /\ QueueType
  BY Facts
<1>2. UNCHANGED <<phase, before, changes>>
  BY DEF drainRan, requestVars
<1>3. current[d][1] \in Entry /\ Line(d)[1] = current[d][1] /\ Len(Line(d)) > 0
  BY <1>1, RanShrinks
<1>4. CASE current[d][1].kind = "change"
  <2>1. applied[d] \in Seq(Nat) /\ Len(applied[d]) \in Nat /\ Len(applied[d]) < changes[d]
    BY <1>1, <1>3, <1>4, SortedHead, LineType DEF QueueInv, DocInv, FlatType
  <2>2. applied' = [applied EXCEPT ![d] = Append(applied[d], current[d][1].n)]
        /\ current[d][1].n \in Nat
    BY <1>3, <1>4 DEF drainRan, Entry
  <2>3. /\ Len(applied'[d]) = Len(applied[d]) + 1
        /\ \A e \in Docs : e # d => applied'[e] = applied[e]
    BY <1>1, <2>1, <2>2, AppendProperties DEF QueueType
  <2>4. RequestView' = RequestView
    BY <1>2, Views, ViewsNext DEF SimpleViews
  <2>5. AppliedView = [e \in Docs |-> Len(applied[e])]
        /\ AppliedView' = [e \in Docs |-> Len(applied'[e])]
    BY Views, ViewsNext DEF SimpleViews
  <2>6. AppliedView' = [AppliedView EXCEPT ![d] = @ + 1]
    BY <2>3, <2>5
  <2>7. AppliedView[d] < changes[d]
    BY <2>1, <2>5
  <2> QED
    BY <1>2, <2>4, <2>6, <2>7 DEF Service!Apply, RequestView, AppliedView
<1>5. CASE current[d][1].kind # "change"
  <2>1. applied' = applied
    BY <1>5 DEF drainRan
  <2> QED
    BY <1>2, <2>1, Unseen
<1> QED
  BY <1>4, <1>5

\* Every step is a step of RpcService, or one the client does not see.
LEMMA StepSeen ==
  SessionInv /\ SessionInv' /\ [SessionNext]_vars => [Service!Next]_(Service!svars)
PROOF
<1> SUFFICES ASSUME SessionInv, SessionInv', [SessionNext]_vars
             PROVE  Service!Next \/ UNCHANGED Service!svars
  OBVIOUS
<1>1. CASE UNCHANGED <<phase, changes, applied, before>>
  BY <1>1, Unseen
<1>2. CASE \E r \in Reqs : dispatchRequest(r) \/ refuseRequest(r) \/ respond(r)
  BY <1>2, AcceptSeen, RefuseSeen, AnswerSeen DEF Service!Next
<1>3. CASE \E d \in Docs : dispatchNotification(d)
  BY <1>3, ChangeSeen DEF Service!Next
<1>4. CASE \E d \in Docs : \E L \in SUBSET load.launches[d] : drainRan(d, L)
  BY <1>4, RanSeen DEF Service!Next
<1>5. CASE \E r \in Reqs : poolRun(r) \/ runRequest(r) \/ handlerReturns(r)
  <2>1. PICK r \in Reqs : poolRun(r) \/ runRequest(r) \/ handlerReturns(r)
    BY <1>5
  <2>2. PICK p \in {"waiting", "handler", "returned"} :
          /\ phase[r] \in {"spawned", "waiting", "handler"}
          /\ phase' = [phase EXCEPT ![r] = p]
          /\ UNCHANGED <<changes, applied, before>>
    BY <2>1 DEF poolRun, runRequest, handlerReturns, HandlerReturns, callRequestHandler, queueVars
  <2>3. phase \in [Reqs -> Phases]
    BY Facts DEF FlatType
  <2>4. \A x \in Reqs : SeenAs(phase'[x]) = SeenAs(phase[x])
    BY <2>2, <2>3 DEF SeenAs
  <2> QED
    BY <2>2, <2>4, Unseen
<1>6. CASE UNCHANGED vars
  BY <1>1, <1>6 DEF vars, rpcVars
<1>7. CASE SessionNext
  <2>1. ASSUME NEW r \in Reqs, handleCancelRequest(r) \/ expire(r)
        PROVE  UNCHANGED <<phase, changes, applied, before>>
    BY <2>1 DEF handleCancelRequest, expire, queueVars
  <2>2. ASSUME NEW t \in Tasks,
               dispatchResponse(t) \/ Request(t) \/ requestReturns(t) \/ taskEnds(t)
        PROVE  UNCHANGED <<phase, changes, applied, before>>
    BY <2>2 DEF dispatchResponse, Request, requestReturns, taskEnds, requestVars, queueVars
  <2>3. ASSUME handleExit \/ streamEnds \/ run \/ runAbandons \/ watchFindsClientGone
        PROVE  UNCHANGED <<phase, changes, applied, before>>
    BY <2>3 DEF handleExit, streamEnds, readFails, run, drain, runAbandons, drainTimeout,
                watchFindsClientGone, requestVars, queueVars
  <2>4. ASSUME clientDies \/ signal \/ forceExit
        PROVE  UNCHANGED <<phase, changes, applied, before>>
    BY <2>4 DEF clientDies, signal, forceExit, rpcVars, queueVars
  <2>5. ASSUME NEW d \in Docs, drainPop(d) \/ drainExit(d)
        PROVE  UNCHANGED <<phase, changes, applied, before>>
    BY <2>5 DEF drainPop, drainExit, requestVars
  <2> QED
    BY <1>1, <1>2, <1>3, <1>4, <1>5, <1>7, <2>1, <2>2, <2>3, <2>4, <2>5, StepCases
<1> QED
  BY <1>6, <1>7

\* The process implements RpcService: the goroutines, queues, pools and contexts of internal/rpc
\* answer each request once, after the changes of its document sent before it, and apply the
\* changes of a document one at a time in the order they were sent.
THEOREM ServiceImplemented == SessionSpec => ImplementsService
PROOF
<1>1. SessionInit => Service!Init
  <2> SUFFICES ASSUME SessionInit PROVE Service!Init
    OBVIOUS
  <2>1. RequestView = [r \in Reqs |-> "unsent"]
    BY DEF SessionInit, Init, RequestView
  <2>2. AppliedView = [d \in Docs |-> 0]
    <3>1. SessionInv
      BY InitInv
    <3>2. \A d \in Docs : Len(applied[d]) = 0
      BY DEF SessionInit, Init
    <3> QED
      BY <3>1, <3>2, Views DEF SimpleViews
  <2> QED
    BY <2>1, <2>2
       DEF SessionInit, Init, Service!Init, Service!Unsent, RequestView, AppliedView
<1> QED
  BY <1>1, StepSeen, SessionSafe, PTL
     DEF SessionSpec, SessionSafety, ImplementsService, Service!Spec
=============================================================================
