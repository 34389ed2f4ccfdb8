-------------------------- MODULE WorkflowRunProofs --------------------------
(***************************************************************************)
(* Proofs about WorkflowRun, for every script, any results, any caps and   *)
(* any number of resumes, faults and crashes.                              *)
(*                                                                         *)
(* WInv says of the process what its slots and its chain of keys are: in   *)
(* every frame the counters agree with the items that hold a slot (SlotsF),*)
(* and every call has a key of its own length (Apart), so that a result    *)
(* put on record is never another call's, and what was seen stays on       *)
(* record (Seen).                                                          *)
(*                                                                         *)
(* PInv adds what the journal looks like where the script asks in one      *)
(* order.  For a sequence of calls it holds one key of each length, each   *)
(* made of the one before it and its value (Straight); for a fan-out every *)
(* key lists the items in order (FanKey), for the items are called in      *)
(* order (Lined).  So a call with no record has no prompt on record.       *)
(***************************************************************************)
EXTENDS WorkflowRun, FiniteSetTheorems, TLAPS

-----------------------------------------------------------------------------
(* Queues without repetition *)

NoDup(q) == \A a, b \in DOMAIN q : q[a] = q[b] => a = b
Elems(q) == {q[a] : a \in DOMAIN q}

\* A waiter that was not in a queue is its last after it enters (semaphore.run).
LEMMA EntersQueue ==
    ASSUME NEW S, NEW q \in Seq(S), NEW x \in S, x \notin Elems(q), NoDup(q)
    PROVE  /\ Append(q, x) \in Seq(S) /\ NoDup(Append(q, x)) /\ Append(q, x) # <<>>
           /\ Elems(Append(q, x)) = Elems(q) \cup {x}
<1> DEFINE r == Append(q, x)
<1>1. r \in Seq(S) /\ Len(r) = Len(q) + 1 /\ DOMAIN r = 1..(Len(q) + 1) /\ Len(q) \in Nat
  OBVIOUS
<1>2. DOMAIN q = 1..Len(q)
  OBVIOUS
<1>3. \A a \in 1..Len(q) : r[a] = q[a]
  OBVIOUS
<1>4. r[Len(q) + 1] = x
  OBVIOUS
<1> HIDE DEF r
<1>5. NoDup(r)
  BY <1>1, <1>2, <1>3, <1>4 DEF NoDup, Elems
<1>6. Elems(r) = Elems(q) \cup {x}
  <2>1. \A y \in Elems(r) : y \in Elems(q) \cup {x}
    BY <1>1, <1>2, <1>3, <1>4 DEF Elems
  <2>2. \A y \in Elems(q) : y \in Elems(r)
    BY <1>1, <1>2, <1>3 DEF Elems
  <2>3. x \in Elems(r)
    BY <1>1, <1>4 DEF Elems
  <2> QED BY <2>1, <2>2, <2>3
<1>7. r # <<>>
  BY <1>1
<1> QED BY <1>1, <1>5, <1>6, <1>7 DEF r

\* The first of a queue leaves it.
LEMMA LeavesQueue ==
    ASSUME NEW S, NEW q \in Seq(S), q # <<>>, NoDup(q)
    PROVE  /\ Tail(q) \in Seq(S) /\ NoDup(Tail(q)) /\ Head(q) \in S
           /\ Elems(Tail(q)) = Elems(q) \ {Head(q)} /\ Head(q) \in Elems(q)
<1> DEFINE r == Tail(q)
<1>1. /\ r \in Seq(S) /\ Len(r) = Len(q) - 1 /\ DOMAIN r = 1..(Len(q) - 1)
      /\ Len(q) \in Nat /\ Len(q) > 0
  OBVIOUS
<1>2. DOMAIN q = 1..Len(q) /\ Head(q) = q[1] /\ Head(q) \in S
  OBVIOUS
<1>3. \A a \in 1..(Len(q) - 1) : r[a] = q[a + 1]
  OBVIOUS
<1> HIDE DEF r
<1>4. NoDup(r)
  <2> SUFFICES ASSUME NEW a \in DOMAIN r, NEW b \in DOMAIN r, r[a] = r[b] PROVE a = b
    BY DEF NoDup
  <2>1. q[a + 1] = q[b + 1] /\ a + 1 \in DOMAIN q /\ b + 1 \in DOMAIN q
    BY <1>1, <1>2, <1>3
  <2>2. a + 1 = b + 1
    BY <2>1 DEF NoDup
  <2> QED BY <2>2, <1>1
<1>5. Elems(r) = Elems(q) \ {Head(q)}
  <2>1. ASSUME NEW y \in Elems(r) PROVE y \in Elems(q) /\ y # Head(q)
    <3>1. PICK a \in DOMAIN r : y = r[a]
      BY DEF Elems
    <3>2. y = q[a + 1] /\ a + 1 \in DOMAIN q /\ a + 1 # 1 /\ 1 \in DOMAIN q
      BY <3>1, <1>1, <1>2, <1>3
    <3>3. y # q[1]
      BY <3>2 DEF NoDup
    <3> QED BY <3>2, <3>3, <1>2 DEF Elems
  <2>2. ASSUME NEW y \in Elems(q), y # Head(q) PROVE y \in Elems(r)
    <3>1. PICK a \in DOMAIN q : y = q[a]
      BY DEF Elems
    <3>2. a # 1
      BY <3>1, <2>2, <1>2
    <3>3. a - 1 \in DOMAIN r /\ (a - 1) + 1 = a
      BY <3>2, <1>1, <1>2
    <3>4. r[a - 1] = q[a]
      BY <3>3, <1>1, <1>3
    <3> QED BY <3>1, <3>3, <3>4 DEF Elems
  <2> QED BY <2>1, <2>2
<1>6. Head(q) \in Elems(q)
  BY <1>1, <1>2 DEF Elems
<1> QED BY <1>1, <1>2, <1>4, <1>5, <1>6 DEF r

-----------------------------------------------------------------------------
(* The slots of a frame, as a relation between what the items do and the counters *)

Item == ItemsOf(script)
PCs == {"asking", "resolving", "queued", "running", "writing", "erring", "ready", "done", "null"}
HoldPC == {"running", "writing", "erring"}
HoldingAt(pc, f) == {i \in Item : Frame(i) = f /\ pc[i] \in HoldPC}
RunningAt(pc, f) == {i \in Item : Frame(i) = f /\ pc[i] = "running"}
QueuedAt(pc, f) == {i \in Item : Frame(i) = f /\ pc[i] = "queued"}

SlotsF(pc, f, a, q, sp) ==
    /\ a = Cardinality(HoldingAt(pc, f)) /\ a <= script.width
    /\ q # <<>> => a = script.width
    /\ q \in Seq(Item) /\ NoDup(q) /\ Elems(q) = QueuedAt(pc, f)
    /\ script.budget > 0 => sp + Cardinality(RunningAt(pc, f)) <= script.budget - 1 + script.width

Sized == script.items \in Nat /\ script.stages \in Nat \ {0}
         /\ script.width \in Nat \ {0} /\ script.budget \in Nat

\* The items of a frame are finitely many.
LEMMA FiniteFrames ==
    ASSUME Sized, NEW pc, NEW f
    PROVE  /\ IsFiniteSet(Item) /\ IsFiniteSet(HoldingAt(pc, f)) /\ IsFiniteSet(RunningAt(pc, f))
           /\ RunningAt(pc, f) \subseteq HoldingAt(pc, f)
           /\ Cardinality(RunningAt(pc, f)) \in Nat /\ Cardinality(HoldingAt(pc, f)) \in Nat
           /\ Cardinality(RunningAt(pc, f)) <= Cardinality(HoldingAt(pc, f))
<1>1. IsFiniteSet(Item)
  <2>1. script.items \in Int
    BY DEF Sized
  <2>2. IsFiniteSet(1..script.items)
    BY <2>1, FS_Interval
  <2> QED BY <2>2 DEF Item, ItemsOf
<1>2. IsFiniteSet(HoldingAt(pc, f)) /\ RunningAt(pc, f) \subseteq HoldingAt(pc, f)
  BY <1>1, FS_Subset DEF HoldingAt, RunningAt, HoldPC
<1>3. IsFiniteSet(RunningAt(pc, f)) /\ Cardinality(RunningAt(pc, f)) <= Cardinality(HoldingAt(pc, f))
  BY <1>2, FS_Subset
<1> QED BY <1>1, <1>2, <1>3, FS_CardinalityType

\* One item goes on to state x.
Moves(pc, new, i, x) ==
    /\ i \in Item /\ pc \in [Item -> PCs] /\ new \in [Item -> PCs]
    /\ new[i] = x /\ \A j \in Item : j # i => new[j] = pc[j]

\* An update of one item moves that item.
LEMMA ExceptMoves ==
    ASSUME NEW pc \in [Item -> PCs], NEW i \in Item, NEW x \in PCs
    PROVE  Moves(pc, [pc EXCEPT ![i] = x], i, x)
BY DEF Moves

\* What one item does next is nothing to the other frames.
LEMMA OtherFrame ==
    ASSUME NEW pc, NEW new, NEW i, NEW x, Moves(pc, new, i, x), NEW f, f # Frame(i)
    PROVE  /\ HoldingAt(new, f) = HoldingAt(pc, f)
           /\ RunningAt(new, f) = RunningAt(pc, f)
           /\ QueuedAt(new, f) = QueuedAt(pc, f)
BY DEF HoldingAt, RunningAt, QueuedAt, Moves

\* In its own frame, the item enters or leaves the sets its state says.
LEMMA OwnFrame ==
    ASSUME NEW pc, NEW new, NEW i, NEW x, Moves(pc, new, i, x)
    PROVE  /\ x \in HoldPC => HoldingAt(new, Frame(i)) = HoldingAt(pc, Frame(i)) \cup {i}
           /\ x \notin HoldPC => HoldingAt(new, Frame(i)) = HoldingAt(pc, Frame(i)) \ {i}
           /\ x # "running" => RunningAt(new, Frame(i)) = RunningAt(pc, Frame(i)) \ {i}
           /\ x = "queued" => QueuedAt(new, Frame(i)) = QueuedAt(pc, Frame(i)) \cup {i}
           /\ x # "queued" => QueuedAt(new, Frame(i)) = QueuedAt(pc, Frame(i)) \ {i}
           /\ i \in HoldingAt(pc, Frame(i)) <=> pc[i] \in HoldPC
           /\ i \in RunningAt(pc, Frame(i)) <=> pc[i] = "running"
           /\ i \in QueuedAt(pc, Frame(i)) <=> pc[i] = "queued"
BY DEF HoldingAt, RunningAt, QueuedAt, Moves

\* One element more or less.
LEMMA OneMoreOrLess ==
    ASSUME NEW T, IsFiniteSet(T), NEW i
    PROVE  /\ Cardinality(T) \in Nat
           /\ i \in T => T \cup {i} = T /\ Cardinality(T \ {i}) = Cardinality(T) - 1
           /\ i \notin T => T \ {i} = T /\ Cardinality(T \cup {i}) = Cardinality(T) + 1
<1>1. Cardinality(T) \in Nat
  BY FS_CardinalityType
<1>2. i \in T => Cardinality(T \ {i}) = Cardinality(T) - 1
  BY FS_RemoveElement
<1>3. i \notin T => Cardinality(T \cup {i}) = Cardinality(T) + 1
  BY FS_AddElement
<1> QED BY <1>1, <1>2, <1>3

\* What the slots of a frame are counted over, when one item of it moves.
LEMMA Counted ==
    ASSUME Sized, NEW pc, NEW new, NEW i, NEW x, Moves(pc, new, i, x), NEW f, f = Frame(i)
    PROVE  /\ x \in HoldPC /\ pc[i] \notin HoldPC =>
                Cardinality(HoldingAt(new, f)) = Cardinality(HoldingAt(pc, f)) + 1
           /\ x \notin HoldPC /\ pc[i] \in HoldPC =>
                Cardinality(HoldingAt(new, f)) = Cardinality(HoldingAt(pc, f)) - 1
           /\ x # "running" /\ pc[i] = "running" =>
                Cardinality(RunningAt(new, f)) = Cardinality(RunningAt(pc, f)) - 1
           /\ x # "running" /\ pc[i] # "running" => RunningAt(new, f) = RunningAt(pc, f)
<1>1. /\ x \in HoldPC => HoldingAt(new, f) = HoldingAt(pc, f) \cup {i}
      /\ x \notin HoldPC => HoldingAt(new, f) = HoldingAt(pc, f) \ {i}
      /\ x # "running" => RunningAt(new, f) = RunningAt(pc, f) \ {i}
      /\ i \in HoldingAt(pc, f) <=> pc[i] \in HoldPC
      /\ i \in RunningAt(pc, f) <=> pc[i] = "running"
  BY OwnFrame
<1>3. IsFiniteSet(HoldingAt(pc, f)) /\ IsFiniteSet(RunningAt(pc, f))
  BY FiniteFrames
<1>4. x \in HoldPC /\ pc[i] \notin HoldPC =>
                Cardinality(HoldingAt(new, f)) = Cardinality(HoldingAt(pc, f)) + 1
  BY <1>1, <1>3, OneMoreOrLess
<1>5. x \notin HoldPC /\ pc[i] \in HoldPC =>
                Cardinality(HoldingAt(new, f)) = Cardinality(HoldingAt(pc, f)) - 1
  BY <1>1, <1>3, OneMoreOrLess
<1>6. x # "running" /\ pc[i] = "running" =>
                Cardinality(RunningAt(new, f)) = Cardinality(RunningAt(pc, f)) - 1
  BY <1>1, <1>3, OneMoreOrLess
<1>7. x # "running" /\ pc[i] # "running" => RunningAt(new, f) = RunningAt(pc, f)
  BY <1>1
<1> QED BY <1>4, <1>5, <1>6, <1>7

\* The relation holds on in the frames the item is not in.
LEMMA SlotsElsewhere ==
    ASSUME NEW pc, NEW new, NEW i, NEW x, Moves(pc, new, i, x), NEW f, f # Frame(i),
           NEW a, NEW q, NEW sp, SlotsF(pc, f, a, q, sp)
    PROVE  SlotsF(new, f, a, q, sp)
<1>1. /\ HoldingAt(new, f) = HoldingAt(pc, f) /\ RunningAt(new, f) = RunningAt(pc, f)
      /\ QueuedAt(new, f) = QueuedAt(pc, f)
  BY OtherFrame
<1> QED BY <1>1 DEF SlotsF

Outside == {"asking", "resolving", "ready", "done", "null"}

\* An item that neither holds a slot nor waits for one may do so.
LEMMA SlotsIdle ==
    ASSUME NEW pc, NEW new, NEW i, NEW x \in Outside, Moves(pc, new, i, x), pc[i] \in Outside,
           NEW a, NEW q, NEW sp, SlotsF(pc, Frame(i), a, q, sp)
    PROVE  SlotsF(new, Frame(i), a, q, sp)
<1>1. /\ HoldingAt(new, Frame(i)) = HoldingAt(pc, Frame(i))
      /\ RunningAt(new, Frame(i)) = RunningAt(pc, Frame(i))
      /\ QueuedAt(new, Frame(i)) = QueuedAt(pc, Frame(i))
  BY DEF HoldingAt, RunningAt, QueuedAt, HoldPC, Outside, Moves
<1> QED BY <1>1 DEF SlotsF

MayStart(sp, x) == x = "erring" \/ (x = "running" /\ (script.budget > 0 => sp < script.budget))

\* A slot is free: the item takes it (concurrency.ts, Semaphore.run; the budget
\* is looked at again once it is held).
LEMMA SlotsStart ==
    ASSUME Sized, NEW pc, NEW new, NEW i, NEW x, Moves(pc, new, i, x), pc[i] \in Outside,
           NEW a \in Nat, NEW q, NEW sp \in Nat, MayStart(sp, x),
           SlotsF(pc, Frame(i), a, q, sp), a < script.width
    PROVE  SlotsF(new, Frame(i), a + 1, q, sp)
<1> DEFINE f == Frame(i)
<1> HIDE DEF f
<1>0. SlotsF(pc, f, a, q, sp) /\ f = Frame(i)
  BY DEF f
<1>1. q = <<>> /\ q \in Seq(Item) /\ NoDup(q) /\ Elems(q) = QueuedAt(pc, f)
  BY <1>0 DEF SlotsF, Sized
<1>2. x \in HoldPC /\ pc[i] \notin HoldPC /\ pc[i] # "running" /\ x # "queued" /\ pc[i] # "queued"
  BY DEF HoldPC, Outside, MayStart
<1>3. Cardinality(HoldingAt(new, f)) = Cardinality(HoldingAt(pc, f)) + 1
      /\ (x # "running" => RunningAt(new, f) = RunningAt(pc, f))
  BY <1>0, <1>2, Counted
<1>4. QueuedAt(new, f) = QueuedAt(pc, f)
  BY <1>0, <1>2, OwnFrame
<1>5. a = Cardinality(HoldingAt(pc, f))
      /\ (script.budget > 0 => sp + Cardinality(RunningAt(pc, f)) <= script.budget - 1 + script.width)
  BY <1>0 DEF SlotsF
<1>6. /\ Cardinality(RunningAt(new, f)) \in Nat
      /\ Cardinality(RunningAt(new, f)) <= Cardinality(HoldingAt(new, f))
  BY FiniteFrames
<1>7. a + 1 = Cardinality(HoldingAt(new, f)) /\ a + 1 <= script.width
  BY <1>3, <1>5 DEF Sized
<1>8. script.budget > 0 => sp + Cardinality(RunningAt(new, f)) <= script.budget - 1 + script.width
  <2>1. CASE x # "running"
    BY <2>1, <1>3, <1>5
  <2>2. CASE script.budget > 0 => sp < script.budget
    BY <2>2, <1>6, <1>7 DEF Sized
  <2> QED BY <2>1, <2>2 DEF MayStart
<1>9. SlotsF(new, f, a + 1, q, sp)
  BY <1>1, <1>4, <1>7, <1>8 DEF SlotsF
<1> QED BY <1>9, <1>0

\* None is: it waits.
LEMMA SlotsWait ==
    ASSUME Sized, NEW pc, NEW new, NEW i, Moves(pc, new, i, "queued"), pc[i] \in Outside,
           NEW a \in Nat, NEW q, NEW sp \in Nat,
           SlotsF(pc, Frame(i), a, q, sp), ~(a < script.width)
    PROVE  SlotsF(new, Frame(i), a, Append(q, i), sp)
<1> DEFINE f == Frame(i)
           q2 == Append(q, i)
<1> HIDE DEF f, q2
<1>0. SlotsF(pc, f, a, q, sp) /\ f = Frame(i) /\ i \in Item /\ pc[i] # "queued"
  BY DEF f, Moves, Outside
<1>1. q \in Seq(Item) /\ NoDup(q) /\ Elems(q) = QueuedAt(pc, f)
  BY <1>0 DEF SlotsF
<1>2. i \notin Elems(q)
  BY <1>0, <1>1, OwnFrame
<1>3. q2 \in Seq(Item) /\ NoDup(q2) /\ q2 # <<>> /\ Elems(q2) = Elems(q) \cup {i}
  BY <1>0, <1>1, <1>2, EntersQueue DEF q2
<1>4. /\ HoldingAt(new, f) = HoldingAt(pc, f) /\ RunningAt(new, f) = RunningAt(pc, f)
      /\ QueuedAt(new, f) = QueuedAt(pc, f) \cup {i}
  BY DEF HoldingAt, RunningAt, QueuedAt, HoldPC, Outside, Moves, f
<1>5. a = script.width
  BY <1>0 DEF SlotsF, Sized
<1>6. SlotsF(new, f, a, q2, sp)
  BY <1>0, <1>1, <1>3, <1>4, <1>5 DEF SlotsF
<1> QED BY <1>6, <1>0 DEF q2

\* A slot is given back and nobody waits.
LEMMA SlotsFree ==
    ASSUME Sized, NEW pc, NEW new, NEW i, NEW x \in Outside, Moves(pc, new, i, x), pc[i] \in HoldPC,
           NEW a \in Nat, NEW q, NEW sp \in Nat,
           SlotsF(pc, Frame(i), a, q, sp), q = <<>>
    PROVE  SlotsF(new, Frame(i), a - 1, q, sp)
<1> DEFINE f == Frame(i)
<1> HIDE DEF f
<1>0. SlotsF(pc, f, a, q, sp) /\ f = Frame(i)
  BY DEF f
<1>1. x \notin HoldPC /\ x # "running" /\ x # "queued" /\ pc[i] # "queued"
  BY DEF HoldPC, Outside
<1>2. /\ Cardinality(HoldingAt(new, f)) = Cardinality(HoldingAt(pc, f)) - 1
      /\ pc[i] = "running" => Cardinality(RunningAt(new, f)) = Cardinality(RunningAt(pc, f)) - 1
      /\ pc[i] # "running" => RunningAt(new, f) = RunningAt(pc, f)
  BY <1>0, <1>1, Counted
<1>3. Cardinality(RunningAt(new, f)) \in Nat /\ Cardinality(RunningAt(pc, f)) \in Nat
      /\ Cardinality(HoldingAt(pc, f)) \in Nat
  BY FiniteFrames
<1>4. Cardinality(RunningAt(new, f)) <= Cardinality(RunningAt(pc, f))
  BY <1>2, <1>3
<1>5. QueuedAt(new, f) = QueuedAt(pc, f)
  <2>1. QueuedAt(new, f) = QueuedAt(pc, f) \ {i} /\ (i \in QueuedAt(pc, f) <=> pc[i] = "queued")
    BY <1>0, <1>1, OwnFrame
  <2> QED BY <2>1, <1>1
<1>6. SlotsF(new, f, a - 1, q, sp)
  BY <1>0, <1>2, <1>3, <1>4, <1>5 DEF SlotsF, Sized
<1> QED BY <1>6, <1>0

\* A slot is given to the first that waits: the count never drops.
LEMMA SlotsHandOver ==
    ASSUME Sized, NEW pc, NEW mid, NEW i, NEW x \in Outside, Moves(pc, mid, i, x), pc[i] \in HoldPC,
           NEW a \in Nat, NEW q, NEW sp \in Nat,
           SlotsF(pc, Frame(i), a, q, sp), q # <<>>,
           NEW y, MayStart(sp, y), NEW new, Moves(mid, new, Head(q), y)
    PROVE  /\ Head(q) \in Item /\ pc[Head(q)] = "queued" /\ Frame(Head(q)) = Frame(i) /\ Head(q) # i
           /\ SlotsF(new, Frame(i), a, Tail(q), sp)
<1> DEFINE f == Frame(i)
           h == Head(q)
           q2 == Tail(q)
<1> HIDE DEF f, h, q2
<1>0. q \in Seq(Item) /\ NoDup(q) /\ Elems(q) = QueuedAt(pc, f) /\ a = script.width
      /\ a = Cardinality(HoldingAt(pc, f)) /\ SlotsF(pc, f, a, q, sp) /\ f = Frame(i)
      /\ Moves(mid, new, h, y)
  BY DEF SlotsF, f, h
<1>1. h \in Item /\ q2 \in Seq(Item) /\ NoDup(q2) /\ Elems(q2) = Elems(q) \ {h} /\ h \in Elems(q)
  BY <1>0, LeavesQueue DEF h, q2
<1>2. pc[h] = "queued" /\ Frame(h) = f /\ h # i
  <2>1. h \in QueuedAt(pc, f)
    BY <1>0, <1>1
  <2> QED BY <2>1 DEF QueuedAt, HoldPC
<1>3. x \notin HoldPC /\ x # "running" /\ x # "queued" /\ pc[i] # "queued"
      /\ y \in HoldPC /\ y # "queued"
  BY DEF HoldPC, Outside, MayStart
<1>4. mid[h] = "queued" /\ mid[h] \notin HoldPC /\ mid[h] # "running"
  BY <1>1, <1>2 DEF HoldPC, Moves
<1>5. /\ Cardinality(HoldingAt(mid, f)) = Cardinality(HoldingAt(pc, f)) - 1
      /\ pc[i] = "running" => Cardinality(RunningAt(mid, f)) = Cardinality(RunningAt(pc, f)) - 1
      /\ pc[i] # "running" => RunningAt(mid, f) = RunningAt(pc, f)
  BY <1>0, <1>3, Counted
<1>6. /\ Cardinality(HoldingAt(new, f)) = Cardinality(HoldingAt(mid, f)) + 1
      /\ y # "running" => RunningAt(new, f) = RunningAt(mid, f)
  BY <1>0, <1>2, <1>3, <1>4, Counted
<1>7. Cardinality(HoldingAt(pc, f)) \in Nat /\ Cardinality(RunningAt(mid, f)) \in Nat
      /\ Cardinality(RunningAt(pc, f)) \in Nat /\ Cardinality(HoldingAt(mid, f)) \in Nat
      /\ Cardinality(RunningAt(new, f)) \in Nat
      /\ Cardinality(RunningAt(new, f)) <= Cardinality(HoldingAt(new, f))
  BY FiniteFrames
<1>8. Cardinality(RunningAt(mid, f)) <= Cardinality(RunningAt(pc, f))
  BY <1>5, <1>7
<1>9. Cardinality(HoldingAt(new, f)) = a
  BY <1>0, <1>5, <1>6, <1>7
<1>10. QueuedAt(new, f) = QueuedAt(pc, f) \ {h}
  <2>1. QueuedAt(mid, f) = QueuedAt(pc, f) \ {i} /\ (i \in QueuedAt(pc, f) <=> pc[i] = "queued")
    BY <1>0, <1>3, OwnFrame
  <2>2. QueuedAt(new, f) = QueuedAt(mid, f) \ {h}
    BY <1>0, <1>2, <1>3, OwnFrame
  <2> QED BY <2>1, <2>2, <1>3
<1>11. script.budget > 0 => sp + Cardinality(RunningAt(pc, f)) <= script.budget - 1 + script.width
  BY <1>0 DEF SlotsF
<1>12. script.budget > 0 => sp + Cardinality(RunningAt(new, f)) <= script.budget - 1 + script.width
  <2>1. CASE y # "running"
    BY <2>1, <1>6, <1>7, <1>8, <1>11 DEF Sized
  <2>2. CASE script.budget > 0 => sp < script.budget
    BY <2>2, <1>0, <1>7, <1>9 DEF Sized
  <2> QED BY <2>1, <2>2 DEF MayStart
<1>13. SlotsF(new, f, a, q2, sp)
  <2>1. a = Cardinality(HoldingAt(new, f)) /\ a <= script.width /\ (q2 # <<>> => a = script.width)
    BY <1>0, <1>9 DEF Sized
  <2>2. Elems(q2) = QueuedAt(new, f)
    BY <1>0, <1>1, <1>10
  <2> QED BY <2>1, <2>2, <1>1, <1>12 DEF SlotsF
<1> QED BY <1>0, <1>1, <1>2, <1>13 DEF h, q2

\* An agent answers and its output is tallied, or it fails: it keeps its slot.
LEMMA SlotsSettle ==
    ASSUME Sized, NEW pc, NEW new, NEW i, NEW x \in {"writing", "erring"}, Moves(pc, new, i, x),
           pc[i] = "running", NEW a, NEW q, NEW sp \in Nat, NEW up \in {0, 1},
           SlotsF(pc, Frame(i), a, q, sp)
    PROVE  SlotsF(new, Frame(i), a, q, sp + up)
<1> DEFINE f == Frame(i)
<1> HIDE DEF f
<1>0. SlotsF(pc, f, a, q, sp) /\ f = Frame(i)
  BY DEF f
<1>1. HoldingAt(new, f) = HoldingAt(pc, f) /\ QueuedAt(new, f) = QueuedAt(pc, f)
  <2>1. x \in HoldPC /\ pc[i] \in HoldPC /\ x # "queued" /\ pc[i] # "queued"
    BY DEF HoldPC
  <2>2. /\ HoldingAt(new, f) = HoldingAt(pc, f) \cup {i} /\ i \in HoldingAt(pc, f)
        /\ QueuedAt(new, f) = QueuedAt(pc, f) \ {i} /\ i \notin QueuedAt(pc, f)
    BY <1>0, <2>1, OwnFrame
  <2> QED BY <2>2
<1>2. Cardinality(RunningAt(new, f)) = Cardinality(RunningAt(pc, f)) - 1
  BY <1>0, Counted
<1>3. Cardinality(RunningAt(pc, f)) \in Nat
  BY FiniteFrames
<1>5. script.budget > 0 => sp + up + Cardinality(RunningAt(new, f)) <= script.budget - 1 + script.width
  BY <1>0, <1>2, <1>3 DEF SlotsF, Sized
<1>6. SlotsF(new, f, a, q, sp + up)
  BY <1>0, <1>1, <1>5 DEF SlotsF
<1> QED BY <1>0, <1>6

\* A child workflow starts its tally anew, when nobody runs in it.
LEMMA SlotsReset ==
    ASSUME Sized, NEW pc, NEW f, NEW a, NEW q, NEW sp,
           SlotsF(pc, f, a, q, sp), RunningAt(pc, f) = {}
    PROVE  SlotsF(pc, f, a, q, 0)
<1>1. Cardinality(RunningAt(pc, f)) = 0
  BY FS_EmptySet
<1> QED BY <1>1 DEF SlotsF, Sized

-----------------------------------------------------------------------------
(* What the hooks do to the state of the process *)

Vals == Results \cup {0}
Prompts == Item \X Nat \X Vals
Keys == Seq(Prompts)

MemType(m) ==
    m \in [pc : [Item -> PCs], stage : [Item -> Nat], value : [Item -> Vals], key : [Item -> Keys],
           ready : Seq(Item), prevKey : Keys, diverged : BOOLEAN, aborted : BOOLEAN,
           active : [Frames -> Int], queue : [Frames -> Seq(Item)],
           spent : [Frames -> Nat], agentCount : [Frames -> 0..AgentCap]]

SlotsAll(m) == \A f \in Frames : SlotsF(m.pc, f, m.active[f], m.queue[f], m.spent[f])

\* What taking and giving back a slot leaves alone.
Kept(m, d) ==
    /\ d.stage = m.stage /\ d.value = m.value /\ d.key = m.key /\ d.ready = m.ready
    /\ d.prevKey = m.prevKey /\ d.diverged = m.diverged /\ d.aborted = m.aborted
    /\ d.spent = m.spent /\ d.agentCount = m.agentCount

\* Every item runs in a frame (the root, or a child of its own).
LEMMA FrameIsFrame ==
    ASSUME Sized, NEW i \in Item
    PROVE  Frame(i) \in Frames
BY DEF Sized, Item, ItemsOf, Frame, Frames, Root

\* The type of a process state, field by field.
LEMMA FieldTypes ==
    ASSUME NEW m, MemType(m)
    PROVE  /\ m.pc \in [Item -> PCs] /\ m.stage \in [Item -> Nat] /\ m.value \in [Item -> Vals]
           /\ m.key \in [Item -> Keys] /\ m.ready \in Seq(Item) /\ m.prevKey \in Keys
           /\ m.diverged \in BOOLEAN /\ m.aborted \in BOOLEAN /\ m.active \in [Frames -> Int]
           /\ m.queue \in [Frames -> Seq(Item)] /\ m.spent \in [Frames -> Nat]
           /\ m.agentCount \in [Frames -> 0..AgentCap] /\ m.agentCount \in [Frames -> Nat]
BY DEF MemType

\* A slot that is taken starts the agent, or refuses it (abort, budget), and the
\* counters stay right (the body semaphore.run wraps, runtime.ts).
LEMMA DispatchIs ==
    ASSUME Sized, NEW m, MemType(m), NEW i \in Item
    PROVE  /\ MemType(dispatch(m, i)) /\ Kept(m, dispatch(m, i))
           /\ dispatch(m, i).active = m.active /\ dispatch(m, i).queue = m.queue
           /\ \E x \in {"running", "erring"} :
                MayStart(m.spent[Frame(i)], x) /\ Moves(m.pc, dispatch(m, i).pc, i, x)
<1> DEFINE x == IF m.aborted \/ budgetExhausted(m, Frame(i)) THEN "erring" ELSE "running"
<1>1. PICK d : d = [m EXCEPT !.pc[i] = x]
  OBVIOUS
<1>2. d = dispatch(m, i)
  BY <1>1 DEF dispatch
<1>3. x \in {"running", "erring"} /\ x \in PCs
  BY DEF PCs
<1>4. MayStart(m.spent[Frame(i)], x)
  <2>1. CASE x = "erring"
    BY <2>1 DEF MayStart
  <2>2. CASE ~(m.aborted \/ budgetExhausted(m, Frame(i)))
    <3>1. script.budget > 0 => ~(m.spent[Frame(i)] >= script.budget)
      BY <2>2 DEF budgetExhausted
    <3>2. m.spent[Frame(i)] \in Nat /\ script.budget \in Nat
      BY FrameIsFrame, FieldTypes DEF Sized
    <3>3. script.budget > 0 => m.spent[Frame(i)] < script.budget
      BY <3>1, <3>2
    <3> QED BY <2>2, <3>3 DEF MayStart
  <2> QED BY <2>1, <2>2
<1> HIDE DEF x
<1>5. MemType(d) /\ Kept(m, d) /\ d.active = m.active /\ d.queue = m.queue
  BY <1>1, <1>3 DEF MemType, Kept
<1>6. d.pc = [m.pc EXCEPT ![i] = x]
  BY <1>1 DEF MemType
<1>7. Moves(m.pc, d.pc, i, x)
  <2>1. m.pc \in [Item -> PCs]
    BY FieldTypes
  <2> QED BY <1>3, <1>6, <2>1 DEF Moves
<1> QED BY <1>2, <1>3, <1>4, <1>5, <1>7

\* The item takes a slot or waits for one; the counters stay right.
LEMMA AcquireIs ==
    ASSUME Sized, NEW m, MemType(m), NEW i \in Item, m.pc[i] \in Outside, SlotsAll(m)
    PROVE  /\ MemType(acquire(m, i)) /\ Kept(m, acquire(m, i)) /\ SlotsAll(acquire(m, i))
           /\ \E x \in {"queued", "running", "erring"} : Moves(m.pc, acquire(m, i).pc, i, x)
<1> DEFINE f == Frame(i)
           a == m.active[f]
           q == m.queue[f]
           sp == m.spent[f]
<1>1. f \in Frames
  BY FrameIsFrame
<1>2. /\ m.pc \in [Item -> PCs] /\ m.active \in [Frames -> Int] /\ m.queue \in [Frames -> Seq(Item)]
      /\ m.spent \in [Frames -> Nat]
  BY FieldTypes
<1>3. SlotsF(m.pc, f, a, q, sp)
  BY <1>1 DEF SlotsAll
<1>4. a \in Nat /\ sp \in Nat /\ q \in Seq(Item)
  <2>1. a = Cardinality(HoldingAt(m.pc, f))
    BY <1>3 DEF SlotsF
  <2>2. Cardinality(HoldingAt(m.pc, f)) \in Nat
    BY FiniteFrames
  <2> QED BY <2>1, <2>2, <1>1, <1>2
<1>5. script.width \in Nat
  BY DEF Sized
<1>6. CASE a >= script.width
  <2>1. PICK d : d = [m EXCEPT !.pc[i] = "queued", !.queue[f] = Append(@, i)]
    OBVIOUS
  <2>2. d = acquire(m, i)
    BY <1>6, <2>1 DEF acquire
  <2>3. "queued" \in PCs
    BY DEF PCs
  <2> DEFINE q2 == Append(q, i)
  <2>4. q2 \in Seq(Item)
    BY <1>4
  <2>5. d = [m EXCEPT !.pc[i] = "queued", !.queue[f] = q2]
    BY <2>1, <1>1 DEF MemType
  <2> HIDE DEF q2
  <2>6. MemType(d) /\ Kept(m, d) /\ d.active = m.active
    BY <2>3, <2>4, <2>5, <1>1 DEF MemType, Kept
  <2>7. d.pc = [m.pc EXCEPT ![i] = "queued"] /\ d.queue = [m.queue EXCEPT ![f] = q2]
    BY <2>5 DEF MemType
  <2>8. Moves(m.pc, d.pc, i, "queued")
    BY <2>3, <2>7, <1>2 DEF Moves
  <2>9. SlotsAll(d)
    <3> SUFFICES ASSUME NEW g \in Frames PROVE SlotsF(d.pc, g, d.active[g], d.queue[g], d.spent[g])
      BY DEF SlotsAll
    <3>1. d.active[g] = m.active[g] /\ d.spent[g] = m.spent[g]
      BY <2>6 DEF Kept
    <3>2. CASE g # f
      <4>1. d.queue[g] = m.queue[g]
        BY <2>7, <3>2, <1>2
      <4>2. SlotsF(m.pc, g, m.active[g], m.queue[g], m.spent[g])
        BY DEF SlotsAll
      <4>3. SlotsF(d.pc, g, m.active[g], m.queue[g], m.spent[g])
        BY <4>2, <3>2, <2>8, SlotsElsewhere
      <4> QED BY <4>1, <4>3, <3>1
    <3>3. CASE g = f
      <4>1. d.queue[f] = q2
        BY <2>7, <1>1, <1>2
      <4>2. SlotsF(d.pc, Frame(i), a, Append(q, i), sp)
        <5>1. ~(a < script.width)
          BY <1>4, <1>5, <1>6
        <5> HIDE DEF a, q, sp
        <5> QED BY <5>1, <1>3, <1>4, <2>8, SlotsWait
      <4> QED BY <4>1, <4>2, <3>1, <3>3 DEF q2
    <3> QED BY <3>2, <3>3
  <2> QED BY <2>2, <2>6, <2>8, <2>9
<1>7. CASE ~(a >= script.width)
  <2>1. PICK e : e = [m EXCEPT !.active[f] = @ + 1]
    OBVIOUS
  <2>2. dispatch(e, i) = acquire(m, i)
    BY <1>7, <2>1 DEF acquire
  <2>3. MemType(e) /\ Kept(m, e) /\ e.pc = m.pc /\ e.queue = m.queue
        /\ e.active = [m.active EXCEPT ![f] = a + 1]
    <3>1. e = [m EXCEPT !.active[f] = a + 1]
      BY <2>1, <1>1 DEF MemType
    <3>2. PICK b \in Int : b = a + 1
      BY <1>4
    <3>3. e = [m EXCEPT !.active[f] = b]
      BY <3>1, <3>2
    <3>4. MemType(e) /\ Kept(m, e) /\ e.pc = m.pc /\ e.queue = m.queue
          /\ e.active = [m.active EXCEPT ![f] = b]
      BY <3>3, <1>1 DEF MemType, Kept
    <3> QED BY <3>2, <3>4
  <2>4. PICK d : d = dispatch(e, i)
    OBVIOUS
  <2>5. /\ MemType(d) /\ Kept(e, d) /\ d.active = e.active /\ d.queue = e.queue
        /\ \E x \in {"running", "erring"} : MayStart(e.spent[f], x) /\ Moves(e.pc, d.pc, i, x)
    BY <2>3, <2>4, DispatchIs
  <2>6. PICK x \in {"running", "erring"} : MayStart(sp, x) /\ Moves(m.pc, d.pc, i, x)
    BY <2>3, <2>5 DEF Kept
  <2>7. Kept(m, d)
    BY <2>3, <2>5 DEF Kept
  <2>8. SlotsAll(d)
    <3> SUFFICES ASSUME NEW g \in Frames PROVE SlotsF(d.pc, g, d.active[g], d.queue[g], d.spent[g])
      BY DEF SlotsAll
    <3>1. d.queue[g] = m.queue[g] /\ d.spent[g] = m.spent[g]
      BY <2>3, <2>5, <2>7 DEF Kept
    <3>2. CASE g # f
      <4>1. d.active[g] = m.active[g]
        BY <2>3, <2>5, <3>2, <1>2
      <4>2. SlotsF(m.pc, g, m.active[g], m.queue[g], m.spent[g])
        BY DEF SlotsAll
      <4>3. SlotsF(d.pc, g, m.active[g], m.queue[g], m.spent[g])
        BY <4>2, <3>2, <2>6, SlotsElsewhere
      <4> QED BY <4>1, <4>3, <3>1
    <3>3. CASE g = f
      <4>1. d.active[f] = a + 1
        BY <2>3, <2>5, <1>1, <1>2
      <4>2. SlotsF(d.pc, Frame(i), a + 1, q, sp)
        <5>1. a < script.width
          BY <1>4, <1>5, <1>7
        <5> HIDE DEF a, q, sp
        <5> QED BY <5>1, <1>3, <1>4, <2>6, SlotsStart
      <4> QED BY <4>1, <4>2, <3>1, <3>3
    <3> QED BY <3>2, <3>3
  <2>9. \E y \in {"queued", "running", "erring"} : Moves(m.pc, d.pc, i, y)
    BY <2>6
  <2> QED BY <2>2, <2>4, <2>5, <2>7, <2>8, <2>9
<1> QED BY <1>6, <1>7

Woken(pc, new) ==
    \A j \in Item : new[j] = pc[j] \/ (pc[j] = "queued" /\ new[j] \in {"running", "erring"})

\* The item gives its slot back, or hands it to the first that waits; the
\* counters stay right.
LEMMA ReleaseIs ==
    ASSUME Sized, NEW m0, MemType(m0), NEW i \in Item, m0.pc[i] \in HoldPC, SlotsAll(m0),
           NEW m, MemType(m), m.active = m0.active, m.queue = m0.queue, m.spent = m0.spent,
           NEW x \in Outside, Moves(m0.pc, m.pc, i, x)
    PROVE  /\ MemType(release(m, i)) /\ Kept(m, release(m, i)) /\ SlotsAll(release(m, i))
           /\ Woken(m.pc, release(m, i).pc)
<1> DEFINE f == Frame(i)
           a == m.active[f]
           q == m.queue[f]
           sp == m.spent[f]
<1>1. f \in Frames
  BY FrameIsFrame
<1>2. /\ m.pc \in [Item -> PCs] /\ m.active \in [Frames -> Int] /\ m.queue \in [Frames -> Seq(Item)]
      /\ m.spent \in [Frames -> Nat]
  BY FieldTypes
<1>3. SlotsF(m0.pc, f, a, q, sp)
  BY <1>1 DEF SlotsAll
<1>4. a \in Nat /\ sp \in Nat /\ q \in Seq(Item) /\ NoDup(q)
  <2>1. a = Cardinality(HoldingAt(m0.pc, f)) /\ NoDup(q)
    BY <1>3 DEF SlotsF
  <2>2. Cardinality(HoldingAt(m0.pc, f)) \in Nat
    BY FiniteFrames
  <2> QED BY <2>1, <2>2, <1>1, <1>2
<1>6. CASE q = <<>>
  <2>1. PICK d : d = [m EXCEPT !.active[f] = @ - 1]
    OBVIOUS
  <2>2. d = release(m, i)
    BY <1>6, <2>1 DEF release
  <2>3. MemType(d) /\ Kept(m, d) /\ d.pc = m.pc /\ d.queue = m.queue
        /\ d.active = [m.active EXCEPT ![f] = a - 1]
    <3>1. d = [m EXCEPT !.active[f] = a - 1]
      BY <2>1, <1>1 DEF MemType
    <3>2. PICK b \in Int : b = a - 1
      BY <1>4
    <3>3. d = [m EXCEPT !.active[f] = b]
      BY <3>1, <3>2
    <3>4. MemType(d) /\ Kept(m, d) /\ d.pc = m.pc /\ d.queue = m.queue
          /\ d.active = [m.active EXCEPT ![f] = b]
      BY <3>3, <1>1 DEF MemType, Kept
    <3> QED BY <3>2, <3>4
  <2>4. SlotsAll(d)
    <3> SUFFICES ASSUME NEW g \in Frames PROVE SlotsF(d.pc, g, d.active[g], d.queue[g], d.spent[g])
      BY DEF SlotsAll
    <3>1. d.queue[g] = m.queue[g] /\ d.spent[g] = m.spent[g]
      BY <2>3 DEF Kept
    <3>2. CASE g # f
      <4>1. d.active[g] = m.active[g]
        BY <2>3, <3>2, <1>2
      <4>2. SlotsF(m0.pc, g, m.active[g], m.queue[g], m.spent[g])
        BY DEF SlotsAll
      <4>3. SlotsF(m.pc, g, m.active[g], m.queue[g], m.spent[g])
        BY <4>2, <3>2, SlotsElsewhere
      <4> QED BY <4>1, <4>3, <3>1, <2>3
    <3>3. CASE g = f
      <4>1. d.active[f] = a - 1
        BY <2>3, <1>1, <1>2
      <4>2. SlotsF(m.pc, Frame(i), a - 1, q, sp)
        <5> HIDE DEF a, q, sp
        <5> QED BY <1>3, <1>4, <1>6, SlotsFree
      <4> QED BY <4>1, <4>2, <3>1, <3>3, <2>3
    <3> QED BY <3>2, <3>3
  <2>5. Woken(m.pc, d.pc)
    BY <2>3 DEF Woken
  <2> QED BY <2>2, <2>3, <2>4, <2>5
<1>7. CASE q # <<>>
  <2>1. PICK e : e = [m EXCEPT !.queue[f] = Tail(@)]
    OBVIOUS
  <2> DEFINE h == Head(q)
             q2 == Tail(q)
  <2>2. dispatch(e, h) = release(m, i)
    BY <1>7, <2>1 DEF release
  <2>3. h \in Item /\ q2 \in Seq(Item)
    BY <1>4, <1>7, LeavesQueue
  <2>4. e = [m EXCEPT !.queue[f] = q2]
    BY <2>1, <1>1 DEF MemType
  <2>5. h \in Item /\ m0.pc[h] = "queued" /\ Frame(h) = f /\ h # i
    <3>1. h \in Elems(q) /\ Elems(q) = QueuedAt(m0.pc, f)
      BY <1>3, <1>4, <1>7, LeavesQueue DEF SlotsF
    <3>2. h \in QueuedAt(m0.pc, f)
      BY <3>1
    <3> QED BY <3>2 DEF QueuedAt, HoldPC
  <2> HIDE DEF h, q2
  <2>6. MemType(e) /\ Kept(m, e) /\ e.pc = m.pc /\ e.active = m.active
        /\ e.queue = [m.queue EXCEPT ![f] = q2]
    BY <2>3, <2>4, <1>1, <1>2 DEF MemType, Kept
  <2>7. PICK d : d = dispatch(e, h)
    OBVIOUS
  <2>8. /\ MemType(d) /\ Kept(e, d) /\ d.active = e.active /\ d.queue = e.queue
        /\ \E y \in {"running", "erring"} : MayStart(e.spent[f], y) /\ Moves(e.pc, d.pc, h, y)
    BY <2>3, <2>5, <2>6, <2>7, DispatchIs
  <2>9. PICK y \in {"running", "erring"} : MayStart(sp, y) /\ Moves(m.pc, d.pc, h, y)
    BY <2>6, <2>8 DEF Kept
  <2>10. Kept(m, d)
    BY <2>6, <2>8 DEF Kept
  <2>11. SlotsAll(d)
    <3> SUFFICES ASSUME NEW g \in Frames PROVE SlotsF(d.pc, g, d.active[g], d.queue[g], d.spent[g])
      BY DEF SlotsAll
    <3>1. d.active[g] = m.active[g] /\ d.spent[g] = m.spent[g]
      BY <2>6, <2>8, <2>10 DEF Kept
    <3>2. CASE g # f
      <4>1. d.queue[g] = m.queue[g]
        BY <2>6, <2>8, <3>2, <1>2
      <4>2. SlotsF(m0.pc, g, m.active[g], m.queue[g], m.spent[g])
        BY DEF SlotsAll
      <4>3. SlotsF(m.pc, g, m.active[g], m.queue[g], m.spent[g])
        BY <4>2, <3>2, SlotsElsewhere
      <4>4. SlotsF(d.pc, g, m.active[g], m.queue[g], m.spent[g])
        BY <4>3, <3>2, <2>5, <2>9, SlotsElsewhere
      <4> QED BY <4>1, <4>4, <3>1
    <3>3. CASE g = f
      <4>1. d.queue[f] = q2
        BY <2>6, <2>8, <1>1, <1>2
      <4>2. SlotsF(d.pc, Frame(i), a, Tail(q), sp)
        <5>1. Moves(m.pc, d.pc, Head(q), y)
          BY <2>9 DEF h
        <5> HIDE DEF a, q, sp
        <5> QED BY <5>1, <2>9, <1>3, <1>4, <1>7, SlotsHandOver
      <4> QED BY <4>1, <4>2, <3>1, <3>3 DEF q2
    <3> QED BY <3>2, <3>3
  <2>12. Woken(m.pc, d.pc)
    <3>1. m.pc[h] = "queued"
      BY <2>5 DEF Moves
    <3> QED BY <3>1, <2>9 DEF Woken, Moves
  <2> QED BY <2>2, <2>7, <2>8, <2>10, <2>11, <2>12
<1> QED BY <1>6, <1>7

\* Nothing is counted when an item goes from one idle state to another.
LEMMA IdleIs ==
    ASSUME NEW m, SlotsAll(m), NEW d, NEW i, NEW x \in Outside, Moves(m.pc, d.pc, i, x),
           m.pc[i] \in Outside, d.active = m.active, d.queue = m.queue, d.spent = m.spent
    PROVE  SlotsAll(d)
<1> SUFFICES ASSUME NEW g \in Frames PROVE SlotsF(d.pc, g, m.active[g], m.queue[g], m.spent[g])
  BY DEF SlotsAll
<1>1. SlotsF(m.pc, g, m.active[g], m.queue[g], m.spent[g])
  BY DEF SlotsAll
<1>2. CASE g # Frame(i)
  BY <1>1, <1>2, SlotsElsewhere
<1>3. CASE g = Frame(i)
  BY <1>1, <1>3, SlotsIdle
<1> QED BY <1>2, <1>3

JournalType == journal \in [DOMAIN journal -> Results] /\ DOMAIN journal \subseteq Keys

NextKey(m, i) == Append(m.prevKey, Prompt(m, i))

\* The three outcomes of agent(): refused, answered from the journal, called.
Refused(m, d, i) ==
    /\ checkCaps(m, Frame(i)) /\ Moves(m.pc, d.pc, i, "null")
    /\ Kept(m, d)
Replayed(m, d, i) ==
    /\ ~checkCaps(m, Frame(i)) /\ ~m.diverged /\ NextKey(m, i) \in DOMAIN journal
    /\ Moves(m.pc, d.pc, i, "ready") /\ d.prevKey = NextKey(m, i)
    /\ d.key = [m.key EXCEPT ![i] = NextKey(m, i)]
    /\ d.value = [m.value EXCEPT ![i] = journal[NextKey(m, i)]] /\ d.ready = Append(m.ready, i)
    /\ d.stage = m.stage /\ d.diverged = m.diverged /\ d.aborted = m.aborted /\ d.spent = m.spent
    /\ d.agentCount = [m.agentCount EXCEPT ![Frame(i)] = m.agentCount[Frame(i)] + 1]
Called(m, d, i) ==
    /\ ~checkCaps(m, Frame(i)) /\ (m.diverged \/ NextKey(m, i) \notin DOMAIN journal)
    /\ \E x \in {"queued", "running", "erring"} : Moves(m.pc, d.pc, i, x)
    /\ d.prevKey = NextKey(m, i) /\ d.key = [m.key EXCEPT ![i] = NextKey(m, i)]
    /\ d.value = m.value /\ d.ready = m.ready
    /\ d.stage = m.stage /\ d.diverged = TRUE /\ d.aborted = m.aborted /\ d.spent = m.spent
    /\ d.agentCount = [m.agentCount EXCEPT ![Frame(i)] = m.agentCount[Frame(i)] + 1]

\* What is asked, and the key it gives, are well-typed.
LEMMA PromptType ==
    ASSUME NEW m, MemType(m), NEW i \in Item
    PROVE  Prompt(m, i) \in Prompts /\ NextKey(m, i) \in Keys
<1>1. m.stage[i] \in Nat /\ m.value[i] \in Vals /\ m.prevKey \in Keys
  BY FieldTypes
<1>2. Prompt(m, i) \in Prompts
  BY <1>1 DEF Prompt, Prompts
<1> QED BY <1>1, <1>2 DEF NextKey, Keys

\* agent() has one of three outcomes, and keeps types and slots (runtime.ts).
LEMMA AgentIs ==
    ASSUME Sized, NEW m, MemType(m), NEW i \in Item, m.pc[i] \in Outside, SlotsAll(m), JournalType
    PROVE  /\ MemType(agent(m, i)) /\ SlotsAll(agent(m, i))
           /\ Refused(m, agent(m, i), i) \/ Replayed(m, agent(m, i), i) \/ Called(m, agent(m, i), i)
<1> DEFINE f == Frame(i)
           key == NextKey(m, i)
           n == IF checkCaps(m, f) THEN 0 ELSE m.agentCount[f] + 1
<1>1. f \in Frames /\ key \in Keys
  BY FrameIsFrame, PromptType
<1>2. /\ m.pc \in [Item -> PCs] /\ m.agentCount \in [Frames -> Nat] /\ m.ready \in Seq(Item)
  BY FieldTypes
<1>3. n \in 0..AgentCap /\ (~checkCaps(m, f) => n = m.agentCount[f] + 1)
  <2>1. m.agentCount[f] \in Nat /\ AgentCap \in Nat
    BY <1>1, <1>2, BoundsAssumption
  <2>2. ~checkCaps(m, f) => m.agentCount[f] < AgentCap
    BY <2>1 DEF checkCaps
  <2> QED BY <2>1, <2>2
<1>4. PICK b : b = [m EXCEPT !.agentCount[f] = @ + 1, !.prevKey = key, !.key[i] = key]
  OBVIOUS
<1>5. PICK c : c = [m EXCEPT !.agentCount[f] = n, !.prevKey = key, !.key[i] = key]
  OBVIOUS
<1>13. ~checkCaps(m, f) => b = c
  BY <1>1, <1>3, <1>4, <1>5 DEF MemType
<1>6. agent(m, i) = IF checkCaps(m, f) THEN drop(m, i)
                    ELSE IF ~m.diverged /\ key \in DOMAIN journal THEN return(c, i, journal[key])
                    ELSE acquire([c EXCEPT !.diverged = TRUE], i)
  <2>1. agent(m, i) = IF checkCaps(m, f) THEN drop(m, i)
                      ELSE IF ~m.diverged /\ key \in DOMAIN journal THEN return(b, i, journal[key])
                      ELSE acquire([b EXCEPT !.diverged = TRUE], i)
    BY <1>4 DEF agent, NextKey
  <2> HIDE DEF n, key
  <2> QED BY <2>1, <1>13
<1> HIDE DEF n, key
<1>7. /\ MemType(c) /\ c.pc = m.pc /\ c.stage = m.stage /\ c.value = m.value /\ c.ready = m.ready
      /\ c.diverged = m.diverged /\ c.aborted = m.aborted /\ c.active = m.active
      /\ c.queue = m.queue /\ c.spent = m.spent
      /\ c.prevKey = key /\ c.key = [m.key EXCEPT ![i] = key]
      /\ c.agentCount = [m.agentCount EXCEPT ![f] = n]
  BY <1>1, <1>3, <1>5 DEF MemType
<1>8. "null" \in PCs /\ "ready" \in PCs /\ "null" \in Outside /\ "ready" \in Outside
  BY DEF PCs, Outside
<1>9. CASE checkCaps(m, f)
  <2>1. PICK d : d = [m EXCEPT !.pc[i] = "null"]
    OBVIOUS
  <2>2. d = agent(m, i)
    BY <1>6, <1>9, <2>1 DEF drop
  <2>3. MemType(d) /\ Kept(m, d) /\ d.active = m.active /\ d.queue = m.queue
    BY <2>1, <1>8 DEF MemType, Kept
  <2>4. d.pc = [m.pc EXCEPT ![i] = "null"]
    BY <2>1 DEF MemType
  <2>5. Moves(m.pc, d.pc, i, "null")
    BY <2>4, <1>2, <1>8 DEF Moves
  <2>6. SlotsAll(d)
    BY <1>8, <2>3, <2>5, IdleIs DEF Kept
  <2> QED BY <1>9, <2>2, <2>3, <2>5, <2>6 DEF Refused
<1>10. CASE ~checkCaps(m, f) /\ ~m.diverged /\ key \in DOMAIN journal
  <2> DEFINE v == journal[key]
             r2 == Append(m.ready, i)
  <2>1. v \in Vals /\ r2 \in Seq(Item)
    BY <1>2, <1>10 DEF JournalType, Vals
  <2>2. PICK d : d = [c EXCEPT !.pc[i] = "ready", !.value[i] = v, !.ready = Append(@, i)]
    OBVIOUS
  <2>3. d = agent(m, i)
    BY <1>6, <1>10, <2>2 DEF return
  <2>4. d = [c EXCEPT !.pc[i] = "ready", !.value[i] = v, !.ready = r2]
    BY <2>2, <1>7 DEF MemType
  <2> HIDE DEF v, r2
  <2>5. MemType(d) /\ d.active = c.active /\ d.queue = c.queue
        /\ d.stage = c.stage /\ d.diverged = c.diverged /\ d.aborted = c.aborted /\ d.spent = c.spent
        /\ d.prevKey = c.prevKey /\ d.key = c.key /\ d.agentCount = c.agentCount
        /\ d.value = [c.value EXCEPT ![i] = v] /\ d.ready = r2
    BY <1>7, <1>8, <2>1, <2>4 DEF MemType
  <2>6. d.pc = [m.pc EXCEPT ![i] = "ready"]
    BY <2>4, <1>7 DEF MemType
  <2>7. Moves(m.pc, d.pc, i, "ready")
    BY <2>6, <1>2, <1>8 DEF Moves
  <2>8. SlotsAll(d)
    BY <1>7, <1>8, <2>5, <2>7, IdleIs
  <2>9. Replayed(m, d, i)
    BY <1>3, <1>7, <1>10, <2>5, <2>7 DEF Replayed, v, r2, key
  <2> QED BY <2>3, <2>5, <2>8, <2>9
<1>11. CASE ~checkCaps(m, f) /\ (m.diverged \/ key \notin DOMAIN journal)
  <2>1. PICK e : e = [c EXCEPT !.diverged = TRUE]
    OBVIOUS
  <2>2. /\ MemType(e) /\ e.pc = c.pc /\ e.stage = c.stage /\ e.value = c.value /\ e.ready = c.ready
        /\ e.diverged = TRUE /\ e.aborted = c.aborted /\ e.active = c.active
        /\ e.queue = c.queue /\ e.spent = c.spent
        /\ e.prevKey = c.prevKey /\ e.key = c.key /\ e.agentCount = c.agentCount
    BY <1>7, <2>1 DEF MemType
  <2>3. PICK d : d = acquire(e, i)
    OBVIOUS
  <2>4. d = agent(m, i)
    <3>1. m.diverged \in BOOLEAN
      BY FieldTypes
    <3> QED BY <1>6, <1>11, <2>1, <2>3, <3>1
  <2>5. SlotsAll(e)
    BY <1>7, <2>2 DEF SlotsAll
  <2>6. /\ MemType(d) /\ Kept(e, d) /\ SlotsAll(d)
        /\ \E x \in {"queued", "running", "erring"} : Moves(m.pc, d.pc, i, x)
    BY <1>7, <2>2, <2>3, <2>5, AcquireIs
  <2>7. Called(m, d, i)
    BY <1>3, <1>7, <1>11, <2>2, <2>6 DEF Called, Kept, key
  <2> QED BY <2>4, <2>6, <2>7
<1>12. m.diverged \in BOOLEAN
  BY FieldTypes
<1> QED BY <1>9, <1>10, <1>11, <1>12

-----------------------------------------------------------------------------
(* What holds between the items, their keys and the journal *)

AskedPC == {"queued", "running", "writing", "erring", "ready", "done"}

\* The chain gives every call a key of its own length, so no two calls share one.
Apart(m) ==
    /\ \A i \in Item : Len(m.key[i]) <= Len(m.prevKey) /\ (m.pc[i] \in AskedPC => m.key[i] # <<>>)
    /\ \A i, j \in Item : i # j /\ m.key[i] # <<>> => Len(m.key[i]) # Len(m.key[j])

Seen(jr, m) ==
    \A i \in Item :
        m.pc[i] \in {"ready", "done"} => m.key[i] \in DOMAIN jr /\ jr[m.key[i]] = m.value[i]

\* A continuation is due once, of an item that waits for nothing.
ReadyOK(m) == NoDup(m.ready) /\ \A i \in Elems(m.ready) : m.pc[i] \in {"asking", "ready"}

\* Nobody asks an agent before a call has missed the journal.
Undiverged(m) ==
    ~m.diverged => \A i \in Item : m.pc[i] \notin {"queued", "running", "writing", "erring"}

Written(m) == \A i \in Item : m.pc[i] = "writing" => m.value[i] \in Results

Core(jr, m) == Apart(m) /\ Seen(jr, m) /\ ReadyOK(m) /\ Undiverged(m) /\ Written(m)

\* Keys are sequences of prompts: their lengths are numbers.
LEMMA KeyLengths ==
    ASSUME NEW m, MemType(m)
    PROVE  /\ \A i \in Item : m.key[i] \in Keys /\ Len(m.key[i]) \in Nat
                              /\ (m.key[i] = <<>> <=> Len(m.key[i]) = 0)
           /\ Len(m.prevKey) \in Nat /\ m.prevKey \in Keys
<1>1. m.prevKey \in Keys /\ \A i \in Item : m.key[i] \in Keys
  BY FieldTypes
<1>2. \A k \in Keys : Len(k) \in Nat /\ (k = <<>> <=> Len(k) = 0)
  BY DEF Keys
<1> QED BY <1>1, <1>2

\* The next call of the chain has a key longer than all the others.
LEMMA ApartGrows ==
    ASSUME NEW m, MemType(m), Apart(m), NEW i \in Item, NEW d, NEW x, Moves(m.pc, d.pc, i, x),
           d.prevKey = NextKey(m, i), d.key = [m.key EXCEPT ![i] = NextKey(m, i)]
    PROVE  Apart(d)
<1> DEFINE k == NextKey(m, i)
<1>1. k \in Keys /\ Len(k) = Len(m.prevKey) + 1 /\ k # <<>> /\ Len(m.prevKey) \in Nat
  <2>1. Prompt(m, i) \in Prompts /\ k \in Keys
    BY PromptType
  <2>2. m.prevKey \in Seq(Prompts)
    BY KeyLengths DEF Keys
  <2>3. Len(k) = Len(m.prevKey) + 1 /\ Len(m.prevKey) \in Nat
    BY <2>1, <2>2 DEF NextKey
  <2>4. k # <<>>
    BY <2>1, <2>2 DEF NextKey
  <2> QED BY <2>1, <2>3, <2>4
<1>2. m.key \in [Item -> Keys] /\ \A j \in Item : Len(m.key[j]) \in Nat
  BY KeyLengths, FieldTypes
<1> HIDE DEF k
<1>3. d.prevKey = k /\ d.key[i] = k /\ \A j \in Item : j # i => d.key[j] = m.key[j]
  BY <1>2 DEF k
<1>4. \A j \in Item : Len(m.key[j]) <= Len(m.prevKey) /\ (m.pc[j] \in AskedPC => m.key[j] # <<>>)
  BY DEF Apart
<1>5. \A j \in Item : Len(d.key[j]) <= Len(d.prevKey)
  BY <1>1, <1>2, <1>3, <1>4
<1>6. \A j \in Item : d.pc[j] \in AskedPC => d.key[j] # <<>>
  BY <1>1, <1>3, <1>4 DEF Moves
<1>7. ASSUME NEW a \in Item, NEW b \in Item, a # b, d.key[a] # <<>>
      PROVE  Len(d.key[a]) # Len(d.key[b])
  <2>1. CASE a = i
    BY <2>1, <1>1, <1>2, <1>3, <1>4, <1>7
  <2>2. CASE b = i
    BY <2>2, <1>1, <1>2, <1>3, <1>4, <1>7
  <2>3. CASE a # i /\ b # i
    BY <2>3, <1>3, <1>7 DEF Apart
  <2> QED BY <2>1, <2>2, <2>3
<1> QED BY <1>5, <1>6, <1>7 DEF Apart

\* The keys stand while no call is made, if no item turns into one that asked.
LEMMA ApartStays ==
    ASSUME NEW m, Apart(m), NEW d, d.key = m.key, d.prevKey = m.prevKey,
           \A j \in Item : d.pc[j] \in AskedPC => m.pc[j] \in AskedPC
    PROVE  Apart(d)
BY DEF Apart

\* agent() keeps what holds between items, keys and journal.
LEMMA AgentCore ==
    ASSUME Sized, NEW m, MemType(m), NEW i \in Item, m.pc[i] \in {"asking", "ready", "resolving"},
           i \notin Elems(m.ready), JournalType, Core(journal, m),
           NEW d, MemType(d), Refused(m, d, i) \/ Replayed(m, d, i) \/ Called(m, d, i)
    PROVE  Core(journal, d)
<1> DEFINE k == NextKey(m, i)
<1>0. /\ m.ready \in Seq(Item) /\ m.key \in [Item -> Keys] /\ m.value \in [Item -> Vals]
      /\ m.diverged \in BOOLEAN
  BY FieldTypes
<1>1. CASE Refused(m, d, i)
  <2>1. Moves(m.pc, d.pc, i, "null") /\ Kept(m, d)
    BY <1>1 DEF Refused
  <2>2. Apart(d)
    <3>1. \A j \in Item : d.pc[j] \in AskedPC => m.pc[j] \in AskedPC
      BY <2>1 DEF Moves, AskedPC
    <3> QED BY <3>1, <2>1, ApartStays DEF Core, Kept
  <2>3. Seen(journal, d)
    BY <2>1 DEF Core, Seen, Moves, Kept
  <2>4. ReadyOK(d)
    <3>1. \A j \in Elems(m.ready) : j \in Item /\ j # i
      BY <1>0 DEF Elems
    <3> QED BY <3>1, <2>1 DEF Core, ReadyOK, Moves, Kept
  <2>5. Undiverged(d)
    BY <2>1 DEF Core, Undiverged, Moves, Kept
  <2>6. Written(d)
    BY <2>1 DEF Core, Written, Moves, Kept
  <2> QED BY <2>2, <2>3, <2>4, <2>5, <2>6 DEF Core
<1>2. CASE Replayed(m, d, i)
  <2>1. /\ ~m.diverged /\ k \in DOMAIN journal /\ Moves(m.pc, d.pc, i, "ready")
        /\ d.prevKey = k /\ d.key = [m.key EXCEPT ![i] = k]
        /\ d.value = [m.value EXCEPT ![i] = journal[k]] /\ d.ready = Append(m.ready, i)
        /\ d.diverged = m.diverged
    BY <1>2 DEF Replayed
  <2>2. Apart(d)
    BY <2>1, ApartGrows DEF Core
  <2> HIDE DEF k
  <2>3. Seen(journal, d)
    <3> SUFFICES ASSUME NEW j \in Item, d.pc[j] \in {"ready", "done"}
                 PROVE  d.key[j] \in DOMAIN journal /\ journal[d.key[j]] = d.value[j]
      BY DEF Seen
    <3>1. CASE j = i
      BY <3>1, <2>1, <1>0
    <3>2. CASE j # i
      BY <3>2, <2>1, <1>0 DEF Core, Seen, Moves
    <3> QED BY <3>1, <3>2
  <2>4. ReadyOK(d)
    <3>1. NoDup(d.ready) /\ Elems(d.ready) = Elems(m.ready) \cup {i}
      BY <1>0, <2>1, EntersQueue DEF Core, ReadyOK
    <3>2. \A j \in Elems(m.ready) : j \in Item
      BY <1>0 DEF Elems
    <3>3. \A j \in Elems(d.ready) : d.pc[j] \in {"asking", "ready"}
      BY <3>1, <3>2, <2>1 DEF Core, ReadyOK, Moves
    <3> QED BY <3>1, <3>3 DEF ReadyOK
  <2>5. Undiverged(d)
    BY <2>1 DEF Core, Undiverged, Moves
  <2>6. Written(d)
    BY <2>1, <1>0 DEF Core, Written, Moves
  <2> QED BY <2>2, <2>3, <2>4, <2>5, <2>6 DEF Core
<1>3. CASE Called(m, d, i)
  <2>1. PICK x \in {"queued", "running", "erring"} : Moves(m.pc, d.pc, i, x)
    BY <1>3 DEF Called
  <2>2. /\ d.prevKey = k /\ d.key = [m.key EXCEPT ![i] = k] /\ d.value = m.value /\ d.ready = m.ready
        /\ d.diverged = TRUE
    BY <1>3 DEF Called
  <2>3. Apart(d)
    BY <2>1, <2>2, ApartGrows DEF Core
  <2> HIDE DEF k
  <2>4. Seen(journal, d)
    <3> SUFFICES ASSUME NEW j \in Item, d.pc[j] \in {"ready", "done"}
                 PROVE  d.key[j] \in DOMAIN journal /\ journal[d.key[j]] = d.value[j]
      BY DEF Seen
    <3>1. j # i
      BY <2>1 DEF Moves
    <3> QED BY <3>1, <2>1, <2>2, <1>0 DEF Core, Seen, Moves
  <2>5. ReadyOK(d)
    <3>1. \A j \in Elems(m.ready) : j \in Item /\ j # i
      BY <1>0 DEF Elems
    <3> QED BY <3>1, <2>1, <2>2 DEF Core, ReadyOK, Moves
  <2>6. Undiverged(d)
    BY <2>2 DEF Undiverged
  <2>7. Written(d)
    BY <2>1, <2>2 DEF Core, Written, Moves
  <2> QED BY <2>3, <2>4, <2>5, <2>6, <2>7 DEF Core
<1> QED BY <1>1, <1>2, <1>3

\* So does handing a slot on.
LEMMA ReleaseCore ==
    ASSUME NEW jr, NEW m, Core(jr, m), NEW d, Kept(m, d), Woken(m.pc, d.pc), m.ready \in Seq(Item)
    PROVE  Core(jr, d)
<1>1. \A j \in Item : \/ d.pc[j] = m.pc[j]
                      \/ m.pc[j] = "queued" /\ d.pc[j] \in {"running", "erring"}
  BY DEF Woken
<1>2. Apart(d)
  <2>1. \A j \in Item : d.pc[j] \in AskedPC => m.pc[j] \in AskedPC
    BY <1>1 DEF AskedPC
  <2> QED BY <2>1, ApartStays DEF Core, Kept
<1>3. Seen(jr, d)
  BY <1>1 DEF Core, Seen, Kept
<1>4. ReadyOK(d)
  <2>1. \A j \in Elems(m.ready) : j \in Item
    BY DEF Elems
  <2> QED BY <1>1, <2>1 DEF Core, ReadyOK, Kept
<1>5. Undiverged(d)
  BY <1>1 DEF Core, Undiverged, Kept
<1>6. Written(d)
  BY <1>1 DEF Core, Written, Kept
<1> QED BY <1>2, <1>3, <1>4, <1>5, <1>6 DEF Core

\* What an item starts from.
Begin(m) ==
    \A i \in Item : m.pc[i] = "asking" => m.stage[i] = 0 /\ m.value[i] = 0 /\ m.key[i] = <<>>

Good(jr, m) == MemType(m) /\ SlotsAll(m) /\ Core(jr, m) /\ Begin(m)

FreshOf(m, r) == (m = Fresh(script) /\ r = <<>>) \/ m = [Fresh(script) EXCEPT !.ready = r]

\* A run starts well, and so does a process nobody runs in.
LEMMA StartsGood ==
    ASSUME Sized, NEW jr, NEW m, NEW r, r \in Seq(Item), NoDup(r), FreshOf(m, r)
    PROVE  Good(jr, m)
<1>1. /\ "asking" \in PCs /\ 0 \in Vals /\ <<>> \in Keys /\ <<>> \in Seq(Item) /\ 0 \in Nat /\ 0 \in Int
      /\ FALSE \in BOOLEAN /\ 0 \in 0..AgentCap
  BY BoundsAssumption DEF PCs, Vals, Keys
<1>2. ItemsOf(script) = Item /\ 0..script.items = Frames
  BY DEF Item, Frames
<1>3. m = [pc |-> [i \in Item |-> "asking"], stage |-> [i \in Item |-> 0],
           value |-> [i \in Item |-> 0], key |-> [i \in Item |-> <<>>],
           ready |-> r, prevKey |-> <<>>, diverged |-> FALSE, aborted |-> FALSE,
           active |-> [f \in Frames |-> 0], queue |-> [f \in Frames |-> <<>>],
           spent |-> [f \in Frames |-> 0], agentCount |-> [f \in Frames |-> 0]]
  <2>1. CASE m = Fresh(script) /\ r = <<>>
    BY <1>2, <2>1 DEF Fresh
  <2>2. CASE m = [Fresh(script) EXCEPT !.ready = r]
    BY <1>2, <2>2 DEF Fresh
  <2> QED BY <2>1, <2>2 DEF FreshOf
<1>4. MemType(m)
  BY <1>1, <1>3 DEF MemType
<1>5. /\ \A i \in Item : m.pc[i] = "asking" /\ m.stage[i] = 0 /\ m.value[i] = 0 /\ m.key[i] = <<>>
      /\ m.ready = r /\ m.prevKey = <<>> /\ ~m.diverged
      /\ \A f \in Frames : m.active[f] = 0 /\ m.queue[f] = <<>> /\ m.spent[f] = 0
  BY <1>3
<1>6. SlotsAll(m)
  <2> SUFFICES ASSUME NEW f \in Frames PROVE SlotsF(m.pc, f, 0, <<>>, 0)
    BY <1>5 DEF SlotsAll
  <2>1. HoldingAt(m.pc, f) = {} /\ RunningAt(m.pc, f) = {} /\ QueuedAt(m.pc, f) = {}
    BY <1>5 DEF HoldingAt, RunningAt, QueuedAt, HoldPC
  <2>2. Cardinality(HoldingAt(m.pc, f)) = 0 /\ Cardinality(RunningAt(m.pc, f)) = 0
    BY <2>1, FS_EmptySet
  <2>3. Elems(<<>>) = {} /\ NoDup(<<>>)
    BY DEF Elems, NoDup
  <2> QED BY <1>1, <2>1, <2>2, <2>3 DEF SlotsF, Sized
<1>7. Core(jr, m)
  <2>1. Apart(m)
    BY <1>5 DEF Apart, AskedPC
  <2>2. Seen(jr, m) /\ Undiverged(m) /\ Written(m)
    BY <1>5 DEF Seen, Undiverged, Written
  <2>3. ReadyOK(m)
    BY <1>5 DEF ReadyOK, Elems
  <2> QED BY <2>1, <2>2, <2>3 DEF Core
<1>8. Begin(m)
  BY <1>5 DEF Begin
<1> QED BY <1>4, <1>6, <1>7, <1>8 DEF Good

\* agent() leads from a good state to a good one, also for an item at work in
\* its first stage.
LEMMA AgentGood ==
    ASSUME Sized, JournalType, NEW m, MemType(m), SlotsAll(m), Core(journal, m), NEW i \in Item,
           m.pc[i] \in {"asking", "ready", "resolving"}, i \notin Elems(m.ready),
           \A j \in Item : j # i /\ m.pc[j] = "asking" =>
                m.stage[j] = 0 /\ m.value[j] = 0 /\ m.key[j] = <<>>
    PROVE  Good(journal, agent(m, i))
<1>1. m.pc[i] \in Outside
  BY DEF Outside
<1>2. PICK d : d = agent(m, i)
  OBVIOUS
<1>3. MemType(d) /\ SlotsAll(d) /\ (Refused(m, d, i) \/ Replayed(m, d, i) \/ Called(m, d, i))
  BY <1>1, <1>2, AgentIs
<1>4. Core(journal, d)
  BY <1>3, AgentCore
<1>5. Begin(d)
  <2>1. d.pc[i] # "asking" /\ d.stage = m.stage
        /\ \A j \in Item : j # i => d.pc[j] = m.pc[j] /\ d.value[j] = m.value[j] /\ d.key[j] = m.key[j]
    <3>1. m.value \in [Item -> Vals] /\ m.key \in [Item -> Keys]
      BY FieldTypes
    <3>2. CASE Refused(m, d, i)
      BY <3>1, <3>2 DEF Refused, Moves, Kept
    <3>3. CASE Replayed(m, d, i)
      BY <3>1, <3>3 DEF Replayed, Moves
    <3>4. CASE Called(m, d, i)
      BY <3>1, <3>4 DEF Called, Moves
    <3> QED BY <3>2, <3>3, <3>4, <1>3
  <2> QED BY <2>1 DEF Begin
<1> QED BY <1>2, <1>3, <1>4, <1>5 DEF Good

\* The same for any step of an item that takes no call: drop, workflow(), done.
LEMMA IdleGood ==
    ASSUME Sized, NEW jr, NEW m, MemType(m), SlotsAll(m), Core(jr, m), NEW i \in Item,
           m.pc[i] \in {"asking", "ready", "resolving"}, i \notin Elems(m.ready),
           \A j \in Item : j # i /\ m.pc[j] = "asking" =>
                m.stage[j] = 0 /\ m.value[j] = 0 /\ m.key[j] = <<>>,
           NEW x \in {"null", "resolving", "done"}, x = "done" => m.pc[i] = "ready",
           NEW d, d = [m EXCEPT !.pc[i] = x]
    PROVE  Good(jr, d)
<1>1. x \in PCs /\ x \in Outside /\ m.pc[i] \in Outside
  BY DEF PCs, Outside
<1>2. MemType(d) /\ Kept(m, d) /\ d.active = m.active /\ d.queue = m.queue
  BY <1>1 DEF MemType, Kept
<1>3. d.pc = [m.pc EXCEPT ![i] = x] /\ m.pc \in [Item -> PCs]
  BY DEF MemType
<1>4. Moves(m.pc, d.pc, i, x)
  BY <1>1, <1>3 DEF Moves
<1>5. SlotsAll(d)
  BY <1>1, <1>2, <1>4, IdleIs DEF Kept
<1>6. d.pc[i] = x /\ \A j \in Item : j # i => d.pc[j] = m.pc[j]
  BY <1>4 DEF Moves
<1>7. Core(jr, d)
  <2>1. Apart(d)
    <3>1. \A j \in Item : d.pc[j] \in AskedPC => m.pc[j] \in AskedPC
      BY <1>6 DEF AskedPC
    <3> QED BY <3>1, <1>2, ApartStays DEF Core, Kept
  <2>2. Seen(jr, d)
    BY <1>2, <1>6 DEF Core, Seen, Kept
  <2>3. ReadyOK(d)
    <3>1. \A j \in Elems(m.ready) : j \in Item /\ j # i
      BY DEF Elems, MemType
    <3> QED BY <3>1, <1>2, <1>6 DEF Core, ReadyOK, Kept
  <2>4. Undiverged(d)
    BY <1>2, <1>6 DEF Core, Undiverged, Kept
  <2>5. Written(d)
    BY <1>2, <1>6 DEF Core, Written, Kept
  <2> QED BY <2>1, <2>2, <2>3, <2>4, <2>5 DEF Core
<1>8. Begin(d)
  BY <1>2, <1>6 DEF Begin, Kept
<1> QED BY <1>2, <1>5, <1>7, <1>8 DEF Good

\* An item that held a slot ends its call, and gives the slot back.
LEMMA ReleaseGood ==
    ASSUME Sized, NEW jr, NEW m0, MemType(m0), SlotsAll(m0), NEW i \in Item, m0.pc[i] \in HoldPC,
           NEW m, MemType(m), m.active = m0.active, m.queue = m0.queue, m.spent = m0.spent,
           NEW x \in Outside, Moves(m0.pc, m.pc, i, x), Core(jr, m), Begin(m)
    PROVE  Good(jr, release(m, i))
<1>1. PICK d : d = release(m, i)
  OBVIOUS
<1>2. MemType(d) /\ Kept(m, d) /\ SlotsAll(d) /\ Woken(m.pc, d.pc)
  BY <1>1, ReleaseIs
<1>3. m.ready \in Seq(Item)
  BY FieldTypes
<1>4. Core(jr, d)
  BY <1>2, <1>3, ReleaseCore
<1>5. Begin(d)
  BY <1>2 DEF Begin, Kept, Woken
<1> QED BY <1>1, <1>2, <1>4, <1>5 DEF Good

\* The process state at the next step is judged by the same script.
LEMMA GoodNext ==
    ASSUME script' = script, NEW jr, NEW m, Good(jr, m), journal' = jr, mem' = m
    PROVE  Good(journal, mem)'
<1>1. Item' = Item /\ Frames' = Frames /\ \A i : Frame(i)' = Frame(i)
  BY DEF Item, ItemsOf, Frames, Frame
<1>2. MemType(mem)'
  BY <1>1 DEF Good, MemType, Keys, Prompts, PCs, Vals
<1>3. SlotsAll(mem)'
  <2>1. \A f : HoldingAt(mem.pc, f)' = HoldingAt(m.pc, f) /\ RunningAt(mem.pc, f)' = RunningAt(m.pc, f)
               /\ QueuedAt(mem.pc, f)' = QueuedAt(m.pc, f)
    BY <1>1 DEF HoldingAt, RunningAt, QueuedAt, HoldPC
  <2> QED BY <1>1, <2>1 DEF Good, SlotsAll, SlotsF
<1>4. Core(journal, mem)'
  BY <1>1 DEF Good, Core, Apart, Seen, ReadyOK, Undiverged, Written, AskedPC
<1>5. Begin(mem)'
  BY <1>1 DEF Good, Begin
<1> QED BY <1>2, <1>3, <1>4, <1>5 DEF Good

-----------------------------------------------------------------------------
(* The steps of a run, as functions of the process state *)

Popped(m) == [m EXCEPT !.ready = Tail(@)]

\* A continuation leaves the queue.
LEMMA PoppedIs ==
    ASSUME NEW jr, NEW m, Good(jr, m), m.ready # <<>>
    PROVE  /\ Head(m.ready) \in Item /\ m.pc[Head(m.ready)] \in {"asking", "ready"}
           /\ MemType(Popped(m)) /\ SlotsAll(Popped(m)) /\ Core(jr, Popped(m)) /\ Begin(Popped(m))
           /\ Head(m.ready) \notin Elems(Popped(m).ready)
           /\ Popped(m).pc = m.pc /\ Popped(m).stage = m.stage /\ Popped(m).value = m.value
           /\ Popped(m).key = m.key /\ Popped(m).prevKey = m.prevKey
           /\ Popped(m).diverged = m.diverged /\ Popped(m).aborted = m.aborted
           /\ Popped(m).spent = m.spent /\ Popped(m).agentCount = m.agentCount
           /\ Popped(m).ready = Tail(m.ready)
<1>1. MemType(m) /\ m.ready \in Seq(Item) /\ ReadyOK(m)
  BY FieldTypes DEF Good, Core
<1>2. /\ Tail(m.ready) \in Seq(Item) /\ NoDup(Tail(m.ready)) /\ Head(m.ready) \in Item
      /\ Elems(Tail(m.ready)) = Elems(m.ready) \ {Head(m.ready)} /\ Head(m.ready) \in Elems(m.ready)
  BY <1>1, LeavesQueue DEF ReadyOK
<1>3. PICK r : r = Tail(m.ready)
  OBVIOUS
<1>4. PICK d : d = [m EXCEPT !.ready = r]
  OBVIOUS
<1>5. d = Popped(m)
  BY <1>1, <1>3, <1>4 DEF Popped, MemType
<1>6. /\ MemType(d) /\ d.pc = m.pc /\ d.stage = m.stage /\ d.value = m.value
      /\ d.key = m.key /\ d.prevKey = m.prevKey
      /\ d.diverged = m.diverged /\ d.aborted = m.aborted
      /\ d.spent = m.spent /\ d.agentCount = m.agentCount
      /\ d.active = m.active /\ d.queue = m.queue /\ d.ready = r
  BY <1>1, <1>2, <1>3, <1>4 DEF MemType
<1>7. SlotsAll(d) /\ Begin(d)
  BY <1>6 DEF Good, SlotsAll, Begin
<1>8. Core(jr, d)
  <2>1. ReadyOK(d)
    BY <1>1, <1>2, <1>3, <1>6 DEF ReadyOK
  <2>2. Apart(d) /\ Seen(jr, d) /\ Undiverged(d) /\ Written(d)
    BY <1>6 DEF Good, Core, Apart, Seen, Undiverged, Written
  <2> QED BY <2>1, <2>2 DEF Core
<1>9. m.pc[Head(m.ready)] \in {"asking", "ready"}
  BY <1>1, <1>2 DEF ReadyOK
<1> QED BY <1>2, <1>3, <1>5, <1>6, <1>7, <1>8, <1>9

Staged(m, i) == [Popped(m) EXCEPT !.stage[i] = @ + 1]

StagedFrom(m, d, i) ==
    /\ d.stage = [m.stage EXCEPT ![i] = m.stage[i] + 1]
    /\ d.value = m.value /\ d.key = m.key /\ d.prevKey = m.prevKey /\ d.diverged = m.diverged
    /\ d.aborted = m.aborted /\ d.spent = m.spent
    /\ d.agentCount = m.agentCount /\ d.ready = Tail(m.ready)
Due(m, i) == m.ready # <<>> /\ i = Head(m.ready)

\* The item enters its next stage.
LEMMA StagedIs ==
    ASSUME NEW jr, NEW m, Good(jr, m), NEW i, Due(m, i)
    PROVE  /\ i \in Item /\ m.pc[i] \in {"asking", "ready"} /\ Staged(m, i).pc = m.pc
           /\ MemType(Staged(m, i)) /\ SlotsAll(Staged(m, i)) /\ Core(jr, Staged(m, i))
           /\ i \notin Elems(Staged(m, i).ready)
           /\ \A j \in Item : j # i /\ Staged(m, i).pc[j] = "asking" =>
                Staged(m, i).stage[j] = 0 /\ Staged(m, i).value[j] = 0 /\ Staged(m, i).key[j] = <<>>
           /\ StagedFrom(m, Staged(m, i), i)
<1>1. PICK p : p = Popped(m)
  OBVIOUS
<1>2. /\ i \in Item /\ m.pc[i] \in {"asking", "ready"}
      /\ MemType(p) /\ SlotsAll(p) /\ Core(jr, p) /\ Begin(p) /\ i \notin Elems(p.ready)
      /\ p.pc = m.pc /\ p.stage = m.stage /\ p.value = m.value /\ p.key = m.key
      /\ p.prevKey = m.prevKey /\ p.diverged = m.diverged /\ p.aborted = m.aborted
      /\ p.spent = m.spent /\ p.agentCount = m.agentCount /\ p.ready = Tail(m.ready)
  BY <1>1, PoppedIs DEF Due
<1>3. p.stage \in [Item -> Nat]
  BY <1>2, FieldTypes
<1>4. PICK n \in Nat : n = p.stage[i] + 1
  BY <1>2, <1>3
<1>5. PICK d : d = [p EXCEPT !.stage[i] = n]
  OBVIOUS
<1>6. d = Staged(m, i)
  BY <1>1, <1>2, <1>4, <1>5 DEF Staged, MemType
<1>7. /\ MemType(d) /\ d.pc = p.pc /\ d.value = p.value /\ d.key = p.key /\ d.prevKey = p.prevKey
      /\ d.diverged = p.diverged /\ d.aborted = p.aborted /\ d.spent = p.spent
      /\ d.agentCount = p.agentCount /\ d.active = p.active /\ d.queue = p.queue /\ d.ready = p.ready
      /\ d.stage = [p.stage EXCEPT ![i] = n]
  BY <1>2, <1>4, <1>5 DEF MemType
<1>8. SlotsAll(d)
  BY <1>2, <1>7 DEF SlotsAll
<1>9. Core(jr, d)
  BY <1>2, <1>7 DEF Core, Apart, Seen, ReadyOK, Undiverged, Written
<1>10. \A j \in Item : j # i /\ d.pc[j] = "asking" => d.stage[j] = 0 /\ d.value[j] = 0 /\ d.key[j] = <<>>
  BY <1>2, <1>3, <1>7 DEF Begin
<1>11. d.stage = [m.stage EXCEPT ![i] = m.stage[i] + 1]
  BY <1>2, <1>4, <1>7
<1>12. StagedFrom(m, d, i)
  BY <1>2, <1>7, <1>11 DEF StagedFrom
<1> QED BY <1>2, <1>6, <1>7, <1>8, <1>9, <1>10, <1>12

Continued(m) ==
    LET i == Head(m.ready)
    IN  IF m.stage[i] = script.stages THEN [Popped(m) EXCEPT !.pc[i] = "done"]
        ELSE Stage(Staged(m, i), i)

\* A continuation keeps the state good: a next stage, or the end of the item.
LEMMA ContinuedGood ==
    ASSUME Sized, JournalType, NEW m, Good(journal, m), m.ready # <<>>
    PROVE  Good(journal, Continued(m))
<1>0. PICK i : i = Head(m.ready)
  OBVIOUS
<1>1. CASE m.stage[i] = script.stages
  <2>1. PICK p : p = Popped(m)
    OBVIOUS
  <2>2. /\ i \in Item /\ m.pc[i] \in {"asking", "ready"}
        /\ MemType(p) /\ SlotsAll(p) /\ Core(journal, p) /\ Begin(p) /\ i \notin Elems(p.ready)
        /\ p.pc = m.pc
    BY <2>1, <1>0, PoppedIs
  <2>3. p.pc[i] = "ready"
    BY <2>2, <1>1 DEF Good, Begin, Sized
  <2>4. PICK d : d = [p EXCEPT !.pc[i] = "done"]
    OBVIOUS
  <2>5. Good(journal, d)
    BY <2>2, <2>3, <2>4, IdleGood DEF Begin
  <2> QED BY <2>1, <2>4, <2>5, <1>0, <1>1 DEF Continued
<1>2. CASE m.stage[i] # script.stages
  <2> DEFINE s == Staged(m, i)
  <2>2. /\ i \in Item /\ m.pc[i] \in {"asking", "ready"} /\ s.pc = m.pc
        /\ MemType(s) /\ SlotsAll(s) /\ Core(journal, s) /\ i \notin Elems(s.ready)
        /\ \A j \in Item : j # i /\ s.pc[j] = "asking" => s.stage[j] = 0 /\ s.value[j] = 0 /\ s.key[j] = <<>>
    <3>1. Due(m, i)
      BY <1>0 DEF Due
    <3> QED BY <3>1, StagedIs
  <2> HIDE DEF s
  <2>3. Continued(m) = Stage(s, i)
    BY <1>0, <1>2 DEF Continued, s
  <2>4. Good(journal, agent(s, i))
    BY <2>2, AgentGood
  <2>5. Good(journal, workflowHook(s, i))
    <3>0. PICK x \in {"null", "resolving"} : x = IF checkCaps(s, Root) THEN "null" ELSE "resolving"
      OBVIOUS
    <3>1. PICK d : d = [s EXCEPT !.pc[i] = x]
      OBVIOUS
    <3>2. d = workflowHook(s, i)
      BY <3>0, <3>1 DEF workflowHook, drop
    <3>3. s.pc[i] \in {"asking", "ready", "resolving"} /\ x \in {"null", "resolving", "done"} /\ x # "done"
      BY <2>2, <3>0
    <3>4. Good(journal, d)
      BY <3>1, <3>3, <2>2, IdleGood
    <3> QED BY <3>2, <3>4
  <2> QED BY <2>3, <2>4, <2>5 DEF Stage
<1> QED BY <1>1, <1>2

Child(m, i) == [m EXCEPT !.spent[i] = 0, !.agentCount[i] = 0]
Entered(m, i) == agent(Child(m, i), i)

\* A child workflow starts with fresh counters, and nobody holds a slot of it.
LEMMA EnteredIs ==
    ASSUME Sized, NEW jr, NEW m, Good(jr, m), NEW i \in Item, m.pc[i] = "resolving",
           NEW e, e = Child(m, i)
    PROVE  /\ MemType(e) /\ SlotsAll(e) /\ Core(jr, e) /\ Begin(e)
           /\ i \notin Elems(e.ready) /\ e.pc = m.pc /\ e.diverged = m.diverged
<1>1. i \in Frames /\ MemType(m) /\ 0 \in 0..AgentCap
  BY BoundsAssumption DEF Sized, Item, ItemsOf, Frames, Good
<1>2. /\ MemType(e) /\ e.pc = m.pc /\ e.stage = m.stage /\ e.value = m.value
      /\ e.key = m.key /\ e.prevKey = m.prevKey /\ e.diverged = m.diverged
      /\ e.active = m.active /\ e.queue = m.queue /\ e.ready = m.ready
      /\ e.spent = [m.spent EXCEPT ![i] = 0]
  BY <1>1 DEF MemType, Child
<1>3. m.spent \in [Frames -> Nat] /\ m.ready \in Seq(Item)
  BY <1>1, FieldTypes
<1>4. RunningAt(m.pc, i) = {}
  <2>1. i # Root
    BY DEF Sized, Item, ItemsOf, Root
  <2> QED BY <2>1 DEF RunningAt, Frame
<1>5. SlotsAll(e)
  <2> SUFFICES ASSUME NEW f \in Frames
               PROVE  SlotsF(m.pc, f, m.active[f], m.queue[f], e.spent[f])
    BY <1>2 DEF SlotsAll
  <2>1. SlotsF(m.pc, f, m.active[f], m.queue[f], m.spent[f])
    BY DEF Good, SlotsAll
  <2>2. CASE f # i
    BY <2>1, <2>2, <1>2, <1>3
  <2>3. CASE f = i
    <3>1. e.spent[f] = 0
      BY <2>3, <1>1, <1>2, <1>3
    <3>2. SlotsF(m.pc, f, m.active[f], m.queue[f], 0)
      BY <2>1, <2>3, <1>4, SlotsReset
    <3> QED BY <3>1, <3>2
  <2> QED BY <2>2, <2>3
<1>6. Core(jr, e) /\ Begin(e)
  BY <1>2 DEF Good, Core, Apart, Seen, ReadyOK, Undiverged, Written, Begin
<1>7. i \notin Elems(e.ready)
  BY <1>2 DEF Good, Core, ReadyOK
<1> QED BY <1>2, <1>5, <1>6, <1>7

\* The body of a nested script asks its agent.
LEMMA EnteredGood ==
    ASSUME Sized, JournalType, NEW m, Good(journal, m), NEW i \in Item, m.pc[i] = "resolving"
    PROVE  Good(journal, Entered(m, i))
<1>1. PICK e : e = Child(m, i)
  OBVIOUS
<1>2. /\ MemType(e) /\ SlotsAll(e) /\ Core(journal, e) /\ Begin(e)
      /\ i \notin Elems(e.ready) /\ e.pc = m.pc
  BY <1>1, EnteredIs
<1>3. Good(journal, agent(e, i))
  <2>1. e.pc[i] \in {"asking", "ready", "resolving"}
    BY <1>2
  <2>2. \A j \in Item : j # i /\ e.pc[j] = "asking" => e.stage[j] = 0 /\ e.value[j] = 0 /\ e.key[j] = <<>>
    BY <1>2 DEF Begin
  <2> QED BY <1>2, <2>1, <2>2, AgentGood
<1> QED BY <1>1, <1>3 DEF Entered

\* The tally of the frame goes up.
Tallied(m, d, i, up) ==
    /\ d.spent[Frame(i)] = m.spent[Frame(i)] + up
    /\ \A g \in Frames : g # Frame(i) => d.spent[g] = m.spent[g]
Unsettled(m, d, i) ==
    /\ d.active = m.active /\ d.queue = m.queue /\ d.key = m.key /\ d.prevKey = m.prevKey
    /\ d.ready = m.ready /\ d.diverged = m.diverged /\ d.stage = m.stage
    /\ \A j \in Item : j # i => d.value[j] = m.value[j]

\* A running agent settles: it keeps its slot till the record is written.
LEMMA SettledGood ==
    ASSUME Sized, NEW jr, NEW m, Good(jr, m), NEW i \in Item, m.pc[i] = "running",
           NEW d, MemType(d), NEW x \in {"writing", "erring"}, Moves(m.pc, d.pc, i, x),
           NEW up \in {0, 1}, Tallied(m, d, i, up), Unsettled(m, d, i),
           x = "writing" => d.value[i] \in Results
    PROVE  Good(jr, d)
<1>1. MemType(m) /\ m.spent \in [Frames -> Nat] /\ m.ready \in Seq(Item) /\ Frame(i) \in Frames
  BY FieldTypes, FrameIsFrame DEF Good
<1>2. d.pc[i] = x /\ \A j \in Item : j # i => d.pc[j] = m.pc[j]
  BY DEF Moves
<1>3. SlotsAll(d)
  <2> SUFFICES ASSUME NEW g \in Frames PROVE SlotsF(d.pc, g, m.active[g], m.queue[g], d.spent[g])
    BY DEF SlotsAll, Unsettled
  <2>1. SlotsF(m.pc, g, m.active[g], m.queue[g], m.spent[g])
    BY DEF Good, SlotsAll
  <2>2. CASE g # Frame(i)
    <3>1. SlotsF(d.pc, g, m.active[g], m.queue[g], m.spent[g])
      BY <2>1, <2>2, SlotsElsewhere
    <3> QED BY <3>1, <2>2 DEF Tallied
  <2>3. CASE g = Frame(i)
    <3>1. m.spent[Frame(i)] \in Nat /\ d.spent[g] = m.spent[Frame(i)] + up
      BY <1>1, <2>3 DEF Tallied
    <3>2. SlotsF(d.pc, Frame(i), m.active[g], m.queue[g], m.spent[Frame(i)] + up)
      BY <3>1, <2>1, <2>3, SlotsSettle
    <3> QED BY <3>1, <3>2, <2>3
  <2> QED BY <2>2, <2>3
<1>4. Core(jr, d)
  <2>1. Apart(d)
    <3>1. \A j \in Item : d.pc[j] \in AskedPC => m.pc[j] \in AskedPC
      BY <1>2 DEF AskedPC
    <3> QED BY <3>1, ApartStays DEF Good, Core, Unsettled
  <2>2. Seen(jr, d)
    BY <1>2 DEF Good, Core, Seen, Unsettled
  <2>3. ReadyOK(d)
    <3>1. \A j \in Elems(m.ready) : j \in Item /\ j # i
      BY <1>1 DEF Good, Core, ReadyOK, Elems
    <3> QED BY <3>1, <1>2 DEF Good, Core, ReadyOK, Unsettled
  <2>4. Undiverged(d)
    BY <1>2 DEF Good, Core, Undiverged, Unsettled
  <2>5. Written(d)
    BY <1>2 DEF Good, Core, Written, Unsettled
  <2> QED BY <2>1, <2>2, <2>3, <2>4, <2>5 DEF Core
<1>5. Begin(d)
  BY <1>2 DEF Good, Begin, Unsettled
<1> QED BY <1>3, <1>4, <1>5 DEF Good

Answered(m, i, v) == [m EXCEPT !.pc[i] = "writing", !.value[i] = v, !.spent[Frame(i)] = @ + 1]

\* An agent answers: the answer is tallied before it is put on record.
LEMMA AnsweredGood ==
    ASSUME Sized, NEW jr, NEW m, Good(jr, m), NEW i \in Item, m.pc[i] = "running", NEW v \in Results
    PROVE  Good(jr, Answered(m, i, v)) /\ Answered(m, i, v).diverged = m.diverged
<1>1. /\ MemType(m) /\ m.spent \in [Frames -> Nat] /\ Frame(i) \in Frames
      /\ m.pc \in [Item -> PCs] /\ m.value \in [Item -> Vals]
  BY FieldTypes, FrameIsFrame DEF Good
<1>2. PICK n \in Nat : n = m.spent[Frame(i)] + 1
  BY <1>1
<1>3. "writing" \in PCs /\ v \in Vals
  BY DEF PCs, Vals
<1>4. PICK d : d = [m EXCEPT !.pc[i] = "writing", !.value[i] = v, !.spent[Frame(i)] = n]
  OBVIOUS
<1>5. d = Answered(m, i, v)
  BY <1>1, <1>2, <1>4 DEF Answered, MemType
<1>6. /\ MemType(d) /\ d.pc = [m.pc EXCEPT ![i] = "writing"] /\ d.value = [m.value EXCEPT ![i] = v]
      /\ d.spent = [m.spent EXCEPT ![Frame(i)] = n]
      /\ d.active = m.active /\ d.queue = m.queue /\ d.key = m.key /\ d.prevKey = m.prevKey
      /\ d.ready = m.ready /\ d.diverged = m.diverged /\ d.stage = m.stage
  BY <1>1, <1>3, <1>4 DEF MemType
<1>7. Moves(m.pc, d.pc, i, "writing")
  BY <1>1, <1>3, <1>6 DEF Moves
<1>8. d.value[i] \in Results /\ \A j \in Item : j # i => d.value[j] = m.value[j]
  BY <1>1, <1>6
<1>9. d.spent = [m.spent EXCEPT ![Frame(i)] = m.spent[Frame(i)] + 1]
  BY <1>2, <1>6
<1>10. Good(jr, d)
  <2>1. Tallied(m, d, i, 1)
    BY <1>1, <1>9 DEF Tallied
  <2>2. Unsettled(m, d, i)
    BY <1>6, <1>8 DEF Unsettled
  <2>3. MemType(d)
    BY <1>6
  <2> QED BY <2>1, <2>2, <2>3, <1>7, <1>8, SettledGood
<1> QED BY <1>5, <1>6, <1>10

Failed(m, i) == [m EXCEPT !.pc[i] = "erring"]

\* An agent fails: its error is put on record.
LEMMA FailedGood ==
    ASSUME Sized, NEW jr, NEW m, Good(jr, m), NEW i \in Item, m.pc[i] = "running"
    PROVE  Good(jr, Failed(m, i)) /\ Failed(m, i).diverged = m.diverged
<1>1. /\ MemType(m) /\ m.spent \in [Frames -> Nat] /\ Frame(i) \in Frames /\ m.pc \in [Item -> PCs]
  BY FieldTypes, FrameIsFrame DEF Good
<1>2. "erring" \in PCs
  BY DEF PCs
<1>3. PICK d : d = [m EXCEPT !.pc[i] = "erring"]
  OBVIOUS
<1>4. d = Failed(m, i)
  BY <1>3 DEF Failed
<1>5. /\ MemType(d) /\ d.pc = [m.pc EXCEPT ![i] = "erring"] /\ d.value = m.value
      /\ d.spent = m.spent
      /\ d.active = m.active /\ d.queue = m.queue /\ d.key = m.key /\ d.prevKey = m.prevKey
      /\ d.ready = m.ready /\ d.diverged = m.diverged /\ d.stage = m.stage
  BY <1>1, <1>2, <1>3 DEF MemType
<1>6. Moves(m.pc, d.pc, i, "erring")
  BY <1>1, <1>2, <1>5 DEF Moves
<1>8. Good(jr, d)
  <2>1. Tallied(m, d, i, 0)
    BY <1>1, <1>5 DEF Tallied
  <2>2. Unsettled(m, d, i)
    BY <1>5 DEF Unsettled
  <2>3. MemType(d)
    BY <1>5
  <2> QED BY <2>1, <2>2, <2>3, <1>6, SettledGood
<1> QED BY <1>4, <1>5, <1>8

AbortedMem(m) == [m EXCEPT !.aborted = TRUE]

\* An abort changes nothing but the flag.
LEMMA AbortedGood ==
    ASSUME NEW jr, NEW m, Good(jr, m)
    PROVE  Good(jr, AbortedMem(m)) /\ AbortedMem(m).diverged = m.diverged
<1>1. PICK d : d = AbortedMem(m)
  OBVIOUS
<1>2. /\ MemType(d) /\ d.pc = m.pc /\ d.value = m.value
      /\ d.spent = m.spent
      /\ d.active = m.active /\ d.queue = m.queue /\ d.key = m.key /\ d.prevKey = m.prevKey
      /\ d.ready = m.ready /\ d.diverged = m.diverged /\ d.stage = m.stage
  BY <1>1 DEF MemType, AbortedMem, Good
<1>3. Good(jr, d)
  BY <1>2 DEF Good, SlotsAll, Core, Apart, Seen, ReadyOK, Undiverged, Written, Begin
<1> QED BY <1>1, <1>2, <1>3

\* The call of an item that held a slot ends without a value.
LEMMA DroppedGood ==
    ASSUME Sized, NEW jr, NEW m, Good(jr, m), NEW i \in Item, m.pc[i] \in HoldPC
    PROVE  Good(jr, release(drop(m, i), i)) /\ release(drop(m, i), i).diverged = m.diverged
<1>1. MemType(m) /\ m.pc \in [Item -> PCs] /\ m.ready \in Seq(Item) /\ SlotsAll(m)
  BY FieldTypes DEF Good
<1>2. "null" \in PCs /\ "null" \in Outside
  BY DEF PCs, Outside
<1>3. PICK d : d = [m EXCEPT !.pc[i] = "null"]
  OBVIOUS
<1>4. d = drop(m, i)
  BY <1>3 DEF drop
<1>5. /\ MemType(d) /\ d.pc = [m.pc EXCEPT ![i] = "null"] /\ d.value = m.value
      /\ d.spent = m.spent
      /\ d.active = m.active /\ d.queue = m.queue /\ d.key = m.key /\ d.prevKey = m.prevKey
      /\ d.ready = m.ready /\ d.diverged = m.diverged /\ d.stage = m.stage
  BY <1>1, <1>2, <1>3 DEF MemType
<1>6. Moves(m.pc, d.pc, i, "null") /\ d.pc[i] = "null" /\ \A j \in Item : j # i => d.pc[j] = m.pc[j]
  BY <1>1, <1>2, <1>5 DEF Moves
<1>7. Core(jr, d)
  <2>1. Apart(d)
    <3>1. \A j \in Item : d.pc[j] \in AskedPC => m.pc[j] \in AskedPC
      BY <1>6 DEF AskedPC
    <3> QED BY <3>1, <1>5, ApartStays DEF Good, Core
  <2>2. Seen(jr, d)
    BY <1>5, <1>6 DEF Good, Core, Seen
  <2>3. ReadyOK(d)
    <3>1. \A j \in Elems(m.ready) : j \in Item /\ j # i
      BY <1>1 DEF Good, Core, ReadyOK, Elems, HoldPC
    <3> QED BY <3>1, <1>5, <1>6 DEF Good, Core, ReadyOK
  <2>4. Undiverged(d)
    BY <1>5, <1>6 DEF Good, Core, Undiverged
  <2>5. Written(d)
    BY <1>5, <1>6 DEF Good, Core, Written
  <2> QED BY <2>1, <2>2, <2>3, <2>4, <2>5 DEF Core
<1>8. Begin(d)
  BY <1>5, <1>6 DEF Good, Begin
<1>9. Good(jr, release(d, i))
  BY <1>1, <1>2, <1>5, <1>6, <1>7, <1>8, ReleaseGood
<1>10. release(d, i).diverged = d.diverged
  BY <1>1, <1>2, <1>5, <1>6, ReleaseIs DEF Kept
<1> QED BY <1>4, <1>5, <1>9, <1>10

Recorded(jr, m, i) ==
    [k \in DOMAIN jr \cup {m.key[i]} |-> IF k = m.key[i] THEN m.value[i] ELSE jr[k]]

\* The record of a result is written: no value seen so far changes under it.
LEMMA RecordedGood ==
    ASSUME Sized, NEW jr, NEW m, Good(jr, m), NEW i \in Item, m.pc[i] = "writing"
    PROVE  /\ Good(Recorded(jr, m, i), release(return(m, i, m.value[i]), i))
           /\ release(return(m, i, m.value[i]), i).diverged = m.diverged
<1> DEFINE v == m.value[i]
           r2 == Append(m.ready, i)
           j2 == Recorded(jr, m, i)
<1>1. /\ MemType(m) /\ m.pc \in [Item -> PCs] /\ m.ready \in Seq(Item) /\ SlotsAll(m)
      /\ m.value \in [Item -> Vals] /\ NoDup(m.ready)
  BY FieldTypes DEF Good, Core, ReadyOK
<1>2. "ready" \in PCs /\ "ready" \in Outside /\ v \in Vals /\ r2 \in Seq(Item) /\ m.pc[i] \in HoldPC
  BY <1>1 DEF PCs, Outside, HoldPC
<1>3. PICK d : d = return(m, i, v)
  OBVIOUS
<1>4. d = [m EXCEPT !.pc[i] = "ready", !.value[i] = v, !.ready = r2]
  BY <1>1, <1>3 DEF return, MemType
<1>5. i \notin Elems(m.ready)
  BY DEF Good, Core, ReadyOK
<1>6. NoDup(r2) /\ Elems(r2) = Elems(m.ready) \cup {i}
  BY <1>1, <1>5, EntersQueue
<1> HIDE DEF r2
<1>7. /\ MemType(d) /\ d.pc = [m.pc EXCEPT ![i] = "ready"] /\ d.value = [m.value EXCEPT ![i] = v]
      /\ d.spent = m.spent
      /\ d.active = m.active /\ d.queue = m.queue /\ d.key = m.key /\ d.prevKey = m.prevKey
      /\ d.ready = r2 /\ d.diverged = m.diverged /\ d.stage = m.stage
  BY <1>1, <1>2, <1>4 DEF MemType
<1>8. d.value = m.value
  BY <1>1, <1>7
<1>9. Moves(m.pc, d.pc, i, "ready") /\ d.pc[i] = "ready" /\ \A j \in Item : j # i => d.pc[j] = m.pc[j]
  BY <1>1, <1>2, <1>7 DEF Moves
<1>10. Core(j2, d)
  <2>1. Apart(d)
    <3>1. \A j \in Item : d.pc[j] \in AskedPC => m.pc[j] \in AskedPC
      BY <1>9 DEF AskedPC
    <3> QED BY <3>1, <1>7, ApartStays DEF Good, Core
  <2>2. Seen(j2, d)
    <3> SUFFICES ASSUME NEW j \in Item, d.pc[j] \in {"ready", "done"}
                 PROVE  m.key[j] \in DOMAIN j2 /\ j2[m.key[j]] = m.value[j]
      BY <1>7, <1>8 DEF Seen
    <3>1. CASE j = i
      BY <3>1 DEF Recorded
    <3>2. CASE j # i
      <4>1. m.pc[j] \in {"ready", "done"}
        BY <3>2, <1>9
      <4>2. m.key[j] \in DOMAIN jr /\ jr[m.key[j]] = m.value[j]
        BY <4>1 DEF Good, Core, Seen
      <4>3. m.key[j] # m.key[i]
        BY <3>2, <4>1 DEF Good, Core, Apart, AskedPC
      <4> QED BY <4>2, <4>3 DEF Recorded
    <3> QED BY <3>1, <3>2
  <2>3. ReadyOK(d)
    <3>1. \A j \in Elems(m.ready) : j \in Item /\ j # i
      BY <1>1, <1>5 DEF Elems
    <3> QED BY <3>1, <1>6, <1>7, <1>9 DEF Good, Core, ReadyOK
  <2>4. Undiverged(d)
    BY <1>7, <1>9 DEF Good, Core, Undiverged
  <2>5. Written(d)
    BY <1>7, <1>8, <1>9 DEF Good, Core, Written
  <2> QED BY <2>1, <2>2, <2>3, <2>4, <2>5 DEF Core
<1>11. Begin(d)
  BY <1>7, <1>8, <1>9 DEF Good, Begin
<1> HIDE DEF j2
<1>12. Good(j2, release(d, i))
  BY <1>1, <1>2, <1>7, <1>9, <1>10, <1>11, ReleaseGood
<1>13. release(d, i).diverged = d.diverged
  BY <1>1, <1>2, <1>7, <1>9, ReleaseIs DEF Kept
<1> QED BY <1>3, <1>7, <1>12, <1>13 DEF j2

-----------------------------------------------------------------------------
(* The invariant of a run, and what it gives *)

Outcomes == {"none", "running", "completed", "aborted", "crashed"}

WInv ==
    /\ script \in Scripts /\ JournalType /\ Good(journal, mem)
    /\ runs \in 0..MaxRuns /\ faults \in 0..MaxFaults /\ outcome \in Outcomes

\* A script that is run has sizes (BoundsAssumption).
LEMMA ScriptSized ==
    ASSUME script \in Scripts
    PROVE  Sized
BY BoundsAssumption DEF Sized

\* Counting from one is a queue of all the items.
LEMMA EveryItemOnce ==
    ASSUME Sized, NEW r, r = [i \in Item |-> i]
    PROVE  r \in Seq(Item) /\ NoDup(r)
<1>1. Item = 1..script.items /\ script.items \in Nat
  BY DEF Item, ItemsOf, Sized
<1>2. r \in [1..script.items -> Item]
  BY <1>1
<1>3. r \in Seq(Item)
  BY <1>1, <1>2
<1>4. NoDup(r)
  BY DEF NoDup
<1> QED BY <1>3, <1>4

\* A fresh process, and one that has started the pipeline, are good.
LEMMA FreshGood ==
    ASSUME Sized, NEW jr
    PROVE  Good(jr, Fresh(script)) /\ Good(jr, pipeline(script))
<1>1. Good(jr, pipeline(script))
  <2>1. PICK r : r = [i \in Item |-> i]
    OBVIOUS
  <2>2. FreshOf(pipeline(script), r)
    BY <2>1 DEF FreshOf, pipeline, Item
  <2> QED BY <2>1, <2>2, EveryItemOnce, StartsGood
<1>2. Good(jr, Fresh(script))
  <2>1. FreshOf(Fresh(script), <<>>)
    BY DEF FreshOf
  <2>2. <<>> \in Seq(Item) /\ NoDup(<<>>)
    BY DEF NoDup
  <2> QED BY <2>1, <2>2, StartsGood
<1> QED BY <1>1, <1>2

\* The invariant holds at first.
LEMMA WInvInit == Init => WInv
<1> SUFFICES ASSUME Init PROVE WInv
  OBVIOUS
<1>1. script \in Scripts /\ Sized
  BY ScriptSized DEF Init
<1>2. JournalType
  BY DEF Init, JournalType
<1>3. Good(journal, mem)
  BY <1>1, FreshGood DEF Init
<1>4. runs \in 0..MaxRuns /\ faults \in 0..MaxFaults /\ outcome \in Outcomes
  BY BoundsAssumption DEF Init, Outcomes
<1> QED BY <1>1, <1>2, <1>3, <1>4 DEF WInv

\* The journal keeps its type when a result is put on record.
LEMMA RecordedType ==
    ASSUME JournalType, NEW m, MemType(m), NEW i \in Item, m.value[i] \in Results,
           script' = script, journal' = Recorded(journal, m, i)
    PROVE  JournalType'
<1>1. m.key[i] \in Keys
  BY FieldTypes
<1>2. Keys' = Keys
  BY DEF Keys, Prompts, Item, ItemsOf, Vals
<1>3. DOMAIN journal' = DOMAIN journal \cup {m.key[i]}
  BY DEF Recorded
<1>4. \A k \in DOMAIN journal' : journal'[k] \in Results
  BY DEF Recorded, JournalType
<1>5. journal' \in [DOMAIN journal' -> Results]
  BY <1>3, <1>4 DEF Recorded
<1> QED BY <1>1, <1>2, <1>3, <1>5 DEF JournalType

\* The journal keeps its type where it is left alone.
LEMMA JournalTypeStays ==
    ASSUME JournalType, script' = script, journal' = journal
    PROVE  JournalType'
<1>1. Keys' = Keys
  BY DEF Keys, Prompts, Item, ItemsOf, Vals
<1> QED BY <1>1 DEF JournalType

Bounded == runs \in 0..MaxRuns /\ faults \in 0..MaxFaults /\ outcome \in Outcomes

\* Every step of an item, as a function of the process state.
LEMMA StepsGood ==
    ASSUME Sized, JournalType, Good(journal, mem), Next
    PROVE  Good(journal', mem') /\ script' = script /\ JournalType'
<1>1. CASE executeJournaled
  BY <1>1, FreshGood, JournalTypeStays DEF executeJournaled
<1>2. CASE Continue
  <2>1. mem' = Continued(mem) /\ mem.ready # <<>> /\ journal' = journal /\ script' = script
    BY <1>2 DEF Continue, Becomes, Continued, Popped, Staged
  <2>2. Good(journal, Continued(mem))
    BY <2>1, ContinuedGood
  <2> QED BY <2>1, <2>2, JournalTypeStays
<1>3. CASE Abort
  <2>1. mem' = AbortedMem(mem) /\ journal' = journal /\ script' = script
    BY <1>3 DEF Abort, Becomes, AbortedMem
  <2> QED BY <2>1, AbortedGood, JournalTypeStays
<1>4. CASE recordOutcome
  BY <1>4, JournalTypeStays DEF recordOutcome
<1>5. CASE Crash
  BY <1>5, FreshGood, JournalTypeStays DEF Crash
<1>6. ASSUME NEW i \in Item, enterChild(i) PROVE Good(journal', mem') /\ script' = script /\ JournalType'
  <2>1. mem' = Entered(mem, i) /\ mem.pc[i] = "resolving" /\ journal' = journal /\ script' = script
    BY <1>6 DEF enterChild, Becomes, Entered, Child
  <2> QED BY <2>1, EnteredGood, JournalTypeStays
<1>7. ASSUME NEW i \in Item, agentAnswers(i) PROVE Good(journal', mem') /\ script' = script /\ JournalType'
  <2>1. PICK v \in Results : mem' = Answered(mem, i, v)
    BY <1>7 DEF agentAnswers, Becomes, Answered
  <2>2. mem.pc[i] = "running" /\ journal' = journal /\ script' = script
    BY <1>7 DEF agentAnswers
  <2>3. Good(journal, Answered(mem, i, v))
    BY <2>2, AnsweredGood
  <2> QED BY <2>1, <2>2, <2>3, JournalTypeStays
<1>8. ASSUME NEW i \in Item, agentFails(i) PROVE Good(journal', mem') /\ script' = script /\ JournalType'
  <2>1. mem' = Failed(mem, i) /\ mem.pc[i] = "running" /\ journal' = journal /\ script' = script
    BY <1>8 DEF agentFails, Becomes, Failed
  <2> QED BY <2>1, FailedGood, JournalTypeStays
<1>9. ASSUME NEW i \in Item, recordResult(i) PROVE Good(journal', mem') /\ script' = script /\ JournalType'
  <2>1. mem.pc[i] = "writing" /\ mem.pc[i] \in HoldPC /\ script' = script
    BY <1>9 DEF recordResult, HoldPC
  <2>2. CASE journal' = Recorded(journal, mem, i) /\ mem' = release(return(mem, i, mem.value[i]), i)
    <3>1. Good(Recorded(journal, mem, i), release(return(mem, i, mem.value[i]), i))
      BY <2>1, RecordedGood
    <3>2. mem.value[i] \in Results /\ MemType(mem)
      BY <2>1 DEF Good, Core, Written
    <3>3. JournalType'
      BY <2>1, <2>2, <3>2, RecordedType
    <3> QED BY <2>1, <2>2, <3>1, <3>3
  <2>3. CASE journal' = journal /\ mem' = release(drop(mem, i), i)
    <3>1. Good(journal, release(drop(mem, i), i))
      BY <2>1, DroppedGood
    <3> QED BY <2>1, <2>3, <3>1, JournalTypeStays
  <2> QED BY <1>9, <2>2, <2>3 DEF recordResult, Becomes, Recorded
<1>10. ASSUME NEW i \in Item, recordError(i) PROVE Good(journal', mem') /\ script' = script /\ JournalType'
  <2>1. mem' = release(drop(mem, i), i) /\ mem.pc[i] \in HoldPC /\ journal' = journal /\ script' = script
    BY <1>10 DEF recordError, Becomes, HoldPC
  <2>2. Good(journal, release(drop(mem, i), i))
    BY <2>1, DroppedGood
  <2> QED BY <2>1, <2>2, JournalTypeStays
<1> QED BY <1>1, <1>2, <1>3, <1>4, <1>5, <1>6, <1>7, <1>8, <1>9, <1>10 DEF Next, Item

\* The counters keep within their bounds.
LEMMA BoundsKept ==
    ASSUME Bounded, Next
    PROVE  Bounded'
<1> USE BoundsAssumption DEF Bounded, Outcomes
<1>1. CASE executeJournaled
  BY <1>1 DEF executeJournaled
<1>2. CASE Continue
  BY <1>2 DEF Continue
<1>3. CASE Abort
  BY <1>3 DEF Abort
<1>4. CASE recordOutcome
  BY <1>4 DEF recordOutcome
<1>5. CASE Crash
  BY <1>5 DEF Crash
<1>6. ASSUME NEW i \in ItemsOf(script), enterChild(i) PROVE Bounded'
  BY <1>6 DEF enterChild
<1>7. ASSUME NEW i \in ItemsOf(script), agentAnswers(i) PROVE Bounded'
  BY <1>7 DEF agentAnswers
<1>8. ASSUME NEW i \in ItemsOf(script), agentFails(i) PROVE Bounded'
  BY <1>8 DEF agentFails
<1>9. ASSUME NEW i \in ItemsOf(script), recordResult(i) PROVE Bounded'
  BY <1>9 DEF recordResult
<1>10. ASSUME NEW i \in ItemsOf(script), recordError(i) PROVE Bounded'
  BY <1>10 DEF recordError
<1> QED BY ONLY <1>1, <1>2, <1>3, <1>4, <1>5, <1>6, <1>7, <1>8, <1>9, <1>10, Next DEF Next

\* The invariant is inductive.
LEMMA WInvStep == WInv /\ [Next]_vars => WInv'
<1> SUFFICES ASSUME WInv, [Next]_vars PROVE WInv'
  OBVIOUS
<1>1. Sized
  BY ScriptSized DEF WInv
<1>2. CASE Next
  <2>1. Good(journal', mem') /\ script' = script /\ JournalType'
    BY <1>1, <1>2, StepsGood DEF WInv
  <2>2. PICK jr, m : jr = journal' /\ m = mem'
    OBVIOUS
  <2>3. Good(journal, mem)'
    <3>1. Good(jr, m)
      BY <2>1, <2>2
    <3> QED BY <2>1, <2>2, <3>1, GoodNext
  <2>4. Bounded'
    BY <1>2, BoundsKept DEF WInv, Bounded
  <2> QED BY <2>1, <2>3, <2>4 DEF WInv, Bounded
<1>3. CASE UNCHANGED vars
  <2>1. script' = script /\ journal' = journal /\ mem' = mem /\ runs' = runs /\ faults' = faults
        /\ outcome' = outcome
    BY <1>3 DEF vars
  <2>2. PICK jr, m : jr = journal /\ m = mem
    OBVIOUS
  <2>3. Good(journal, mem)'
    BY <2>1, <2>2, GoodNext DEF WInv
  <2>4. JournalType'
    BY <2>1, JournalTypeStays DEF WInv
  <2> QED BY <2>1, <2>3, <2>4 DEF WInv
<1> QED BY <1>2, <1>3

\* A run's state is well-typed (WorkflowTypeOK), whatever the script.
THEOREM TypeCorrect == Spec => []WorkflowTypeOK
<1>1. WInv => WorkflowTypeOK
  <2> SUFFICES ASSUME WInv PROVE WorkflowTypeOK
    OBVIOUS
  <2>1. \A k \in DOMAIN journal : journal[k] \in Results
    BY DEF WInv, JournalType
  <2>2. \A i \in ItemsOf(script) : mem.pc[i] \in PCs
    BY FieldTypes DEF WInv, Good, Item
  <2> QED BY <2>1, <2>2 DEF WInv, WorkflowTypeOK, Outcomes, PCs
<1> QED BY <1>1, WInvInit, WInvStep, PTL DEF Spec

\* In every runWorkflow call the slots are counted right, a waiter waits only while
\* they are all taken, its own tally overruns the budget by no more than its calls in
\* flight, and it makes no more calls than the cap (concurrency.ts:19-33;
\* runtime.ts:111-123, 178-192).
THEOREM SlotsHold == Spec => []SlotsAndBudgetHold
<1>1. WInv => SlotsAndBudgetHold
  <2> SUFFICES ASSUME WInv, NEW f \in Frames
               PROVE  /\ mem.active[f] = Cardinality(Holding(f)) /\ mem.active[f] <= script.width
                      /\ mem.queue[f] # <<>> => mem.active[f] = script.width
                      /\ script.budget > 0 => mem.spent[f] < script.budget + script.width
                      /\ mem.agentCount[f] <= AgentCap
    BY DEF SlotsAndBudgetHold
  <2>1. Sized /\ SlotsF(mem.pc, f, mem.active[f], mem.queue[f], mem.spent[f])
    BY ScriptSized DEF WInv, Good, SlotsAll
  <2>2. Holding(f) = HoldingAt(mem.pc, f)
    BY DEF Holding, HoldingAt, HoldPC, Item
  <2>3. Cardinality(RunningAt(mem.pc, f)) \in Nat
    BY <2>1, FiniteFrames
  <2>4. mem.spent[f] \in Nat /\ script.budget \in Nat /\ script.width \in Nat
    BY <2>1, FieldTypes DEF WInv, Good, Sized
  <2>5. script.budget > 0 => mem.spent[f] < script.budget + script.width
    BY <2>1, <2>3, <2>4 DEF SlotsF
  <2>6. mem.agentCount[f] <= AgentCap
    BY FieldTypes, BoundsAssumption DEF WInv, Good
  <2> QED BY <2>1, <2>2, <2>5, <2>6 DEF SlotsF
<1> QED BY <1>1, WInvInit, WInvStep, PTL DEF Spec

-----------------------------------------------------------------------------
(* The journal of a sequence of calls: one key of each length, each made of  *)
(* the one before it and the value recorded under that                       *)

Proper(jr, k) ==
    \/ k = <<(<<1, 1, 0>>)>>
    \/ \E b \in DOMAIN jr : k = Append(b, <<1, Len(b) + 1, jr[b]>>)

Straight(jr) ==
    /\ DOMAIN jr \subseteq Keys /\ jr \in [DOMAIN jr -> Results]
    /\ \A k \in DOMAIN jr : Len(k) >= 1 /\ Proper(jr, k)
    /\ \A k, l \in DOMAIN jr : Len(k) = Len(l) => k = l
    /\ \A k \in DOMAIN jr : \A n \in 1..Len(k) : \E l \in DOMAIN jr : Len(l) = n

\* A prompt put at the end of a key is its last.
LEMMA AppendIs ==
    ASSUME NEW S, NEW b \in Seq(S), NEW p
    PROVE  /\ Len(Append(b, p)) = Len(b) + 1 /\ Len(b) \in Nat /\ Last(Append(b, p)) = p
           /\ Append(b, p) # <<>>
<1> DEFINE k == Append(b, p)
<1>1. Len(k) = Len(b) + 1 /\ Len(b) \in Nat /\ k[Len(b) + 1] = p
  OBVIOUS
<1>2. k # <<>>
  BY <1>1
<1> HIDE DEF k
<1>3. Last(k) = p
  BY <1>1 DEF Last
<1> QED BY <1>1, <1>2, <1>3 DEF k

\* What the last prompt of a key says: its place in the sequence.
LEMMA ProperIs ==
    ASSUME NEW jr, Straight(jr), NEW k, Proper(jr, k)
    PROVE  /\ Len(k) \in Nat /\ Len(k) >= 1 /\ Last(k)[2] = Len(k) /\ k # <<>>
           /\ Len(k) = 1 => k = <<(<<1, 1, 0>>)>>
           /\ Len(k) # 1 => \E b \in DOMAIN jr : Len(b) = Len(k) - 1 /\ k = Append(b, <<1, Len(b) + 1, jr[b]>>)
<1>1. CASE k = <<(<<1, 1, 0>>)>>
  <2>1. Len(k) = 1 /\ k[1] = <<1, 1, 0>> /\ k # <<>>
    BY <1>1
  <2>2. Last(k)[2] = 1
    BY <2>1 DEF Last
  <2> QED BY <1>1, <2>1, <2>2
<1>2. ASSUME NEW b \in DOMAIN jr, k = Append(b, <<1, Len(b) + 1, jr[b]>>)
      PROVE  Len(k) \in Nat /\ Len(k) >= 2 /\ Last(k)[2] = Len(k) /\ Len(b) = Len(k) - 1 /\ k # <<>>
  <2>1. b \in Seq(Prompts) /\ Len(b) >= 1
    BY DEF Straight, Keys
  <2>2. PICK p : p = <<1, Len(b) + 1, jr[b]>>
    OBVIOUS
  <2>3. Len(k) = Len(b) + 1 /\ Len(b) \in Nat /\ Last(k) = p /\ k # <<>>
    BY <1>2, <2>1, <2>2, AppendIs
  <2>4. p[2] = Len(b) + 1
    BY <2>2
  <2> QED BY <2>1, <2>3, <2>4
<1>3. CASE k # <<(<<1, 1, 0>>)>>
  <2>1. PICK b \in DOMAIN jr : k = Append(b, <<1, Len(b) + 1, jr[b]>>)
    BY <1>3 DEF Proper
  <2>2. Len(k) \in Nat /\ Len(k) >= 2 /\ Last(k)[2] = Len(k) /\ Len(b) = Len(k) - 1 /\ k # <<>>
    BY <2>1, <1>2
  <2> QED BY <2>1, <2>2
<1> QED BY <1>1, <1>3

\* There is one proper key of a length.
LEMMA OneProperKey ==
    ASSUME NEW jr, Straight(jr), NEW k, Proper(jr, k), NEW l, Proper(jr, l), Len(k) = Len(l)
    PROVE  k = l
<1>1. CASE Len(k) = 1
  BY <1>1, ProperIs
<1>2. CASE Len(k) # 1
  <2>0. \A x : Proper(jr, x) /\ Len(x) # 1 =>
                \E b \in DOMAIN jr : Len(b) = Len(x) - 1 /\ x = Append(b, <<1, Len(b) + 1, jr[b]>>)
    BY ProperIs
  <2>1. PICK b \in DOMAIN jr : Len(b) = Len(k) - 1 /\ k = Append(b, <<1, Len(b) + 1, jr[b]>>)
    BY <1>2, <2>0
  <2>2. PICK c \in DOMAIN jr : Len(c) = Len(k) - 1 /\ l = Append(c, <<1, Len(c) + 1, jr[c]>>)
    BY <1>2, <2>0
  <2>3. b = c
    <3>1. \A x, y \in DOMAIN jr : Len(x) = Len(y) => x = y
      BY DEF Straight
    <3> QED BY <2>1, <2>2, <3>1
  <2> QED BY <2>1, <2>2, <2>3
<1> QED BY <1>1, <1>2

\* A proper key that is not on record is longer than all that are.
LEMMA MissedIsLongest ==
    ASSUME NEW jr, Straight(jr), NEW k, Proper(jr, k), k \notin DOMAIN jr, NEW l \in DOMAIN jr
    PROVE  Len(l) < Len(k)
<1>1. Len(k) \in Nat /\ Len(k) >= 1 /\ Proper(jr, l) /\ Len(l) \in Nat
  BY ProperIs DEF Straight
<1>2. ASSUME Len(l) >= Len(k) PROVE FALSE
  <2>1. PICK n \in 1..Len(l) : n = Len(k)
    BY <1>1, <1>2
  <2>2. PICK c \in DOMAIN jr : Len(c) = Len(k)
    BY <2>1 DEF Straight
  <2>3. Proper(jr, c)
    BY <2>2 DEF Straight
  <2>4. c = k
    BY <2>2, <2>3, OneProperKey
  <2> QED BY <2>2, <2>4
<1> QED BY <1>1, <1>2

\* A proper key is on record if one with the same last prompt is.
LEMMA SameLastSameKey ==
    ASSUME NEW jr, Straight(jr), NEW k, Proper(jr, k), NEW l \in DOMAIN jr, Last(k) = Last(l)
    PROVE  k = l
<1>1. Proper(jr, l)
  BY DEF Straight
<1>2. Len(k) = Last(k)[2] /\ Len(l) = Last(l)[2]
  BY <1>1, ProperIs
<1>3. Len(k) = Len(l)
  BY <1>2
<1> QED BY <1>1, <1>3, OneProperKey

\* The record of the next call keeps the journal straight.
LEMMA RecordKeepsStraight ==
    ASSUME NEW jr, Straight(jr), NEW k \in Keys, Proper(jr, k), NEW v \in Results,
           \A l \in DOMAIN jr : Len(l) < Len(k),
           NEW j2, DOMAIN j2 = DOMAIN jr \cup {k}, j2[k] = v, \A l \in DOMAIN jr : j2[l] = jr[l],
           j2 \in [DOMAIN j2 -> Results]
    PROVE  Straight(j2) /\ Proper(j2, k)
<1>1. \A l : Proper(jr, l) => Proper(j2, l)
  BY DEF Proper
<1>2. Len(k) \in Nat /\ Len(k) >= 1
  BY ProperIs
<1>3. \A l \in DOMAIN jr : l \in Keys /\ Len(l) \in Nat /\ Len(l) >= 1 /\ Len(l) < Len(k)
  <2>1. \A l \in Keys : Len(l) \in Nat
    BY DEF Keys
  <2> QED BY <2>1 DEF Straight
<1>4. \A a \in DOMAIN j2 : Len(a) >= 1 /\ Proper(j2, a)
  BY <1>1, <1>2 DEF Straight
<1>5. \A a, b \in DOMAIN j2 : Len(a) = Len(b) => a = b
  <2> SUFFICES ASSUME NEW a \in DOMAIN j2, NEW b \in DOMAIN j2, Len(a) = Len(b) PROVE a = b
    OBVIOUS
  <2>1. CASE a = k /\ b = k
    BY <2>1
  <2>2. CASE a = k /\ b \in DOMAIN jr
    BY <2>2, <1>2, <1>3
  <2>3. CASE a \in DOMAIN jr /\ b = k
    BY <2>3, <1>2, <1>3
  <2>4. CASE a \in DOMAIN jr /\ b \in DOMAIN jr
    BY <2>4 DEF Straight
  <2> QED BY <2>1, <2>2, <2>3, <2>4
<1>6. ASSUME NEW a \in DOMAIN j2, NEW n \in 1..Len(a)
      PROVE  \E l \in DOMAIN j2 : Len(l) = n
  <2>1. CASE a \in DOMAIN jr
    <3>1. PICK l \in DOMAIN jr : Len(l) = n
      BY <2>1 DEF Straight
    <3> QED BY <3>1
  <2>2. CASE a = k /\ n = Len(k)
    BY <2>2
  <2>3. CASE a = k /\ n # Len(k)
    <3>1. Len(k) # 1 /\ n \in 1..(Len(k) - 1)
      <4>1. n \in 1..Len(k)
        BY <2>3
      <4>2. n \in Nat /\ n >= 1 /\ n <= Len(k) /\ n # Len(k)
        BY <2>3, <4>1, <1>2
      <4>3. PICK c \in Nat : c = Len(k)
        BY <1>2
      <4>4. c # 1 /\ n \in 1..(c - 1)
        BY <4>2, <4>3
      <4> QED BY <4>3, <4>4
    <3>2. PICK b \in DOMAIN jr : Len(b) = Len(k) - 1
      BY <3>1, ProperIs
    <3>3. n \in 1..Len(b)
      BY <3>1, <3>2
    <3>4. PICK l \in DOMAIN jr : Len(l) = n
      BY <3>3 DEF Straight
    <3> QED BY <3>4
  <2> QED BY <2>1, <2>2, <2>3
<1>7. DOMAIN j2 \subseteq Keys
  BY <1>3
<1> QED BY <1>1, <1>4, <1>5, <1>6, <1>7 DEF Straight

-----------------------------------------------------------------------------
(* The journal of a fan-out: the keys list the items in order *)

FanKey(k) == \A j \in 1..Len(k) : k[j] = <<j, 1, 0>>

FanJournal(jr) == \A k \in DOMAIN jr : k \in Keys /\ k # <<>> /\ FanKey(k)

\* The next call of a fan-out lists one item more.
LEMMA FanGrows ==
    ASSUME NEW S, NEW k \in Seq(S), FanKey(k), NEW i, i = Len(k) + 1
    PROVE  FanKey(Append(k, <<i, 1, 0>>))
<1> DEFINE p == <<i, 1, 0>>
           a == Append(k, p)
<1>1. Len(a) = Len(k) + 1 /\ Len(k) \in Nat /\ a[Len(k) + 1] = p /\ \A j \in 1..Len(k) : a[j] = k[j]
  OBVIOUS
<1> HIDE DEF p, a
<1>2. \A j \in 1..Len(k) : k[j] = <<j, 1, 0>>
  BY DEF FanKey
<1>3. ASSUME NEW j \in 1..Len(a) PROVE a[j] = <<j, 1, 0>>
  <2>1. CASE j = i
    BY <2>1, <1>1 DEF p
  <2>2. CASE j # i
    <3>1. j \in 1..Len(k)
      BY <2>2, <1>1
    <3> QED BY <3>1, <1>1, <1>2
  <2> QED BY <2>1, <2>2
<1>4. FanKey(a)
  BY <1>3 DEF FanKey
<1> QED BY <1>4 DEF a, p

\* Two keys of a fan-out with the same last prompt are the same.
LEMMA FanSameKey ==
    ASSUME NEW k \in Keys, NEW l \in Keys, k # <<>>, l # <<>>, FanKey(k), FanKey(l), Last(k) = Last(l)
    PROVE  k = l
<1>1. k \in Seq(Prompts) /\ l \in Seq(Prompts) /\ Len(k) \in Nat /\ Len(l) \in Nat
      /\ Len(k) >= 1 /\ Len(l) >= 1
  BY DEF Keys
<1>2. Last(k) = <<Len(k), 1, 0>> /\ Last(l) = <<Len(l), 1, 0>>
  BY <1>1 DEF Last, FanKey
<1>3. Len(k) = Len(l)
  <2>1. <<Len(k), 1, 0>>[1] = Len(k) /\ <<Len(l), 1, 0>>[1] = Len(l)
    OBVIOUS
  <2> QED BY <1>2, <2>1
<1>4. \A j \in 1..Len(k) : k[j] = l[j]
  BY <1>3 DEF FanKey
<1> QED BY <1>1, <1>3, <1>4

-----------------------------------------------------------------------------
(* The order in which the continuations of the items are due *)

Ordered(q, A) == \A a, b \in DOMAIN q : a < b /\ q[b] \in A => q[a] \in A /\ q[a] < q[b]

\* When the first leaves, those of A after it are in order, and larger than it.
LEMMA OrderedTail ==
    ASSUME NEW S, NEW q \in Seq(S), q # <<>>, NEW A, Ordered(q, A)
    PROVE  Ordered(Tail(q), A) /\ \A j \in Elems(Tail(q)) : j \in A => Head(q) \in A /\ Head(q) < j
<1> DEFINE r == Tail(q)
<1>1. /\ Len(r) = Len(q) - 1 /\ DOMAIN r = 1..(Len(q) - 1) /\ Len(q) \in Nat /\ Len(q) > 0
      /\ DOMAIN q = 1..Len(q) /\ Head(q) = q[1]
  OBVIOUS
<1>2. \A a \in 1..(Len(q) - 1) : r[a] = q[a + 1]
  OBVIOUS
<1> HIDE DEF r
<1>3. ASSUME NEW a \in DOMAIN r, NEW b \in DOMAIN r, a < b, r[b] \in A
      PROVE  r[a] \in A /\ r[a] < r[b]
  <2>1. a + 1 \in DOMAIN q /\ b + 1 \in DOMAIN q /\ a + 1 < b + 1 /\ r[a] = q[a + 1] /\ r[b] = q[b + 1]
    BY <1>1, <1>2, <1>3
  <2> QED BY <2>1, <1>3 DEF Ordered
<1>4. ASSUME NEW j \in Elems(r), j \in A PROVE q[1] \in A /\ q[1] < j
  <2>1. PICK b \in DOMAIN r : j = r[b]
    BY DEF Elems
  <2>2. 1 \in DOMAIN q /\ b + 1 \in DOMAIN q /\ 1 < b + 1 /\ j = q[b + 1]
    BY <1>1, <1>2, <2>1
  <2> QED BY <2>2, <1>4 DEF Ordered
<1> QED BY <1>1, <1>3, <1>4 DEF Ordered, r

\* One that is not queued is nothing to the order.
LEMMA OrderedWithout ==
    ASSUME NEW q, NEW A, Ordered(q, A), NEW i, i \notin Elems(q)
    PROVE  Ordered(q, A \ {i})
BY DEF Ordered, Elems

\* One that is not of A may come last.
LEMMA OrderedAppend ==
    ASSUME NEW S, NEW q \in Seq(S), NEW A, Ordered(q, A), NEW x, x \notin A
    PROVE  Ordered(Append(q, x), A)
<1> DEFINE r == Append(q, x)
<1>1. /\ Len(q) \in Nat /\ DOMAIN r = 1..(Len(q) + 1) /\ DOMAIN q = 1..Len(q) /\ r[Len(q) + 1] = x
      /\ \A a \in 1..Len(q) : r[a] = q[a]
  OBVIOUS
<1> HIDE DEF r
<1>2. ASSUME NEW a \in DOMAIN r, NEW b \in DOMAIN r, a < b, r[b] \in A
      PROVE  r[a] \in A /\ r[a] < r[b]
  <2>1. b # Len(q) + 1
    BY <1>1, <1>2
  <2>2. a \in DOMAIN q /\ b \in DOMAIN q
    BY <2>1, <1>1, <1>2
  <2> QED BY <2>2, <1>1, <1>2 DEF Ordered
<1> QED BY <1>2 DEF Ordered, r

-----------------------------------------------------------------------------
(* What a script that asks in one order holds *)

AsksLine == ~script.nested /\ script.items = 1
AsksFan == ~script.nested /\ script.stages = 1

UnsettledPC == {"queued", "running", "writing", "erring"}

LineAt(jr, m) ==
    /\ m.pc[1] \in AskedPC =>
         m.key[1] = m.prevKey /\ Proper(jr, m.prevKey) /\ Len(m.prevKey) = m.stage[1]
    /\ m.pc[1] = "asking" => m.prevKey = <<>> /\ ~m.diverged
    /\ m.diverged /\ m.pc[1] \in AskedPC => \A l \in DOMAIN jr : Len(l) <= Len(m.prevKey)
    /\ m.pc[1] \in UnsettledPC => \A l \in DOMAIN jr : Len(l) < Len(m.prevKey)

FanAt(m) == FanKey(m.prevKey) /\ \A i \in Item : FanKey(m.key[i])

AsksAt(m) == {i \in Item : m.pc[i] = "asking"}

Lined(m) ==
    AsksAt(m) # {} =>
        /\ ~m.aborted /\ m.spent[Root] = 0 /\ m.agentCount[Root] = Len(m.prevKey)
        /\ AsksAt(m) \subseteq Elems(m.ready) /\ Ordered(m.ready, AsksAt(m))
        /\ m.agentCount[Root] < AgentCap => AsksAt(m) = {i \in Item : i > Len(m.prevKey)}

\* The last prompt of the next key is the one asked.
LEMMA LastOfNextKey ==
    ASSUME NEW m, MemType(m), NEW i \in Item
    PROVE  /\ Last(NextKey(m, i)) = Prompt(m, i) /\ Len(NextKey(m, i)) = Len(m.prevKey) + 1
           /\ Len(m.prevKey) \in Nat /\ NextKey(m, i) # <<>>
<1>1. m.prevKey \in Seq(Prompts)
  BY FieldTypes DEF Keys
<1> QED BY <1>1, AppendIs DEF NextKey

\* The first call that misses the journal is the one the history names.
LEMMA MissIs ==
    ASSUME NEW m, MemType(m), Undiverged(m), ~m.diverged, NEW i \in Item,
           m.pc[i] \in {"asking", "ready", "resolving"}, NEW d, MemType(d), Called(m, d, i)
    PROVE  Prompt(d, FirstAsked(d)) = Last(NextKey(m, i)) /\ NextKey(m, i) \notin DOMAIN journal
<1>1. PICK x \in {"queued", "running", "erring"} : Moves(m.pc, d.pc, i, x)
  BY DEF Called
<1>2. d.value = m.value /\ d.stage = m.stage /\ NextKey(m, i) \notin DOMAIN journal
  BY DEF Called
<1>3. Asking(d) = {i}
  <2>1. i \in Asking(d)
    BY <1>1 DEF Asking, Moves, Item
  <2>2. \A j \in Item : j # i => d.pc[j] \notin {"queued", "running", "erring"}
    BY <1>1 DEF Moves, Undiverged
  <2> QED BY <2>1, <2>2 DEF Asking, Item
<1>4. Len(d.key[i]) <= Len(d.key[i])
  BY KeyLengths
<1>5. FirstAsked(d) = i
  BY <1>3, <1>4 DEF FirstAsked
<1>6. Prompt(d, i) = Prompt(m, i)
  BY <1>2 DEF Prompt
<1> QED BY <1>2, <1>5, <1>6, LastOfNextKey

\* A call of a sequence has the proper next key, and a miss has no record.
LEMMA LineAgent ==
    ASSUME Sized, AsksLine, JournalType, Straight(journal), NEW m, Good(journal, m), LineAt(journal, m),
           NEW s, MemType(s), m.pc[1] \in {"asking", "ready"}, 1 \in Item,
           s.pc = m.pc, StagedFrom(m, s, 1), NEW d, MemType(d),
           Refused(s, d, 1) \/ Replayed(s, d, 1) \/ Called(s, d, 1)
    PROVE  /\ LineAt(journal, d)
           /\ NextKey(s, 1) \notin DOMAIN journal =>
                 Last(NextKey(s, 1)) \notin {Last(k) : k \in DOMAIN journal}
<1> DEFINE k == NextKey(s, 1)
<1>0. /\ MemType(m) /\ s.prevKey = m.prevKey /\ s.value = m.value /\ s.key = m.key /\ s.diverged = m.diverged
      /\ m.stage \in [Item -> Nat] /\ s.stage = [m.stage EXCEPT ![1] = m.stage[1] + 1]
      /\ s.key \in [Item -> Keys]
  BY FieldTypes DEF Good, StagedFrom
<1>1. s.stage[1] = m.stage[1] + 1 /\ m.stage[1] \in Nat
  BY <1>0
<1>2. k \in Keys /\ Len(k) = Len(m.prevKey) + 1 /\ Len(m.prevKey) \in Nat
      /\ k = Append(m.prevKey, <<1, m.stage[1] + 1, m.value[1]>>)
  <2>1. k = Append(m.prevKey, <<1, m.stage[1] + 1, m.value[1]>>)
    BY <1>0, <1>1 DEF NextKey, Prompt
  <2> HIDE DEF k
  <2>2. k \in Keys /\ Len(k) = Len(m.prevKey) + 1 /\ Len(m.prevKey) \in Nat
    BY <1>0, PromptType, LastOfNextKey DEF k
  <2> QED BY <2>1, <2>2
<1>3. Proper(journal, k) /\ Len(k) = m.stage[1] + 1
  <2>1. CASE m.pc[1] = "asking"
    <3>1. m.prevKey = <<>> /\ m.stage[1] = 0 /\ m.value[1] = 0
      BY <2>1 DEF LineAt, Good, Begin
    <3>2. k = <<(<<1, 1, 0>>)>>
      BY <3>1, <1>2
    <3>3. Len(k) = 1
      BY <3>2
    <3> QED BY <3>1, <3>2, <3>3 DEF Proper
  <2>2. CASE m.pc[1] = "ready"
    <3>1. m.key[1] = m.prevKey /\ Len(m.prevKey) = m.stage[1]
      BY <2>2 DEF LineAt, AskedPC
    <3>2. m.key[1] \in DOMAIN journal /\ journal[m.key[1]] = m.value[1]
      BY <2>2 DEF Good, Core, Seen
    <3>3. k = Append(m.prevKey, <<1, Len(m.prevKey) + 1, journal[m.prevKey]>>)
      BY <3>1, <3>2, <1>2
    <3> HIDE DEF k
    <3> QED BY <3>1, <3>2, <3>3, <1>2 DEF Proper
  <2> QED BY <2>1, <2>2
<1> HIDE DEF k
<1>4. k \notin DOMAIN journal => \A l \in DOMAIN journal : Len(l) < Len(k)
  BY <1>3, MissedIsLongest
<1>5. ASSUME NEW l \in DOMAIN journal, Last(k) = Last(l) PROVE k = l
  BY <1>3, <1>5, SameLastSameKey
<1>6. LineAt(journal, d)
  <2>1. CASE Refused(s, d, 1)
    <3>1. d.pc[1] = "null"
      BY <2>1 DEF Refused, Moves
    <3> QED BY <3>1 DEF LineAt, AskedPC, UnsettledPC
  <2>2. CASE Replayed(s, d, 1)
    <3>1. d.pc[1] = "ready" /\ d.prevKey = k /\ d.key[1] = k /\ ~d.diverged /\ d.stage[1] = m.stage[1] + 1
      BY <2>2, <1>0, <1>1 DEF Replayed, Moves, k
    <3> QED BY <3>1, <1>3 DEF LineAt, AskedPC, UnsettledPC
  <2>3. CASE Called(s, d, 1)
    <3>1. d.pc[1] \in {"queued", "running", "erring"} /\ d.prevKey = k /\ d.key[1] = k
          /\ d.stage[1] = m.stage[1] + 1 /\ (s.diverged \/ k \notin DOMAIN journal)
      BY <2>3, <1>0, <1>1 DEF Called, Moves, k
    <3>2. \A l \in DOMAIN journal : Len(l) < Len(k) /\ Len(l) \in Nat
      <4>1. \A l \in DOMAIN journal : Len(l) \in Nat
        BY ProperIs DEF Straight
      <4>2. CASE m.diverged
        <5>1. m.pc[1] = "ready"
          BY <4>2 DEF LineAt
        <5>2. \A l \in DOMAIN journal : Len(l) <= Len(m.prevKey)
          BY <4>2, <5>1 DEF LineAt, AskedPC
        <5> QED BY <4>1, <5>2, <1>2
      <4>3. CASE ~m.diverged
        BY <4>1, <4>3, <3>1, <1>0, <1>4
      <4> QED BY <4>2, <4>3
    <3>3. \A l \in DOMAIN journal : Len(l) <= Len(k)
      BY <3>2, <1>2
    <3> QED BY <3>1, <3>2, <3>3, <1>3 DEF LineAt, AskedPC, UnsettledPC
  <2> QED BY <2>1, <2>2, <2>3
<1>7. k \notin DOMAIN journal => Last(k) \notin {Last(l) : l \in DOMAIN journal}
  BY <1>5
<1> QED BY <1>6, <1>7 DEF k

\* Steps that make no call leave the sequence as it is.
LEMMA LineKeeps ==
    ASSUME NEW jr, NEW m, LineAt(jr, m), NEW d, d.key = m.key, d.prevKey = m.prevKey,
           d.stage = m.stage, d.diverged = m.diverged,
           d.pc[1] \in AskedPC => m.pc[1] \in AskedPC,
           d.pc[1] \in UnsettledPC => m.pc[1] \in UnsettledPC,
           d.pc[1] = "asking" => m.pc[1] = "asking"
    PROVE  LineAt(jr, d)
BY DEF LineAt

\* The record of a call of a sequence.
LEMMA LineRecord ==
    ASSUME NEW jr, Straight(jr), NEW m, MemType(m), LineAt(jr, m), 1 \in Item, m.pc[1] = "writing",
           m.value[1] \in Results,
           NEW d, d.key = m.key, d.prevKey = m.prevKey, d.stage = m.stage, d.diverged = m.diverged,
           d.pc[1] = "ready"
    PROVE  Straight(Recorded(jr, m, 1)) /\ LineAt(Recorded(jr, m, 1), d)
<1> DEFINE k == m.prevKey
           j2 == Recorded(jr, m, 1)
<1>1. m.key[1] = k /\ Proper(jr, k) /\ Len(k) = m.stage[1] /\ \A l \in DOMAIN jr : Len(l) < Len(k)
  BY DEF LineAt, AskedPC, UnsettledPC
<1>2. k \in Keys /\ Len(k) \in Nat
  BY KeyLengths
<1>3. k \notin DOMAIN jr
  BY <1>1, <1>2
<1>4. DOMAIN j2 = DOMAIN jr \cup {k} /\ j2[k] = m.value[1] /\ \A l \in DOMAIN jr : j2[l] = jr[l]
  BY <1>1, <1>3 DEF Recorded
<1>5. j2 \in [DOMAIN j2 -> Results]
  <2>1. \A l \in DOMAIN j2 : j2[l] \in Results
    BY <1>4 DEF Straight
  <2> QED BY <2>1 DEF Recorded
<1> HIDE DEF k, j2
<1>6. Straight(j2) /\ Proper(j2, k)
  BY <1>1, <1>2, <1>4, <1>5, RecordKeepsStraight
<1>7. \A l \in DOMAIN j2 : Len(l) <= Len(k)
  <2>1. \A l \in DOMAIN jr : Len(l) \in Nat
    BY ProperIs DEF Straight
  <2> QED BY <2>1, <1>1, <1>2, <1>4
<1>8. LineAt(j2, d)
  BY <1>1, <1>6, <1>7 DEF LineAt, AskedPC, UnsettledPC, k
<1> QED BY <1>6, <1>8 DEF j2

\* Only the first continuations of a fan-out have items that ask.
LEMMA FanHead ==
    ASSUME NEW m, MemType(m), Lined(m), m.ready # <<>>, m.pc[Head(m.ready)] # "asking"
    PROVE  AsksAt(m) = {}
<1>1. m.ready \in Seq(Item)
  BY FieldTypes
<1>2. ASSUME NEW j \in AsksAt(m) PROVE FALSE
  <2>1. Ordered(m.ready, AsksAt(m)) /\ j \in Elems(m.ready)
    BY <1>2 DEF Lined
  <2>2. PICK b \in DOMAIN m.ready : j = m.ready[b]
    BY <2>1 DEF Elems
  <2>3. Head(m.ready) = m.ready[1] /\ 1 \in DOMAIN m.ready /\ b \in Nat /\ b >= 1
    BY <1>1, <2>2
  <2>4. m.pc[j] = "asking"
    BY DEF AsksAt
  <2>5. b # 1
    BY <2>2, <2>3, <2>4
  <2>6. m.ready[1] \in AsksAt(m)
    BY <2>1, <2>2, <2>3, <2>5 DEF Ordered
  <2> QED BY <2>3, <2>6 DEF AsksAt
<1> QED BY <1>2

\* Once every item has been called none becomes uncalled.
LEMMA NoneAsks ==
    ASSUME NEW m, AsksAt(m) = {}, NEW d, \A j \in Item : d.pc[j] = "asking" => m.pc[j] = "asking"
    PROVE  AsksAt(d) = {} /\ Lined(d)
BY DEF AsksAt, Lined

\* An item not yet called is due: with an empty queue there is none.
LEMMA NobodyDue ==
    ASSUME NEW m, Lined(m), m.ready = <<>>
    PROVE  AsksAt(m) = {}
<1>1. Elems(<<>>) = {}
  BY DEF Elems
<1> QED BY <1>1 DEF Lined

\* A call of a fan-out lists one item more, and a miss has no record.
LEMMA FanAgent ==
    ASSUME Sized, AsksFan, JournalType, FanJournal(journal), NEW m, Good(journal, m), FanAt(m), Lined(m),
           NEW i, Due(m, i), m.pc[i] = "asking",
           NEW s, MemType(s), s.pc = m.pc, StagedFrom(m, s, i), NEW d, MemType(d),
           Refused(s, d, i) \/ Replayed(s, d, i) \/ Called(s, d, i)
    PROVE  /\ FanAt(d) /\ Lined(d)
           /\ ~Refused(s, d, i) /\ NextKey(s, i) \notin DOMAIN journal =>
                 Last(NextKey(s, i)) \notin {Last(k) : k \in DOMAIN journal}
<1> DEFINE k == NextKey(s, i)
           A == AsksAt(m)
           q == Tail(m.ready)
           n == m.agentCount[Root]
<1>0. /\ MemType(m) /\ s.prevKey = m.prevKey /\ s.value = m.value /\ s.key = m.key /\ s.diverged = m.diverged
      /\ s.aborted = m.aborted /\ s.spent = m.spent /\ s.agentCount = m.agentCount /\ s.ready = q
      /\ m.stage \in [Item -> Nat] /\ s.stage = [m.stage EXCEPT ![i] = m.stage[i] + 1]
      /\ m.key \in [Item -> Keys] /\ m.ready \in Seq(Item) /\ m.ready # <<>> /\ i = Head(m.ready)
      /\ ReadyOK(m)
  BY FieldTypes DEF Good, Core, StagedFrom, Due
<1>1. /\ q \in Seq(Item) /\ i \in Item /\ Elems(q) = Elems(m.ready) \ {i}
  BY <1>0, LeavesQueue DEF ReadyOK
<1>2. i \in A /\ A # {}
  BY <1>1 DEF AsksAt
<1>3. /\ ~m.aborted /\ m.spent[Root] = 0 /\ n = Len(m.prevKey)
      /\ A \subseteq Elems(m.ready) /\ Ordered(m.ready, A)
      /\ n < AgentCap => A = {j \in Item : j > Len(m.prevKey)}
  BY <1>2 DEF Lined
<1>4. Ordered(q, A) /\ \A j \in Elems(q) : j \in A => i < j
  BY <1>0, <1>3, OrderedTail
<1>5. Ordered(q, A \ {i}) /\ A \ {i} \subseteq Elems(q)
  <2>1. i \notin Elems(q)
    BY <1>1
  <2> QED BY <2>1, <1>1, <1>3, <1>4, OrderedWithout
<1>6. m.stage[i] = 0 /\ m.value[i] = 0 /\ s.stage[i] = 1
  BY <1>0, <1>1 DEF Good, Begin
<1>7. Frame(i) = Root /\ Root \in Frames
  BY DEF AsksFan, Frame, Root, Frames, Sized
<1>8. Len(m.prevKey) \in Nat /\ m.prevKey \in Seq(Prompts) /\ n \in Nat /\ AgentCap \in Nat
  BY <1>0, <1>3, KeyLengths, BoundsAssumption DEF Keys
<1>9. checkCaps(s, Root) <=> n >= AgentCap
  <2>1. ~budgetExhausted(s, Root)
    BY <1>0, <1>3 DEF budgetExhausted, Sized
  <2> QED BY <2>1, <1>0, <1>3 DEF checkCaps
<1>10. AsksAt(d) = A \ {i} /\ d.pc[i] # "asking" /\ d.aborted = m.aborted /\ d.spent = m.spent
  <2>1. CASE Refused(s, d, i)
    BY <2>1, <1>0 DEF Refused, Moves, AsksAt, Kept
  <2>2. CASE Replayed(s, d, i)
    BY <2>2, <1>0 DEF Replayed, Moves, AsksAt
  <2>3. CASE Called(s, d, i)
    BY <2>3, <1>0 DEF Called, Moves, AsksAt
  <2> QED BY <2>1, <2>2, <2>3
<1>11. CASE Refused(s, d, i)
  <2>1. /\ n >= AgentCap /\ d.prevKey = m.prevKey /\ d.key = m.key /\ d.ready = q
        /\ d.agentCount = m.agentCount
    BY <1>0, <1>7, <1>9, <1>11 DEF Refused, Kept
  <2>2. FanAt(d)
    BY <2>1 DEF FanAt
  <2> HIDE DEF A, q
  <2>3. ~(n < AgentCap)
    BY <2>1, <1>8
  <2>4. Lined(d)
    BY <2>1, <2>3, <1>3, <1>5, <1>10 DEF Lined
  <2> QED BY <2>2, <2>4, <1>11
<1>12. CASE Replayed(s, d, i) \/ Called(s, d, i)
  <2>1. /\ ~(n >= AgentCap) /\ d.prevKey = k /\ d.key = [m.key EXCEPT ![i] = k]
        /\ (d.ready = q \/ d.ready = Append(q, i))
        /\ d.agentCount = [m.agentCount EXCEPT ![Root] = n + 1]
    <3>1. CASE Replayed(s, d, i)
      BY <1>0, <1>7, <1>9, <3>1 DEF Replayed
    <3>2. CASE Called(s, d, i)
      BY <1>0, <1>7, <1>9, <3>2 DEF Called
    <3> QED BY <3>1, <3>2, <1>12
  <2>2. n < AgentCap /\ A = {j \in Item : j > Len(m.prevKey)}
    BY <2>1, <1>3, <1>8
  <2>3. i = Len(m.prevKey) + 1
    <3>1. i > Len(m.prevKey) /\ i \in Nat /\ i <= script.items
      BY <1>1, <1>2, <2>2 DEF Item, ItemsOf
    <3>2. ASSUME i # Len(m.prevKey) + 1 PROVE FALSE
      <4>1. PICK j \in Item : j = Len(m.prevKey) + 1
        BY <3>1, <3>2, <1>8 DEF Item, ItemsOf, Sized
      <4>2. j \in A /\ j < i /\ j # i
        BY <4>1, <3>1, <3>2, <2>2, <1>8
      <4>3. j \in Elems(q)
        BY <4>2, <1>5
      <4>4. i < j
        BY <4>2, <4>3, <1>4
      <4> QED BY <4>1, <4>2, <4>4, <3>1, <1>8
    <3> QED BY <3>2
  <2>4. k = Append(m.prevKey, <<i, 1, 0>>)
    BY <1>0, <1>6 DEF NextKey, Prompt
  <2>5. FanKey(k)
    BY <2>3, <2>4, <1>8, FanGrows DEF FanAt
  <2>6. k \in Keys /\ k # <<>> /\ Len(k) = Len(m.prevKey) + 1
    BY <1>0, <1>1, PromptType, LastOfNextKey
  <2> HIDE DEF k
  <2>7. FanAt(d)
    BY <2>1, <2>5, <1>0 DEF FanAt
  <2>8. k \notin DOMAIN journal => Last(k) \notin {Last(l) : l \in DOMAIN journal}
    BY <2>5, <2>6, FanSameKey DEF FanJournal
  <2>9. Lined(d)
    <3>1. AsksAt(d) = {j \in Item : j > Len(d.prevKey)}
      <4>1. \A j \in Item : j \in Nat
        BY DEF Item, ItemsOf
      <4> QED BY <4>1, <2>1, <2>2, <2>3, <2>6, <1>8, <1>10
    <3>2. d.agentCount[Root] = Len(d.prevKey)
      <4>1. m.agentCount \in [Frames -> Nat]
        BY <1>0, FieldTypes
      <4> QED BY <4>1, <2>1, <2>6, <1>3, <1>7
    <3> HIDE DEF A, q, n
    <3>3. Ordered(d.ready, AsksAt(d)) /\ AsksAt(d) \subseteq Elems(d.ready)
      <4>1. CASE d.ready = q
        BY <4>1, <1>5, <1>10
      <4>2. CASE d.ready = Append(q, i)
        <5>1. Ordered(Append(q, i), A \ {i})
          BY <1>1, <1>5, OrderedAppend
        <5>2. Elems(q) \subseteq Elems(Append(q, i))
          <6>1. Len(q) \in Nat /\ DOMAIN q = 1..Len(q) /\ DOMAIN Append(q, i) = 1..(Len(q) + 1)
                /\ \A a \in 1..Len(q) : Append(q, i)[a] = q[a]
            BY <1>1
          <6> QED BY <6>1 DEF Elems
        <5> QED BY <4>2, <5>1, <5>2, <1>5, <1>10
      <4> QED BY <4>1, <4>2, <2>1
    <3> QED BY <3>1, <3>2, <3>3, <1>3, <1>10 DEF Lined
  <2> QED BY <2>7, <2>8, <2>9 DEF k
<1> QED BY <1>11, <1>12

\* A step that makes no call and starts no item.
Quiet(m, d) ==
    /\ d.key = m.key /\ d.prevKey = m.prevKey /\ d.stage = m.stage /\ d.diverged = m.diverged
    /\ \A j \in Item : /\ d.pc[j] \in AskedPC => m.pc[j] \in AskedPC
                       /\ d.pc[j] \in UnsettledPC => m.pc[j] \in UnsettledPC
                       /\ d.pc[j] \in {"asking", "resolving"} => d.pc[j] = m.pc[j]

\* A step of one item that neither asks nor enters a stage is quiet.
LEMMA QuietWhere ==
    ASSUME NEW m, NEW d, NEW i, NEW x, Moves(m.pc, d.pc, i, x),
           x \in AskedPC => m.pc[i] \in AskedPC, x \in UnsettledPC => m.pc[i] \in UnsettledPC,
           x \notin {"asking", "resolving"},
           d.key = m.key, d.prevKey = m.prevKey, d.stage = m.stage, d.diverged = m.diverged
    PROVE  Quiet(m, d)
<1>1. d.pc[i] = x /\ \A j \in Item : j # i => d.pc[j] = m.pc[j]
  BY DEF Moves
<1>2. \A j \in Item : /\ d.pc[j] \in AskedPC => m.pc[j] \in AskedPC
                      /\ d.pc[j] \in UnsettledPC => m.pc[j] \in UnsettledPC
                      /\ d.pc[j] \in {"asking", "resolving"} => d.pc[j] = m.pc[j]
  BY <1>1
<1> QED BY <1>2 DEF Quiet

\* An answer is quiet.
LEMMA QuietSettles ==
    ASSUME Sized, NEW m, MemType(m), NEW i \in Item, m.pc[i] = "running", NEW v \in Results
    PROVE  Quiet(m, Answered(m, i, v))
<1>1. m.spent \in [Frames -> Nat] /\ Frame(i) \in Frames /\ m.pc \in [Item -> PCs]
  BY FieldTypes, FrameIsFrame
<1>2. "writing" \in PCs
  BY DEF PCs
<1>3. PICK n \in Nat : n = m.spent[Frame(i)] + 1
  BY <1>1
<1>4. PICK d : d = [m EXCEPT !.pc[i] = "writing", !.value[i] = v, !.spent[Frame(i)] = n]
  OBVIOUS
<1>5. d = Answered(m, i, v)
  BY <1>1, <1>3, <1>4 DEF Answered, MemType
<1>6. /\ d.pc = [m.pc EXCEPT ![i] = "writing"]
      /\ d.key = m.key /\ d.prevKey = m.prevKey /\ d.diverged = m.diverged /\ d.stage = m.stage
  BY <1>4 DEF MemType
<1>7. Moves(m.pc, d.pc, i, "writing")
  BY <1>1, <1>2, <1>6 DEF Moves
<1>8. Quiet(m, d)
  BY <1>6, <1>7, QuietWhere DEF AskedPC, UnsettledPC
<1> QED BY <1>5, <1>8

\* A failure is quiet.
LEMMA QuietFails ==
    ASSUME Sized, NEW m, MemType(m), NEW i \in Item, m.pc[i] = "running"
    PROVE  Quiet(m, Failed(m, i))
<1>1. m.pc \in [Item -> PCs] /\ "erring" \in PCs
  BY FieldTypes DEF PCs
<1>2. PICK e : e = Failed(m, i)
  OBVIOUS
<1>3. /\ e.pc = [m.pc EXCEPT ![i] = "erring"]
      /\ e.key = m.key /\ e.prevKey = m.prevKey /\ e.diverged = m.diverged /\ e.stage = m.stage
  BY <1>2 DEF MemType, Failed
<1>4. Moves(m.pc, e.pc, i, "erring")
  BY <1>1, <1>3 DEF Moves
<1>5. Quiet(m, e)
  BY <1>3, <1>4, QuietWhere DEF AskedPC, UnsettledPC
<1> QED BY <1>2, <1>5

\* An abort is quiet.
LEMMA QuietAborts ==
    ASSUME NEW m, MemType(m)
    PROVE  Quiet(m, AbortedMem(m))
BY DEF Quiet, AbortedMem, MemType

\* What a release adds to a quiet step.
LEMMA QuietRelease ==
    ASSUME NEW m, NEW c, Quiet(m, c), NEW d, Kept(c, d), Woken(c.pc, d.pc)
    PROVE  Quiet(m, d)
<1>1. \A j \in Item : \/ d.pc[j] = c.pc[j]
                      \/ c.pc[j] = "queued" /\ d.pc[j] \in {"running", "erring"}
  BY DEF Woken
<1>2. \A j \in Item : /\ d.pc[j] \in AskedPC => c.pc[j] \in AskedPC
                      /\ d.pc[j] \in UnsettledPC => c.pc[j] \in UnsettledPC
                      /\ d.pc[j] \in {"asking", "resolving"} => d.pc[j] = c.pc[j]
  BY <1>1 DEF AskedPC, UnsettledPC
<1> QED BY <1>2 DEF Quiet, Kept

\* The end of a call is quiet, and a call put on record is ready to go on.
LEMMA QuietEnds ==
    ASSUME Sized, NEW m, MemType(m), SlotsAll(m), NEW i \in Item, m.pc[i] \in HoldPC
    PROVE  /\ Quiet(m, release(drop(m, i), i))
           /\ Quiet(m, release(return(m, i, m.value[i]), i))
           /\ m.pc[i] = "writing" => release(return(m, i, m.value[i]), i).pc[i] = "ready"
<1>1. m.pc \in [Item -> PCs] /\ m.ready \in Seq(Item) /\ m.value \in [Item -> Vals]
  BY FieldTypes
<1>2. "null" \in PCs /\ "null" \in Outside /\ "ready" \in PCs /\ "ready" \in Outside
      /\ m.pc[i] \in AskedPC
  BY DEF PCs, Outside, HoldPC, AskedPC
<1>3. Quiet(m, release(drop(m, i), i))
  <2>1. PICK d : d = drop(m, i)
    OBVIOUS
  <2>2. /\ MemType(d) /\ d.pc = [m.pc EXCEPT ![i] = "null"] /\ d.active = m.active /\ d.queue = m.queue
        /\ d.spent = m.spent
        /\ d.key = m.key /\ d.prevKey = m.prevKey /\ d.diverged = m.diverged /\ d.stage = m.stage
    BY <1>2, <2>1 DEF MemType, drop
  <2>3. Moves(m.pc, d.pc, i, "null")
    BY <1>1, <1>2, <2>2 DEF Moves
  <2>4. Quiet(m, d)
    BY <2>2, <2>3, QuietWhere DEF AskedPC, UnsettledPC
  <2>5. Kept(d, release(d, i)) /\ Woken(d.pc, release(d, i).pc)
    BY <1>2, <2>2, <2>3, ReleaseIs
  <2> QED BY <2>1, <2>4, <2>5, QuietRelease
<1>4. /\ Quiet(m, release(return(m, i, m.value[i]), i))
      /\ release(return(m, i, m.value[i]), i).pc[i] = "ready"
  <2> DEFINE v == m.value[i]
             r2 == Append(m.ready, i)
  <2>1. PICK d : d = return(m, i, v)
    OBVIOUS
  <2>2. r2 \in Seq(Item) /\ v \in Vals
    BY <1>1
  <2>3. d = [m EXCEPT !.pc[i] = "ready", !.value[i] = v, !.ready = r2]
    BY <2>1 DEF return, MemType
  <2> HIDE DEF r2, v
  <2>4. /\ MemType(d) /\ d.pc = [m.pc EXCEPT ![i] = "ready"] /\ d.active = m.active /\ d.queue = m.queue
        /\ d.spent = m.spent
        /\ d.key = m.key /\ d.prevKey = m.prevKey /\ d.diverged = m.diverged /\ d.stage = m.stage
    BY <1>2, <2>2, <2>3 DEF MemType
  <2>5. Moves(m.pc, d.pc, i, "ready")
    BY <1>1, <1>2, <2>4 DEF Moves
  <2>6. Quiet(m, d)
    BY <1>2, <2>4, <2>5, QuietWhere DEF UnsettledPC
  <2>7. Kept(d, release(d, i)) /\ Woken(d.pc, release(d, i).pc)
    BY <1>2, <2>4, <2>5, ReleaseIs
  <2>8. Quiet(m, release(d, i))
    BY <2>6, <2>7, QuietRelease
  <2>9. release(d, i).pc[i] = "ready"
    BY <2>5, <2>7 DEF Woken, Moves
  <2> QED BY <2>1, <2>8, <2>9 DEF v
<1> QED BY <1>3, <1>4

-----------------------------------------------------------------------------
(* The order of the calls, as an invariant of a run *)

\* An item of a fan-out has entered its one stage once it has been called.
FirstStage(m) == \A i \in Item : m.pc[i] # "asking" => m.stage[i] = 1

POrd(jr, m, out, pd, fm) ==
    /\ pd \subseteq {Last(k) : k \in DOMAIN jr}
    /\ ~script.nested => \A i \in Item : m.pc[i] # "resolving"
    /\ AsksLine \/ AsksFan => (fm # NoPrompt => fm \notin pd)
    /\ AsksLine => Straight(jr) /\ LineAt(jr, m)
    /\ AsksFan => FanJournal(jr) /\ FanAt(m) /\ FirstStage(m) /\ (out = "running" => Lined(m))

\* A quiet step, with nothing put on record, keeps the order.
LEMMA QuietKeepsOrder ==
    ASSUME NEW jr, NEW m, NEW pd, NEW fm, POrd(jr, m, "running", pd, fm),
           AsksFan => AsksAt(m) = {},
           NEW d, Quiet(m, d)
    PROVE  POrd(jr, d, "running", pd, fm)
<1>1. AsksLine => LineAt(jr, d)
  <2> SUFFICES ASSUME AsksLine PROVE LineAt(jr, d)
    OBVIOUS
  <2>1. LineAt(jr, m) /\ 1 \in Item
    BY DEF POrd, AsksLine, Item, ItemsOf
  <2>2. /\ d.key = m.key /\ d.prevKey = m.prevKey /\ d.stage = m.stage /\ d.diverged = m.diverged
        /\ d.pc[1] \in AskedPC => m.pc[1] \in AskedPC
        /\ d.pc[1] \in UnsettledPC => m.pc[1] \in UnsettledPC
        /\ d.pc[1] = "asking" => m.pc[1] = "asking"
    BY <2>1 DEF Quiet
  <2> QED BY <2>1, <2>2, LineKeeps
<1>2. AsksFan => FanAt(d)
  BY DEF POrd, FanAt, Quiet
<1>3. AsksFan => Lined(d)
  BY NoneAsks DEF Quiet
<1>5. AsksFan => FirstStage(d)
  BY DEF POrd, FirstStage, Quiet, AsksAt
<1>4. ~script.nested => \A i \in Item : d.pc[i] # "resolving"
  BY DEF POrd, Quiet
<1> QED BY <1>1, <1>2, <1>3, <1>4, <1>5 DEF POrd

\* The record of a result keeps it too.
LEMMA RecordKeepsOrder ==
    ASSUME Sized, NEW jr, NEW m, NEW pd, NEW fm, POrd(jr, m, "running", pd, fm),
           AsksFan => AsksAt(m) = {},
           Good(jr, m), NEW i \in Item, m.pc[i] = "writing",
           NEW d, Quiet(m, d), d.pc[i] = "ready"
    PROVE  POrd(Recorded(jr, m, i), d, "running", pd, fm)
<1> DEFINE j2 == Recorded(jr, m, i)
<1>1. DOMAIN j2 = DOMAIN jr \cup {m.key[i]}
  BY DEF Recorded
<1>2. MemType(m) /\ m.value[i] \in Results /\ m.key[i] \in Keys /\ m.key[i] # <<>>
  BY FieldTypes DEF Good, Core, Written, Apart, AskedPC
<1>3. POrd(jr, d, "running", pd, fm)
  BY QuietKeepsOrder
<1>4. pd \subseteq {Last(k) : k \in DOMAIN j2}
  BY <1>1, <1>3 DEF POrd
<1>5. AsksLine => Straight(j2) /\ LineAt(j2, d)
  <2> SUFFICES ASSUME AsksLine PROVE Straight(j2) /\ LineAt(j2, d)
    OBVIOUS
  <2>1. i = 1
    BY DEF AsksLine, Item, ItemsOf
  <2> QED BY <2>1, <1>2, LineRecord DEF POrd, Quiet
<1>6. AsksFan => FanJournal(j2)
  BY <1>1, <1>2 DEF POrd, FanJournal, FanAt
<1> HIDE DEF j2
<1>7. POrd(j2, d, "running", pd, fm)
  BY <1>3, <1>4, <1>5, <1>6 DEF POrd
<1> QED BY <1>7 DEF j2

\* Every item is to enter its first stage, in order, and no call has been made.
LEMMA StartKeepsOrder ==
    ASSUME Sized, NEW jr, NEW m, NEW out, NEW pd, NEW fm, POrd(jr, m, out, pd, fm)
    PROVE  /\ POrd(jr, pipeline(script), "running", {Last(k) : k \in DOMAIN jr}, NoPrompt)
           /\ POrd(jr, Fresh(script), "crashed", pd, fm)
<1>1. PICK d : d = pipeline(script)
  OBVIOUS
<1>2. PICK e : e = Fresh(script)
  OBVIOUS
<1>3. /\ \A i \in Item : d.pc[i] = "asking" /\ d.stage[i] = 0 /\ d.key[i] = <<>>
      /\ d.ready = [i \in Item |-> i] /\ d.prevKey = <<>> /\ ~d.diverged /\ ~d.aborted
      /\ d.spent[Root] = 0 /\ d.agentCount[Root] = 0
  BY <1>1 DEF pipeline, Fresh, Item, Root, Sized
<1>4. /\ \A i \in Item : e.pc[i] = "asking" /\ e.stage[i] = 0 /\ e.key[i] = <<>>
      /\ e.prevKey = <<>> /\ ~e.diverged
  BY <1>2 DEF Fresh, Item
<1>5. ~script.nested => \A i \in Item : d.pc[i] # "resolving" /\ e.pc[i] # "resolving"
  BY <1>3, <1>4
<1>6. AsksLine => LineAt(jr, d) /\ LineAt(jr, e)
  <2>1. AsksLine => 1 \in Item
    BY DEF AsksLine, Item, ItemsOf
  <2> QED BY <2>1, <1>3, <1>4 DEF LineAt, AskedPC, UnsettledPC
<1>7. FanAt(d) /\ FanAt(e) /\ FirstStage(d) /\ FirstStage(e)
  <2>1. FanKey(<<>>)
    BY DEF FanKey
  <2> QED BY <2>1, <1>3, <1>4 DEF FanAt, FirstStage
<1>8. Lined(d)
  <2>1. AsksAt(d) = Item
    BY <1>3 DEF AsksAt
  <2>2. \A a \in Item : a \in Int /\ a > 0
    BY DEF Item, ItemsOf
  <2>3. Ordered(d.ready, Item) /\ Item = Elems(d.ready)
    BY <1>3, <2>2 DEF Ordered, Elems
  <2>4. Len(d.prevKey) = 0
    BY <1>3
  <2>5. Item = {i \in Item : i > 0}
    BY <2>2
  <2> QED BY <1>3, <2>1, <2>3, <2>4, <2>5 DEF Lined
<1>9. POrd(jr, d, "running", {Last(k) : k \in DOMAIN jr}, NoPrompt)
  BY <1>3, <1>5, <1>6, <1>7, <1>8 DEF POrd
<1>10. POrd(jr, e, "crashed", pd, fm)
  BY <1>4, <1>5, <1>6, <1>7 DEF POrd
<1> QED BY <1>1, <1>2, <1>9, <1>10

\* Once the run has ended nothing is asked.
LEMMA EndKeepsOrder ==
    ASSUME NEW jr, NEW m, NEW pd, NEW fm, POrd(jr, m, "running", pd, fm), NEW out, out # "running"
    PROVE  POrd(jr, m, out, pd, fm)
BY DEF POrd

\* What the history says of the first miss after a step (Becomes).
Missed(m, d, fm) == IF m.diverged \/ ~d.diverged THEN fm ELSE Prompt(d, FirstAsked(d))

\* A continuation that calls an agent of the root: the item's next stage.
LEMMA StageKeepsOrder ==
    ASSUME Sized, JournalType, ~script.nested, NEW m, NEW pd, NEW fm,
           POrd(journal, m, "running", pd, fm), Good(journal, m),
           NEW i, Due(m, i), m.stage[i] # script.stages
    PROVE  POrd(journal, agent(Staged(m, i), i), "running", pd, Missed(m, agent(Staged(m, i), i), fm))
<1>1. PICK s : s = Staged(m, i)
  OBVIOUS
<1>2. /\ i \in Item /\ m.pc[i] \in {"asking", "ready"} /\ s.pc = m.pc /\ MemType(s) /\ SlotsAll(s)
      /\ Core(journal, s) /\ StagedFrom(m, s, i)
  BY <1>1, StagedIs
<1>3. PICK d : d = agent(s, i)
  OBVIOUS
<1>4. MemType(d) /\ (Refused(s, d, i) \/ Replayed(s, d, i) \/ Called(s, d, i))
  <2>1. m.pc[i] \in Outside
    BY <1>2 DEF Outside
  <2> QED BY <2>1, <1>2, <1>3, AgentIs
<1>5. /\ s.diverged = m.diverged /\ MemType(m) /\ s.stage = [m.stage EXCEPT ![i] = m.stage[i] + 1]
      /\ m.stage \in [Item -> Nat]
  BY <1>2, FieldTypes DEF StagedFrom, Good
<1>6. \A j \in Item : d.pc[j] # "resolving"
  <2>1. \A j \in Item : s.pc[j] # "resolving"
    BY <1>2 DEF POrd
  <2>2. PICK x : Moves(s.pc, d.pc, i, x) /\ x # "resolving"
    BY <1>4 DEF Refused, Replayed, Called
  <2> QED BY <2>1, <2>2 DEF Moves
<1>7. ASSUME AsksLine
      PROVE  /\ LineAt(journal, d)
             /\ NextKey(s, i) \notin DOMAIN journal =>
                    Last(NextKey(s, i)) \notin {Last(k) : k \in DOMAIN journal}
  <2>1. i = 1 /\ 1 \in Item
    BY <1>2, <1>7 DEF AsksLine, Item, ItemsOf
  <2>2. Straight(journal) /\ LineAt(journal, m)
    BY <1>7 DEF POrd
  <2> QED BY <2>1, <2>2, <1>2, <1>4, <1>7, LineAgent
<1>8. ASSUME AsksFan
      PROVE  /\ FanAt(d) /\ Lined(d) /\ FirstStage(d)
             /\ ~Refused(s, d, i) /\ NextKey(s, i) \notin DOMAIN journal =>
                    Last(NextKey(s, i)) \notin {Last(k) : k \in DOMAIN journal}
  <2>1. FanJournal(journal) /\ FanAt(m) /\ Lined(m) /\ FirstStage(m)
    BY <1>8 DEF POrd
  <2>2. m.pc[i] = "asking"
    BY <2>1, <1>2, <1>8 DEF FirstStage, AsksFan
  <2>3. m.stage[i] = 0
    BY <2>2, <1>2 DEF Good, Begin
  <2>4. d.stage = s.stage /\ s.stage[i] = 1 /\ \A j \in Item : j # i => s.stage[j] = m.stage[j]
    BY <2>3, <1>2, <1>4, <1>5 DEF Refused, Kept, Replayed, Called
  <2>5. \A j \in Item : j # i => d.pc[j] = m.pc[j]
    BY <1>2, <1>4 DEF Refused, Replayed, Called, Moves
  <2>6. FirstStage(d)
    BY <2>1, <2>4, <2>5 DEF FirstStage
  <2> QED BY <2>1, <2>2, <2>6, <1>2, <1>4, <1>8, FanAgent
<1>9. ASSUME AsksLine \/ AsksFan, ~m.diverged, d.diverged
      PROVE  Prompt(d, FirstAsked(d)) \notin pd
  <2>1. Called(s, d, i)
    BY <1>4, <1>5, <1>9 DEF Refused, Kept, Replayed
  <2>2. Prompt(d, FirstAsked(d)) = Last(NextKey(s, i)) /\ NextKey(s, i) \notin DOMAIN journal
    BY <2>1, <1>2, <1>4, <1>5, <1>9, MissIs DEF Core
  <2>3. ~Refused(s, d, i)
    BY <2>1 DEF Refused, Called
  <2> QED BY <2>2, <2>3, <1>7, <1>8, <1>9 DEF POrd
<1>10. AsksLine \/ AsksFan => (Missed(m, d, fm) # NoPrompt => Missed(m, d, fm) \notin pd)
  BY <1>9 DEF Missed, POrd
<1>11. POrd(journal, d, "running", pd, Missed(m, d, fm))
  BY <1>6, <1>7, <1>8, <1>10 DEF POrd
<1> QED BY <1>1, <1>3, <1>11

\* An item that has been through its stages is done.
LEMMA DoneIs ==
    ASSUME Sized, NEW jr, NEW m, Good(jr, m), NEW i, Due(m, i), m.stage[i] = script.stages,
           NEW d, d = [Popped(m) EXCEPT !.pc[i] = "done"]
    PROVE  Quiet(m, d) /\ m.pc[i] = "ready" /\ d.diverged = m.diverged
<1>1. PICK p : p = Popped(m)
  OBVIOUS
<1>2. /\ i \in Item /\ m.pc[i] \in {"asking", "ready"} /\ MemType(p) /\ Begin(p)
      /\ p.pc = m.pc /\ p.stage = m.stage /\ p.key = m.key /\ p.prevKey = m.prevKey
      /\ p.diverged = m.diverged
  BY <1>1, PoppedIs DEF Due
<1>3. m.pc[i] = "ready"
  BY <1>2 DEF Begin, Sized
<1>4. /\ d.pc = [m.pc EXCEPT ![i] = "done"] /\ d.stage = m.stage /\ d.key = m.key
      /\ d.prevKey = m.prevKey /\ d.diverged = m.diverged
  BY <1>1, <1>2 DEF MemType
<1>5. m.pc \in [Item -> PCs] /\ "done" \in PCs
  BY <1>2, FieldTypes DEF PCs
<1>6. Moves(m.pc, d.pc, i, "done")
  <2>1. Moves(m.pc, [m.pc EXCEPT ![i] = "done"], i, "done")
    BY <1>2, <1>5, ExceptMoves
  <2> QED BY <2>1, <1>4
<1>7. Quiet(m, d)
  BY <1>3, <1>4, <1>6, QuietWhere DEF AskedPC, UnsettledPC
<1> QED BY <1>3, <1>4, <1>7

\* A nested script's calls are not asked in one order: only the history of its journal is kept.
LEMMA NestedKeepsOrder ==
    ASSUME script.nested, NEW jr, NEW m, NEW pd, NEW fm, POrd(jr, m, "running", pd, fm), NEW d, NEW fm2
    PROVE  POrd(jr, d, "running", pd, fm2)
BY DEF POrd, AsksLine, AsksFan

\* A continuation keeps the order: a stage that calls, or an item that is done.
LEMMA ContinueKeepsOrder ==
    ASSUME Sized, JournalType, NEW m, NEW pd, NEW fm,
           POrd(journal, m, "running", pd, fm), Good(journal, m), m.ready # <<>>
    PROVE  POrd(journal, Continued(m), "running", pd, Missed(m, Continued(m), fm))
<1>1. PICK i : i = Head(m.ready)
  OBVIOUS
<1>2. Due(m, i)
  BY <1>1 DEF Due
<1>3. CASE script.nested
  BY <1>3, NestedKeepsOrder
<1>4. CASE ~script.nested /\ m.stage[i] # script.stages
  <2>1. Continued(m) = agent(Staged(m, i), i)
    BY <1>1, <1>4 DEF Continued, Stage
  <2> QED BY <2>1, <1>2, <1>4, StageKeepsOrder
<1>5. CASE m.stage[i] = script.stages
  <2>1. PICK d : d = [Popped(m) EXCEPT !.pc[i] = "done"]
    OBVIOUS
  <2>2. Continued(m) = d
    BY <2>1, <1>1, <1>5 DEF Continued
  <2>3. Quiet(m, d) /\ m.pc[i] = "ready" /\ d.diverged = m.diverged
    BY <2>1, <1>2, <1>5, DoneIs
  <2>4. AsksFan => AsksAt(m) = {}
    BY <2>3, <1>1, FanHead DEF POrd, Good
  <2>5. POrd(journal, d, "running", pd, fm)
    BY <2>3, <2>4, QuietKeepsOrder
  <2>6. Missed(m, d, fm) = fm
    <3>1. m.diverged \in BOOLEAN
      BY FieldTypes DEF Good
    <3> QED BY <3>1, <2>3 DEF Missed
  <2> QED BY <2>2, <2>5, <2>6
<1> QED BY <1>3, <1>4, <1>5

PInv == WInv /\ POrd(journal, mem, outcome, paid, firstMiss)

\* The order holds at first: nothing is on record.
LEMMA PInvInit == Init => PInv
<1> SUFFICES ASSUME Init PROVE PInv
  OBVIOUS
<1>1. WInv /\ Sized
  BY WInvInit, ScriptSized DEF WInv
<1>2. /\ journal = [k \in {} |-> 0] /\ mem = Fresh(script) /\ outcome = "none" /\ paid = {}
      /\ firstMiss = NoPrompt
  BY DEF Init
<1>3. DOMAIN journal = {}
  BY <1>2
<1>4. /\ \A i \in Item : mem.pc[i] = "asking" /\ mem.stage[i] = 0 /\ mem.key[i] = <<>>
      /\ mem.prevKey = <<>> /\ ~mem.diverged
  BY <1>2 DEF Fresh, Item
<1>5. Straight(journal) /\ FanJournal(journal)
  BY <1>3 DEF Straight, FanJournal
<1>6. AsksLine => LineAt(journal, mem)
  <2>1. AsksLine => 1 \in Item
    BY DEF AsksLine, Item, ItemsOf
  <2> QED BY <2>1, <1>4 DEF LineAt, AskedPC, UnsettledPC
<1>7. FanAt(mem) /\ FirstStage(mem)
  <2>1. FanKey(<<>>)
    BY DEF FanKey
  <2> QED BY <2>1, <1>4 DEF FanAt, FirstStage
<1>8. POrd(journal, mem, outcome, paid, firstMiss)
  BY <1>2, <1>4, <1>5, <1>6, <1>7 DEF POrd
<1> QED BY <1>1, <1>8 DEF PInv

\* What a step makes of the order, as a fact of the values it leaves behind.
Follows == script' = script /\ POrd(journal', mem', outcome', paid', firstMiss')

\* A step of an item whose queue of continuations is empty asks nothing, nor does an abort.
LEMMA QuietFollows ==
    ASSUME POrd(journal, mem, "running", paid, firstMiss), Good(journal, mem),
           mem.ready = <<>> \/ AsksAt(mem) = {},
           NEW d, Quiet(mem, d), d.diverged = mem.diverged,
           script' = script, journal' = journal, outcome' = "running", paid' = paid, Becomes(d)
    PROVE  Follows
<1>1. AsksFan => AsksAt(mem) = {}
  BY NobodyDue DEF POrd
<1>2. POrd(journal, d, "running", paid, firstMiss)
  BY <1>1, QuietKeepsOrder
<1>3. mem' = d /\ firstMiss' = firstMiss
  <2>1. mem.diverged \in BOOLEAN
    BY FieldTypes DEF Good
  <2> QED BY <2>1 DEF Becomes
<1> QED BY <1>2, <1>3 DEF Follows

\* Every action keeps the order.
LEMMA StepsFollow ==
    ASSUME Sized, JournalType, Good(journal, mem), POrd(journal, mem, outcome, paid, firstMiss), Next
    PROVE  Follows
<1>1. CASE executeJournaled
  BY <1>1, StartKeepsOrder DEF executeJournaled, Follows
<1>2. CASE Continue
  <2>1. mem' = Continued(mem) /\ mem.ready # <<>> /\ journal' = journal /\ script' = script
        /\ outcome = "running" /\ outcome' = "running" /\ paid' = paid
    BY <1>2 DEF Continue, Becomes, Continued, Popped, Staged
  <2>2. firstMiss' = Missed(mem, Continued(mem), firstMiss)
    BY <1>2 DEF Continue, Becomes, Continued, Popped, Staged, Missed
  <2>3. POrd(journal, Continued(mem), "running", paid, Missed(mem, Continued(mem), firstMiss))
    BY <2>1, ContinueKeepsOrder
  <2> QED BY <2>1, <2>2, <2>3 DEF Follows
<1>3. CASE Abort
  <2>1. Becomes(AbortedMem(mem)) /\ journal' = journal /\ script' = script /\ AsksAt(mem) = {}
        /\ outcome = "running" /\ outcome' = "running" /\ paid' = paid
    BY <1>3 DEF Abort, AbortedMem, AsksAt, Item
  <2>2. MemType(mem) /\ AbortedMem(mem).diverged = mem.diverged
    BY AbortedGood DEF Good
  <2>3. Quiet(mem, AbortedMem(mem))
    BY <2>2, QuietAborts
  <2> QED BY <2>1, <2>2, <2>3, QuietFollows
<1>4. CASE recordOutcome
  <2>1. outcome = "running" /\ outcome' # "running"
    BY <1>4 DEF recordOutcome
  <2> QED BY <1>4, <2>1, EndKeepsOrder DEF recordOutcome, Follows
<1>5. CASE Crash
  BY <1>5, StartKeepsOrder DEF Crash, Follows
<1>6. ASSUME NEW i \in Item, enterChild(i) PROVE Follows
  <2>1. /\ mem.pc[i] = "resolving" /\ journal' = journal /\ script' = script /\ paid' = paid
        /\ outcome = "running" /\ outcome' = "running"
    BY <1>6 DEF enterChild
  <2>2. script.nested
    BY <2>1 DEF POrd
  <2> QED BY <2>1, <2>2, NestedKeepsOrder DEF Follows
<1>7. ASSUME NEW i \in Item, agentAnswers(i) PROVE Follows
  <2>1. /\ mem.pc[i] = "running" /\ mem.ready = <<>> /\ journal' = journal /\ script' = script
        /\ paid' = paid /\ outcome = "running" /\ outcome' = "running"
    BY <1>7 DEF agentAnswers
  <2>2. PICK v \in Results : Becomes(Answered(mem, i, v))
    BY <1>7 DEF agentAnswers, Answered
  <2>3. Quiet(mem, Answered(mem, i, v)) /\ Answered(mem, i, v).diverged = mem.diverged
    BY <2>1, QuietSettles, AnsweredGood DEF Good
  <2> QED BY <2>1, <2>2, <2>3, QuietFollows
<1>8. ASSUME NEW i \in Item, agentFails(i) PROVE Follows
  <2>1. /\ mem.pc[i] = "running" /\ mem.ready = <<>> /\ journal' = journal /\ script' = script
        /\ paid' = paid /\ outcome = "running" /\ outcome' = "running" /\ Becomes(Failed(mem, i))
    BY <1>8 DEF agentFails, Failed
  <2>2. Failed(mem, i).diverged = mem.diverged
    BY <2>1, FailedGood
  <2>3. Quiet(mem, Failed(mem, i))
    <3>1. MemType(mem)
      BY DEF Good
    <3> QED BY <2>1, <3>1, QuietFails
  <2> QED BY <2>1, <2>2, <2>3, QuietFollows
<1>9. ASSUME NEW i \in Item, recordResult(i) PROVE Follows
  <2>1. /\ mem.pc[i] = "writing" /\ mem.pc[i] \in HoldPC /\ mem.ready = <<>> /\ script' = script
        /\ paid' = paid /\ outcome = "running" /\ outcome' = "running" /\ MemType(mem) /\ SlotsAll(mem)
    BY <1>9 DEF recordResult, HoldPC, Good
  <2>2. CASE journal' = Recorded(journal, mem, i) /\ Becomes(release(return(mem, i, mem.value[i]), i))
    <3>1. PICK d : d = release(return(mem, i, mem.value[i]), i)
      OBVIOUS
    <3>2. Quiet(mem, d) /\ d.pc[i] = "ready" /\ d.diverged = mem.diverged
      BY <2>1, <3>1, QuietEnds, RecordedGood
    <3>3. AsksFan => AsksAt(mem) = {}
      BY <2>1, NobodyDue DEF POrd
    <3>4. POrd(Recorded(journal, mem, i), d, "running", paid, firstMiss)
      BY <2>1, <3>2, <3>3, RecordKeepsOrder
    <3>5. mem' = d /\ firstMiss' = firstMiss
      <4>1. mem.diverged \in BOOLEAN
        BY <2>1, FieldTypes
      <4> QED BY <4>1, <2>2, <3>1, <3>2 DEF Becomes
    <3> QED BY <2>1, <2>2, <3>4, <3>5 DEF Follows
  <2>3. CASE journal' = journal /\ Becomes(release(drop(mem, i), i))
    <3>1. Quiet(mem, release(drop(mem, i), i)) /\ release(drop(mem, i), i).diverged = mem.diverged
      BY <2>1, QuietEnds, DroppedGood
    <3> QED BY <2>1, <2>3, <3>1, QuietFollows
  <2> QED BY <1>9, <2>2, <2>3 DEF recordResult, Recorded
<1>10. ASSUME NEW i \in Item, recordError(i) PROVE Follows
  <2>1. /\ mem.pc[i] \in HoldPC /\ mem.ready = <<>> /\ script' = script /\ journal' = journal
        /\ paid' = paid /\ outcome = "running" /\ outcome' = "running" /\ MemType(mem) /\ SlotsAll(mem)
        /\ Becomes(release(drop(mem, i), i))
    BY <1>10 DEF recordError, HoldPC, Good
  <2>2. Quiet(mem, release(drop(mem, i), i)) /\ release(drop(mem, i), i).diverged = mem.diverged
    BY <2>1, QuietEnds, DroppedGood
  <2> QED BY <2>1, <2>2, QuietFollows
<1> QED BY <1>1, <1>2, <1>3, <1>4, <1>5, <1>6, <1>7, <1>8, <1>9, <1>10 DEF Next, Item

\* The order is a fact of the values alone, so it carries over to the next state.
LEMMA OrderNext ==
    ASSUME Follows
    PROVE  POrd(journal, mem, outcome, paid, firstMiss)'
<1> USE DEF Follows
<1>1. /\ Item' = Item /\ Keys' = Keys /\ (AsksLine' <=> AsksLine) /\ (AsksFan' <=> AsksFan)
  BY DEF Item, ItemsOf, Keys, Prompts, Vals, AsksLine, AsksFan
<1>2. AsksAt(mem)' = AsksAt(mem')
  BY <1>1 DEF AsksAt
<1>3. Straight(journal)' <=> Straight(journal')
  BY <1>1 DEF Straight, Proper
<1>4. LineAt(journal, mem)' <=> LineAt(journal', mem')
  BY DEF LineAt, Proper, AskedPC, UnsettledPC
<1>5. (FanJournal(journal)' <=> FanJournal(journal')) /\ (FanAt(mem)' <=> FanAt(mem'))
      /\ (FirstStage(mem)' <=> FirstStage(mem'))
  BY <1>1 DEF FanJournal, FanAt, FanKey, FirstStage
<1>6. Lined(mem)' <=> Lined(mem')
  BY <1>1, <1>2 DEF Lined, Ordered, Elems
<1> QED BY <1>1, <1>3, <1>4, <1>5, <1>6 DEF POrd

\* With the order the invariant is inductive.
LEMMA PInvStep == PInv /\ [Next]_vars => PInv'
<1> SUFFICES ASSUME PInv, [Next]_vars PROVE PInv'
  OBVIOUS
<1>1. WInv' /\ Sized
  BY WInvStep, ScriptSized DEF PInv, WInv
<1>2. Follows
  <2>1. CASE Next
    BY <2>1, <1>1, StepsFollow DEF PInv, WInv
  <2>2. CASE UNCHANGED vars
    BY <2>2 DEF vars, PInv, Follows
  <2> QED BY <2>1, <2>2
<1> QED BY <1>1, <1>2, OrderNext DEF PInv

\* What the script has seen is on record, and a resume pays for no call again
\* that the journal holds (JournalIsThePast; workflow/runtime.ts:182-260,
\* workflow/journal.ts; "completed calls up to the first changed/new/interrupted
\* one return cached results", workflow/prompt.ts).
THEOREM JournalHolds == Spec => []JournalIsThePast
<1>1. PInv => JournalIsThePast
  <2> SUFFICES ASSUME PInv PROVE JournalIsThePast
    OBVIOUS
  <2>1. SeenIsOnRecord
    BY DEF PInv, WInv, Good, Core, Seen, SeenIsOnRecord, Item
  <2>2. PrefixIsReplayed
    BY DEF PInv, POrd, PrefixIsReplayed, ReplayIsFree, AsksInOneOrder, AsksLine, AsksFan
  <2> QED BY <2>1, <2>2 DEF JournalIsThePast
<1> QED BY <1>1, PInvInit, PInvStep, PTL DEF Spec
=============================================================================
