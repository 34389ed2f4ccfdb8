-------------------------- MODULE EventStreamProofs --------------------------
(***************************************************************************)
(* A client that resumes from the last id it got has every event up to     *)
(* that id, but the known drops, and one connection delivers in order and  *)
(* doubles no more than the overlap: for any log, page size, queue         *)
(* capacity, broadcaster and number of faults.                             *)
(*                                                                         *)
(* The invariant says where a durable event past the backfill is: with the *)
(* client, dropped, still owed by the publisher, or in transit; and that   *)
(* what is in transit ascends from the watcher's hand over its queue to    *)
(* the wire and lies below what the publisher owes.  So whatever is        *)
(* followed next has nothing undelivered below it.                         *)
(***************************************************************************)
EXTENDS EventStream, TLAPS

Rng(s) == {s[i] : i \in 1..Len(s)}

Before(S, T) == \A x \in S, y \in T : x # Live /\ y # Live => x < y

Asc(s) == \A i, j \in 1..Len(s) : i < j /\ s[i] # Live /\ s[j] # Live => s[i] < s[j]

Transit == Rng(hand) \cup Rng(items) \cup Rng(wire)

Settled == have \cup lost

\* Buffers hold events in the order they were emitted.
InOrder ==
    /\ hand \in Seq(Nat) /\ items \in Seq(Nat) /\ wire \in Seq(Nat)
    /\ Asc(hand) /\ Asc(items) /\ Asc(wire)
    /\ Before(Rng(hand), Rng(items)) /\ Before(Rng(hand), Rng(wire))
    /\ Before(Rng(items), Rng(wire))
    /\ waiting => hand = <<>> /\ items = <<>>

\* All of them were emitted before what is owed was appended.
BelowOwed ==
    /\ log \in Nat /\ owed \in 0..log
    /\ \A x \in Transit : x <= log /\ (owed # 0 => x < owed)

\* In memory nothing is under way between publish and the callback.
Direct ==
    /\ wireKind \in {"memory", "redis"}
    /\ wireKind = "memory" => wire = <<>> /\ (phase # "off" => sub = "on")

\* The backfill leaves nothing out, nor what follows it.
Covered ==
    /\ cursor \in Nat /\ pageEnd \in Nat /\ lastId \in Nat
    /\ seen \subseteq have
    /\ 1..lastId \subseteq Settled
    /\ phase # "off" => 1..cursor \subseteq Settled
    /\ phase = "live" => cursor = pageEnd /\ short
    /\ phase # "off" /\ short =>
           \A d \in Nat : pageEnd < d /\ d <= log => d \in Settled \cup Transit \cup {owed}

\* The inductive invariant.
StreamInv == InOrder /\ BelowOwed /\ Direct /\ Covered

---------------------------------------------------------------------------
(* Sequences of positions.                                                 *)

LEMMA EmptyFacts == Rng(<<>>) = {} /\ Asc(<<>>) /\ <<>> \in Seq(Nat)
  BY DEF Rng, Asc

LEMMA OneFacts ==
    ASSUME NEW e \in Nat
    PROVE  <<e>> \in Seq(Nat) /\ Rng(<<e>>) = {e} /\ Asc(<<e>>)
  BY DEF Rng, Asc

LEMMA AppendFacts ==
    ASSUME NEW s \in Seq(Nat), NEW e \in Nat
    PROVE  /\ Append(s, e) \in Seq(Nat)
           /\ Rng(Append(s, e)) = Rng(s) \cup {e}
           /\ Asc(s) /\ Before(Rng(s), {e}) => Asc(Append(s, e))
  <1>. DEFINE a == Append(s, e)
  <1>1. /\ a \in Seq(Nat) /\ Len(a) = Len(s) + 1 /\ a[Len(s) + 1] = e
        /\ \A i \in 1..Len(s) : a[i] = s[i]
    OBVIOUS
  <1>2. Len(s) \in Nat /\ 1..Len(a) = 1..Len(s) \cup {Len(s) + 1}
    BY <1>1
  <1>. HIDE DEF a
  <1>3. Rng(a) = Rng(s) \cup {e}
    BY <1>1, <1>2 DEF Rng
  <1>4. ASSUME Asc(s), Before(Rng(s), {e}) PROVE Asc(a)
    <2>1. \A i \in 1..Len(s) : s[i] # Live /\ e # Live => s[i] < e
      BY <1>4 DEF Before, Rng
    <2>. SUFFICES ASSUME NEW i \in 1..Len(a), NEW j \in 1..Len(a),
                         i < j, a[i] # Live, a[j] # Live
                  PROVE  a[i] < a[j]
      BY DEF Asc
    <2>2. i \in 1..Len(s) /\ a[i] = s[i]
      BY <1>1, <1>2
    <2>3. CASE j \in 1..Len(s)
      <3>1. a[j] = s[j]
        BY <1>1, <2>3
      <3>. QED
        BY <1>4, <2>2, <2>3, <3>1 DEF Asc
    <2>4. CASE j = Len(s) + 1
      BY <1>1, <2>1, <2>2, <2>4
    <2>. QED
      BY <1>2, <2>3, <2>4
  <1>. QED
    BY <1>1, <1>3, <1>4 DEF a

LEMMA TailFacts ==
    ASSUME NEW s \in Seq(Nat), s # <<>>
    PROVE  /\ Head(s) \in Nat /\ Tail(s) \in Seq(Nat)
           /\ Rng(s) = Rng(Tail(s)) \cup {Head(s)}
           /\ Asc(s) => Asc(Tail(s)) /\ Before({Head(s)}, Rng(Tail(s)))
  <1>. DEFINE t == Tail(s)
  <1>1. /\ Head(s) \in Nat /\ t \in Seq(Nat) /\ Len(t) = Len(s) - 1 /\ Len(s) \in Nat \ {0}
        /\ Head(s) = s[1] /\ \A i \in 1..Len(t) : t[i] = s[i + 1]
    OBVIOUS
  <1>. HIDE DEF t
  <1>2. \A i \in 1..Len(t) : i + 1 \in 1..Len(s) /\ 1 < i + 1
    BY <1>1
  <1>3. \A j \in 1..Len(s) : j = 1 \/ (j - 1 \in 1..Len(t) /\ t[j - 1] = s[j])
    BY <1>1
  <1>4. Rng(s) = Rng(t) \cup {Head(s)}
    <2>1. ASSUME NEW j \in 1..Len(s) PROVE s[j] \in Rng(t) \cup {Head(s)}
      BY <1>1, <1>3 DEF Rng
    <2>2. ASSUME NEW i \in 1..Len(t) PROVE t[i] \in Rng(s)
      BY <1>1, <1>2 DEF Rng
    <2>3. Head(s) \in Rng(s)
      BY <1>1 DEF Rng
    <2>4. Rng(s) \subseteq Rng(t) \cup {Head(s)}
      BY <2>1 DEF Rng
    <2>5. Rng(t) \subseteq Rng(s)
      BY <2>2 DEF Rng
    <2>. QED
      BY <2>3, <2>4, <2>5
  <1>5. ASSUME Asc(s) PROVE Asc(t) /\ Before({Head(s)}, Rng(t))
    <2>1. Asc(t)
      <3>. SUFFICES ASSUME NEW i \in 1..Len(t), NEW j \in 1..Len(t),
                           i < j, t[i] # Live, t[j] # Live
                    PROVE  t[i] < t[j]
        BY DEF Asc
      <3>1. t[i] = s[i + 1] /\ t[j] = s[j + 1] /\ i + 1 < j + 1
        BY <1>1
      <3>2. i + 1 \in 1..Len(s) /\ j + 1 \in 1..Len(s)
        BY <1>2
      <3>. QED
        BY <1>5, <3>1, <3>2 DEF Asc
    <2>2. ASSUME NEW i \in 1..Len(t), s[1] # Live, t[i] # Live PROVE s[1] < t[i]
      <3>1. t[i] = s[i + 1] /\ 1 \in 1..Len(s)
        BY <1>1
      <3>2. i + 1 \in 1..Len(s) /\ 1 < i + 1
        BY <1>2
      <3>. QED
        BY <1>5, <2>2, <3>1, <3>2 DEF Asc
    <2>3. Before({Head(s)}, Rng(t))
      BY <1>1, <2>2 DEF Before, Rng
    <2>. QED
      BY <2>1, <2>3
  <1>. QED
    BY <1>1, <1>4, <1>5 DEF t

LEMMA CapacityFacts == Capacity \in Nat \ {0} /\ PageSize \in Nat \ {0}
  BY StreamAssumption

---------------------------------------------------------------------------
(* The queue takes an event that comes after all it holds, and forgets none
   that only it could deliver without recording it.  W stands for the events
   still on the wire. *)
LEMMA PushFacts ==
    ASSUME hand \in Seq(Nat), items \in Seq(Nat), Asc(hand), Asc(items),
           Before(Rng(hand), Rng(items)),
           waiting => hand = <<>> /\ items = <<>>,
           NEW e \in Nat, NEW W,
           Before(Rng(hand), {e}), Before(Rng(items), {e}),
           Before(Rng(hand), W), Before(Rng(items), W), Before({e}, W),
           push(e)
    PROVE  /\ hand' \in Seq(Nat) /\ items' \in Seq(Nat)
           /\ Asc(hand') /\ Asc(items') /\ Before(Rng(hand'), Rng(items'))
           /\ waiting' => hand' = <<>> /\ items' = <<>>
           /\ Before(Rng(hand'), W) /\ Before(Rng(items'), W)
           /\ Rng(hand') \cup Rng(items') \subseteq Rng(hand) \cup Rng(items) \cup {e}
           /\ lost \subseteq lost'
           /\ \A d \in Rng(hand) \cup Rng(items) \cup {e} :
                  OnlyLive(d) => d \in lost' \cup Rng(hand') \cup Rng(items')
  <1>1. CASE orphans > 0
    <2>1. UNCHANGED <<items, hand, waiting>> /\ lost' = lost \cup {d \in {e} : OnlyLive(d)}
      BY <1>1 DEF push, Losing
    <2>. QED
      BY <2>1
  <1>2. CASE orphans = 0 /\ waiting
    <2>1. hand' = <<e>> /\ items' = items /\ lost' = lost /\ ~waiting'
      BY <1>2 DEF push
    <2>2. hand = <<>> /\ items = <<>>
      BY <1>2
    <2>3. Rng(hand') = {e} /\ Rng(items') = {} /\ Rng(hand) = {} /\ Rng(items) = {}
      BY <2>1, <2>2, OneFacts, EmptyFacts
    <2>. QED
      BY <2>1, <2>2, <2>3, OneFacts, EmptyFacts DEF Before
  <1>3. CASE orphans = 0 /\ ~waiting
    <2>. DEFINE kept == IF Len(items) >= Capacity THEN Tail(items) ELSE items
                gone == IF Len(items) >= Capacity THEN {Head(items)} ELSE {}
    <2>1. /\ items' = Append(kept, e) /\ hand' = hand /\ waiting' = waiting
          /\ lost' = lost \cup {d \in gone : OnlyLive(d)}
      BY <1>3 DEF push, Losing
    <2>2. /\ kept \in Seq(Nat) /\ Asc(kept) /\ Rng(items) = Rng(kept) \cup gone
      <3>1. CASE Len(items) >= Capacity
        <4>1. items # <<>>
          BY <3>1, CapacityFacts
        <4>. QED
          BY <3>1, <4>1, TailFacts
      <3>2. CASE ~(Len(items) >= Capacity)
        BY <3>2
      <3>. QED
        BY <3>1, <3>2
    <2>. HIDE DEF kept, gone
    <2>3. Before(Rng(kept), {e})
      BY <2>2 DEF Before
    <2>4. items' \in Seq(Nat) /\ Rng(items') = Rng(kept) \cup {e} /\ Asc(items')
      BY <2>1, <2>2, <2>3, AppendFacts
    <2>5. Before(Rng(hand'), Rng(items')) /\ Before(Rng(items'), W)
      BY <2>1, <2>2, <2>4 DEF Before
    <2>. QED
      BY <1>3, <2>1, <2>2, <2>4, <2>5
  <1>. QED
    BY <1>1, <1>2, <1>3 DEF push

(* A step that only loses what it records, and hides nothing from the client:
   what Covered asks of the events past the backfill. *)
LEMMA CoveredStays ==
    ASSUME Covered, UNCHANGED <<cursor, pageEnd, lastId, seen, phase, short, have>>,
           lost \subseteq lost', log \in Nat,
           \A d \in Transit \cup {owed} : OnlyLive(d) => d \in lost' \cup Transit' \cup {owed'},
           log' \in Nat,
           \A d \in Nat : log < d /\ d <= log' => d = owed' \/ (OnlyLive(d) => d \in lost')
    PROVE  Covered'
  <1>1. Settled \subseteq Settled'
    BY DEF Settled
  <1>2. ASSUME phase # "off", short, NEW d \in Nat, pageEnd < d, d <= log'
        PROVE  d \in Settled' \cup Transit' \cup {owed'}
    <2>1. OnlyLive(d)
      BY <1>2 DEF Covered, OnlyLive, Live
    <2>2. CASE d <= log
      <3>1. d \in Settled \cup Transit \cup {owed}
        BY <1>2, <2>2 DEF Covered
      <3>. QED
        BY <1>1, <2>1, <3>1 DEF Settled
    <2>3. CASE log < d
      BY <1>2, <2>1, <2>3 DEF Settled
    <2>. QED
      BY <2>2, <2>3
  <1>. QED
    BY <1>1, <1>2 DEF Covered

(* What is published after all that is in transit joins it at its end, or is
   recorded as lost. *)
LEMMA PublishFacts ==
    ASSUME InOrder, Direct, NEW e \in Nat, Before(Transit, {e}), publish(e)
    PROVE  /\ InOrder' /\ lost \subseteq lost'
           /\ Transit' \subseteq Transit \cup {e}
           /\ \A d \in Transit \cup {e} : OnlyLive(d) => d \in lost' \cup Transit'
           /\ wireKind = "memory" => wire' = <<>>
  <1>0. Before(Rng(hand), {e}) /\ Before(Rng(items), {e}) /\ Before(Rng(wire), {e})
    BY DEF Before, Transit
  <1>1. CASE wireKind = "memory" /\ sub = "on"
    <2>1. push(e) /\ wire' = wire
      BY <1>1 DEF publish
    <2>2. wire = <<>> /\ Rng(wire) = {}
      BY <1>1, EmptyFacts DEF Direct
    <2>3. Before({e}, Rng(wire))
      BY <2>2 DEF Before
    <2>4. /\ hand' \in Seq(Nat) /\ items' \in Seq(Nat)
          /\ Asc(hand') /\ Asc(items') /\ Before(Rng(hand'), Rng(items'))
          /\ waiting' => hand' = <<>> /\ items' = <<>>
          /\ Before(Rng(hand'), Rng(wire)) /\ Before(Rng(items'), Rng(wire))
          /\ Rng(hand') \cup Rng(items') \subseteq Rng(hand) \cup Rng(items) \cup {e}
          /\ lost \subseteq lost'
          /\ \A d \in Rng(hand) \cup Rng(items) \cup {e} :
                 OnlyLive(d) => d \in lost' \cup Rng(hand') \cup Rng(items')
      BY <1>0, <2>1, <2>3, PushFacts DEF InOrder
    <2>5. Transit' = Rng(hand') \cup Rng(items') \cup Rng(wire)
      BY <2>1 DEF Transit
    <2>6. InOrder'
      BY <2>1, <2>4 DEF InOrder
    <2>. QED
      BY <2>1, <2>2, <2>4, <2>5, <2>6 DEF Transit
  <1>2. CASE wireKind = "redis" /\ sub = "on"
    <2>1. wire' = Append(wire, e) /\ UNCHANGED <<items, hand, waiting, lost>>
      BY <1>2 DEF publish, queueVars
    <2>2. wire' \in Seq(Nat) /\ Rng(wire') = Rng(wire) \cup {e} /\ Asc(wire')
      BY <1>0, <2>1, AppendFacts DEF InOrder
    <2>3. Before(Rng(hand), Rng(wire')) /\ Before(Rng(items), Rng(wire'))
      BY <1>0, <2>2 DEF Before, InOrder
    <2>4. InOrder'
      BY <2>1, <2>2, <2>3 DEF InOrder
    <2>5. Transit' = Transit \cup {e}
      BY <2>1, <2>2 DEF Transit
    <2>. QED
      BY <1>2, <2>1, <2>4, <2>5
  <1>3. CASE sub # "on"
    <2>1. /\ UNCHANGED <<wire, items, hand, waiting>>
          /\ lost' = lost \cup {d \in (IF wireKind = "redis" THEN {e} ELSE {}) : OnlyLive(d)}
      BY <1>3 DEF publish, queueVars, Losing
    <2>2. InOrder' /\ Transit' = Transit
      BY <2>1 DEF InOrder, Transit
    <2>3. wireKind = "memory" => phase = "off" /\ wire' = <<>>
      BY <1>3, <2>1 DEF Direct
    <2>4. OnlyLive(e) => e \in lost'
      BY <2>1, <2>3 DEF Direct, OnlyLive
    <2>. QED
      BY <2>1, <2>2, <2>3, <2>4
  <1>. QED
    BY <1>1, <1>2, <1>3 DEF publish

---------------------------------------------------------------------------
(* Steps.                                                                  *)

LEMMA StreamInit == Init => StreamInv
  <1>. SUFFICES ASSUME Init PROVE StreamInv
    OBVIOUS
  <1>1. Rng(<<>>) = {} /\ Asc(<<>>) /\ <<>> \in Seq(Nat)
    BY EmptyFacts
  <1>2. InOrder
    BY <1>1 DEF Init, InOrder, Before
  <1>3. BelowOwed
    BY <1>1 DEF Init, BelowOwed, Transit
  <1>4. Direct
    BY StreamAssumption DEF Init, Direct
  <1>5. Covered
    BY DEF Init, Covered
  <1>. QED
    BY <1>2, <1>3, <1>4, <1>5 DEF StreamInv

(* A record is appended, by the worker or by the API process. *)
LEMMA AppendKeeps ==
    ASSUME StreamInv, appendRecord \/ acceptEvent \/ workerDies
    PROVE  StreamInv' /\ Transit' = Transit
  <1>0. InOrder /\ BelowOwed /\ Direct /\ Covered
    BY DEF StreamInv
  <1>1. /\ UNCHANGED <<wireKind, wire, sub, phase, cursor, pageEnd, short, items, hand, waiting,
                       seen, have, lastId>>
        /\ lost \subseteq lost'
    BY DEF appendRecord, acceptEvent, workerDies, Losing, netVars, readVars, queueVars, clientVars
  <1>2. InOrder' /\ Direct' /\ Transit' = Transit
    BY <1>0, <1>1 DEF InOrder, Direct, Transit
  <1>3. BelowOwed'
    <2>1. Transit \subseteq Nat
      BY <1>0 DEF InOrder, Transit, Rng
    <2>2. log \in Nat /\ owed \in 0..log /\ \A x \in Transit : x <= log
      BY <1>0 DEF BelowOwed
    <2>3. CASE appendRecord
      <3>1. log' = log + 1 /\ owed' = log + 1
        BY <2>3 DEF appendRecord
      <3>. QED
        BY <1>2, <2>1, <2>2, <3>1 DEF BelowOwed
    <2>4. CASE acceptEvent
      <3>1. log' = log + 1 /\ owed' = owed
        BY <2>4 DEF acceptEvent
      <3>. QED
        BY <1>0, <1>2, <2>1, <2>2, <3>1 DEF BelowOwed
    <2>5. CASE workerDies
      BY <1>2, <2>2, <2>5 DEF workerDies, BelowOwed
    <2>. QED
      BY <2>3, <2>4, <2>5
  <1>4. /\ OnlyLive(owed) => owed \in lost' \cup {owed'}
        /\ \A d \in Nat : log < d /\ d <= log' => d = owed' \/ (OnlyLive(d) => d \in lost')
    <2>1. CASE appendRecord
      BY <1>0, <2>1 DEF appendRecord, BelowOwed, OnlyLive, Live
    <2>2. CASE acceptEvent
      BY <1>0, <2>2 DEF acceptEvent, BelowOwed, Losing
    <2>3. CASE workerDies
      BY <1>0, <2>3 DEF workerDies, BelowOwed, Losing
    <2>. QED
      BY <2>1, <2>2, <2>3
  <1>5. log \in Nat /\ log' \in Nat
    BY <1>0, <1>3 DEF BelowOwed
  <1>6. Covered'
    BY <1>0, <1>1, <1>2, <1>4, <1>5, CoveredStays
  <1>. QED
    BY <1>2, <1>3, <1>6 DEF StreamInv

(* The publisher emits what it owes, or what no log holds. *)
LEMMA EmitKeeps ==
    ASSUME StreamInv, emitCommitted \/ emit
    PROVE  StreamInv' /\ Transit' \subseteq Transit \cup {owed, Live}
  <1>0. InOrder /\ BelowOwed /\ Direct /\ Covered
    BY DEF StreamInv
  <1>. DEFINE e == IF owed # 0 THEN owed ELSE Live
  <1>1. /\ publish(e) /\ owed' = 0
        /\ UNCHANGED <<wireKind, log, sub, phase, cursor, pageEnd, short, seen, have, lastId>>
    BY DEF emitCommitted, emit, readVars, clientVars
  <1>2. e \in Nat /\ Before(Transit, {e}) /\ owed \in {e, 0}
    BY <1>0 DEF BelowOwed, Before, Live
  <1>. HIDE DEF e
  <1>3. /\ InOrder' /\ lost \subseteq lost'
        /\ Transit' \subseteq Transit \cup {e}
        /\ \A d \in Transit \cup {e} : OnlyLive(d) => d \in lost' \cup Transit'
        /\ wireKind = "memory" => wire' = <<>>
    BY <1>0, <1>1, <1>2, PublishFacts
  <1>4. Direct'
    BY <1>0, <1>1, <1>3 DEF Direct
  <1>5. BelowOwed'
    <2>1. e <= log /\ log \in Nat
      BY <1>0 DEF BelowOwed, e, Live
    <2>2. \A x \in Transit' : x <= log
      BY <1>0, <1>3, <2>1 DEF BelowOwed
    <2>. QED
      BY <1>1, <2>1, <2>2 DEF BelowOwed
  <1>6. \A d \in Transit \cup {owed} : OnlyLive(d) => d \in lost' \cup Transit' \cup {owed'}
    BY <1>1, <1>2, <1>3
  <1>7. Covered'
    BY <1>0, <1>1, <1>3, <1>6, CoveredStays DEF BelowOwed
  <1>. QED
    BY <1>3, <1>4, <1>5, <1>7 DEF StreamInv, e

(* The wire: a subscription takes effect, a message arrives, a connection
   drops with what is on its way. *)
LEMMA NetworkKeeps ==
    ASSUME StreamInv, subscriptionLands \/ messageArrives \/ connectionDrops
    PROVE  StreamInv' /\ Transit' \subseteq Transit
  <1>0. InOrder /\ BelowOwed /\ Direct /\ Covered
    BY DEF StreamInv
  <1>1. UNCHANGED <<wireKind, log, owed, phase, cursor, pageEnd, short, seen, have, lastId>>
    BY DEF subscriptionLands, messageArrives, connectionDrops, pubVars, readVars, clientVars
  <1>2. CASE subscriptionLands
    <2>1. UNCHANGED <<wire, items, hand, waiting, lost>> /\ sub' = "on"
      BY <1>2 DEF subscriptionLands, queueVars
    <2>2. Transit' = Transit /\ InOrder' /\ Direct'
      BY <1>0, <1>1, <2>1 DEF Transit, InOrder, Direct
    <2>. QED
      BY <1>0, <1>1, <2>1, <2>2 DEF BelowOwed, Covered, Settled, StreamInv
  <1>3. CASE messageArrives
    <2>. DEFINE e == Head(wire)
    <2>1. /\ wire # <<>> /\ wire' = Tail(wire) /\ push(e) /\ sub' = sub
          /\ wire \in Seq(Nat)
      BY <1>0, <1>3 DEF messageArrives, InOrder
    <2>2. /\ e \in Nat /\ wire' \in Seq(Nat) /\ Rng(wire) = Rng(wire') \cup {e}
          /\ Asc(wire') /\ Before({e}, Rng(wire'))
      BY <1>0, <2>1, TailFacts DEF InOrder
    <2>. HIDE DEF e
    <2>3. /\ Before(Rng(hand), {e}) /\ Before(Rng(items), {e})
          /\ Before(Rng(hand), Rng(wire')) /\ Before(Rng(items), Rng(wire'))
      BY <1>0, <2>2 DEF InOrder, Before
    <2>4. /\ hand' \in Seq(Nat) /\ items' \in Seq(Nat)
          /\ Asc(hand') /\ Asc(items') /\ Before(Rng(hand'), Rng(items'))
          /\ waiting' => hand' = <<>> /\ items' = <<>>
          /\ Before(Rng(hand'), Rng(wire')) /\ Before(Rng(items'), Rng(wire'))
          /\ Rng(hand') \cup Rng(items') \subseteq Rng(hand) \cup Rng(items) \cup {e}
          /\ lost \subseteq lost'
          /\ \A d \in Rng(hand) \cup Rng(items) \cup {e} :
                 OnlyLive(d) => d \in lost' \cup Rng(hand') \cup Rng(items')
      BY <1>0, <2>1, <2>2, <2>3, PushFacts DEF InOrder
    <2>5. InOrder'
      BY <2>2, <2>4 DEF InOrder
    <2>6. /\ Transit = Rng(hand) \cup Rng(items) \cup Rng(wire') \cup {e}
          /\ Transit' = Rng(hand') \cup Rng(items') \cup Rng(wire')
      BY <2>2 DEF Transit
    <2>7. /\ Transit' \subseteq Transit
          /\ \A d \in Transit : OnlyLive(d) => d \in lost' \cup Transit'
      BY <2>4, <2>6
    <2>8. BelowOwed'
      BY <1>0, <1>1, <2>7 DEF BelowOwed
    <2>9. Direct'
      BY <1>0, <1>1, <2>1 DEF Direct
    <2>10. Covered'
      BY <1>0, <1>1, <2>4, <2>7, CoveredStays DEF BelowOwed
    <2>. QED
      BY <2>5, <2>7, <2>8, <2>9, <2>10 DEF StreamInv
  <1>4. CASE connectionDrops
    <2>1. /\ wire' = <<>> /\ UNCHANGED <<items, hand, waiting>> /\ wireKind = "redis"
          /\ lost' = lost \cup {d \in Rng(wire) : OnlyLive(d)}
      BY <1>4 DEF connectionDrops, queueVars, Losing, Rng
    <2>2. Rng(wire') = {} /\ Asc(wire') /\ wire' \in Seq(Nat)
      BY <2>1, EmptyFacts
    <2>3. InOrder'
      BY <1>0, <2>1, <2>2 DEF InOrder, Before
    <2>4. /\ Transit' \subseteq Transit
          /\ \A d \in Transit : OnlyLive(d) => d \in lost' \cup Transit'
      BY <2>1, <2>2 DEF Transit
    <2>5. BelowOwed'
      BY <1>0, <1>1, <2>4 DEF BelowOwed
    <2>6. Direct'
      BY <1>0, <1>1, <2>1 DEF Direct
    <2>7. Covered'
      BY <1>0, <1>1, <2>1, <2>4, CoveredStays DEF BelowOwed
    <2>. QED
      BY <2>3, <2>4, <2>5, <2>6, <2>7 DEF StreamInv
  <1>. QED
    BY <1>2, <1>3, <1>4

(* A watcher comes, reads the log up to its first page that is not full, and
   goes over to its queue. *)
LEMMA BackfillKeeps ==
    ASSUME StreamInv, watchEvents \/ readRecordPage \/ watchStore \/ handOver
    PROVE  StreamInv' /\ Transit' \subseteq Transit
  <1>0. InOrder /\ BelowOwed /\ Direct /\ Covered
    BY DEF StreamInv
  <1>1. /\ UNCHANGED <<wireKind, log, owed, wire, lost>>
        /\ have \subseteq have' /\ Settled \subseteq Settled'
    BY DEF watchEvents, readRecordPage, watchStore, handOver, pubVars, netVars, clientVars,
           Yielding, Settled
  <1>2. CASE watchEvents
    <2>1. /\ hand' = <<>> /\ items' = <<>> /\ ~waiting'
          /\ Rng(hand') = {} /\ Rng(items') = {} /\ Asc(hand') /\ Asc(items')
      BY <1>2, EmptyFacts DEF watchEvents
    <2>2. InOrder' /\ Transit' \subseteq Transit
      BY <1>0, <1>1, <2>1, EmptyFacts DEF InOrder, Before, Transit
    <2>3. Direct'
      BY <1>0, <1>1, <1>2 DEF Direct, watchEvents
    <2>4. BelowOwed'
      BY <1>0, <1>1, <2>2 DEF BelowOwed
    <2>5. Covered'
      BY <1>0, <1>1, <1>2 DEF Covered, watchEvents
    <2>. QED
      BY <2>2, <2>3, <2>4, <2>5 DEF StreamInv
  <1>3. CASE readRecordPage \/ watchStore \/ handOver
    <2>1. UNCHANGED <<sub, items, hand, waiting>>
      BY <1>3 DEF readRecordPage, watchStore, handOver, netVars, queueVars
    <2>2. InOrder' /\ Transit' = Transit
      BY <1>0, <1>1, <2>1 DEF InOrder, Transit
    <2>3. BelowOwed'
      BY <1>0, <1>1, <2>2 DEF BelowOwed
    <2>4. Direct'
      BY <1>0, <1>1, <1>3, <2>1 DEF Direct, readRecordPage, watchStore, handOver
    <2>5. CASE readRecordPage
      <3>1. /\ UNCHANGED <<phase, cursor, seen, have, lastId>> /\ phase = "backfill"
            /\ pageEnd' \in Nat /\ (short' => pageEnd' = log)
        <4>1. /\ UNCHANGED <<phase, cursor, seen, have, lastId>> /\ phase = "backfill"
              /\ pageEnd' = IF cursor + PageSize <= log THEN cursor + PageSize ELSE log
          BY <2>5 DEF readRecordPage, clientVars
        <4>2. short' => cursor + PageSize > log
          BY <2>5 DEF readRecordPage
        <4>3. cursor \in Nat /\ log \in Nat /\ PageSize \in Nat
          BY <1>0, CapacityFacts DEF Covered, BelowOwed
        <4>. QED
          BY <4>1, <4>2, <4>3
      <3>2. \A d \in Nat : ~(short' /\ pageEnd' < d /\ d <= log)
        BY <1>0, <3>1 DEF BelowOwed
      <3>. QED
        BY <1>0, <1>1, <2>2, <2>3, <2>4, <3>1, <3>2 DEF Covered, StreamInv
    <2>6. CASE watchStore
      <3>1. /\ UNCHANGED <<phase, pageEnd, short>> /\ phase = "backfill"
            /\ cursor' = cursor + 1 /\ cursor' \in Nat
            /\ seen' = seen \cup {cursor'} /\ have' = have \cup {cursor'}
            /\ lastId' = cursor'
        BY <1>0, <2>6 DEF watchStore, Yielding, Covered, Live
      <3>2. 1..cursor' \subseteq Settled'
        BY <1>0, <1>1, <3>1 DEF Covered, Settled
      <3>. QED
        BY <1>0, <1>1, <2>2, <2>3, <2>4, <3>1, <3>2 DEF Covered, StreamInv
    <2>7. CASE handOver
      BY <1>0, <1>1, <2>2, <2>3, <2>4, <2>7 DEF handOver, clientVars, Covered, StreamInv
    <2>. QED
      BY <1>3, <2>5, <2>6, <2>7
  <1>. QED
    BY <1>2, <1>3

(* The loop takes the first of what it holds: nothing undelivered lies below
   it. *)
LEMMA FollowFacts ==
    ASSUME StreamInv, phase = "live", NEW e \in Transit, Before({e}, Transit \ {e}), Follow(e)
    PROVE  /\ have \subseteq have' /\ seen' \subseteq have'
           /\ lastId' \in Nat /\ 1..lastId' \subseteq have' \cup lost
           /\ e # Live => e \in have'
  <1>0. InOrder /\ BelowOwed /\ Covered
    BY DEF StreamInv
  <1>1. Transit \subseteq Nat /\ e \in Nat
    BY <1>0 DEF InOrder, Transit, Rng
  <1>2. CASE (seen # {} /\ e \in seen) \/ e = Live
    BY <1>0, <1>2 DEF Follow, Yielding, clientVars, Covered, Settled
  <1>3. CASE e # Live /\ ~(seen # {} /\ e \in seen)
    <2>1. seen' = {} /\ have' = have \cup {e} /\ lastId' = e
      BY <1>3 DEF Follow, Yielding
    <2>2. ASSUME NEW d \in 1..e PROVE d \in have' \cup lost
      <3>1. CASE d <= pageEnd
        BY <1>0, <1>1, <2>1, <3>1 DEF Covered, Settled
      <3>2. CASE d = e
        BY <2>1, <3>2
      <3>3. CASE pageEnd < d /\ d < e
        <4>1. d \in Nat /\ d # 0 /\ d <= log
          BY <1>0, <1>1, <3>3 DEF BelowOwed
        <4>2. d \in Settled \cup Transit \cup {owed}
          BY <1>0, <3>3, <4>1 DEF Covered
        <4>3. d # owed
          <5>1. owed # 0 => e < owed
            BY <1>0 DEF BelowOwed
          <5>2. owed \in Nat
            BY <1>0 DEF BelowOwed
          <5>. QED
            BY <1>1, <3>3, <4>1, <5>1, <5>2
        <4>4. d \notin Transit
          BY <1>1, <1>3, <3>3, <4>1 DEF Before, Live
        <4>. QED
          BY <2>1, <4>2, <4>3, <4>4 DEF Settled
      <3>. QED
        BY <1>0, <1>1, <3>1, <3>2, <3>3 DEF Covered
    <2>. QED
      BY <1>1, <2>1, <2>2
  <1>. QED
    BY <1>2, <1>3

(* The loop handles the first of all that is in transit, or waits. *)
LEMMA NextTakes ==
    ASSUME StreamInv, next
    PROVE  /\ InOrder'
           /\ \/ \E e \in Transit : Follow(e) /\ Before({e}, Transit') /\ Transit = Transit' \cup {e}
              \/ UNCHANGED <<seen, clientVars>> /\ Transit' = Transit
  <1>0. InOrder
    BY DEF StreamInv
  <1>1. wire' = wire
    BY DEF next, netVars
  <1>2. CASE hand # <<>> /\ hand' = Tail(hand) /\ items' = items /\ waiting' = waiting
             /\ Follow(Head(hand))
    <2>. DEFINE e == Head(hand)
    <2>1. /\ e \in Nat /\ hand' \in Seq(Nat) /\ Rng(hand) = Rng(hand') \cup {e}
          /\ Asc(hand') /\ Before({e}, Rng(hand'))
      BY <1>0, <1>2, TailFacts DEF InOrder
    <2>2. Follow(e)
      BY <1>2
    <2>. HIDE DEF e
    <2>3. /\ Transit = Rng(hand') \cup {e} \cup Rng(items) \cup Rng(wire)
          /\ Transit' = Rng(hand') \cup Rng(items) \cup Rng(wire)
      BY <1>1, <1>2, <2>1 DEF Transit
    <2>4. Before({e}, Transit')
      BY <1>0, <2>1, <2>3 DEF InOrder, Before
    <2>5. InOrder'
      BY <1>0, <1>1, <1>2, <2>1 DEF InOrder, Before
    <2>. QED
      BY <2>2, <2>3, <2>4, <2>5
  <1>3. CASE hand = <<>> /\ items # <<>> /\ items' = Tail(items) /\ hand' = hand
             /\ waiting' = waiting /\ Follow(Head(items))
    <2>. DEFINE e == Head(items)
    <2>1. /\ e \in Nat /\ items' \in Seq(Nat) /\ Rng(items) = Rng(items') \cup {e}
          /\ Asc(items') /\ Before({e}, Rng(items'))
      BY <1>0, <1>3, TailFacts DEF InOrder
    <2>2. Follow(e) /\ Rng(hand) = {} /\ ~waiting'
      BY <1>0, <1>3, EmptyFacts DEF InOrder
    <2>. HIDE DEF e
    <2>3. /\ Transit = Rng(items') \cup {e} \cup Rng(wire)
          /\ Transit' = Rng(items') \cup Rng(wire)
      BY <1>1, <1>3, <2>1, <2>2 DEF Transit
    <2>4. Before({e}, Transit')
      BY <1>0, <2>1, <2>3 DEF InOrder, Before
    <2>5. InOrder'
      BY <1>0, <1>1, <1>3, <2>1, <2>2 DEF InOrder, Before
    <2>. QED
      BY <2>2, <2>3, <2>4, <2>5
  <1>4. CASE hand = <<>> /\ items = <<>> /\ UNCHANGED <<items, hand, seen, clientVars>>
    BY <1>0, <1>1, <1>4 DEF InOrder, Transit
  <1>. QED
    BY <1>2, <1>3, <1>4 DEF next

LEMMA NextKeeps ==
    ASSUME StreamInv, next
    PROVE  StreamInv'
  <1>0. InOrder /\ BelowOwed /\ Direct /\ Covered
    BY DEF StreamInv
  <1>1. /\ UNCHANGED <<wireKind, log, owed, wire, sub, phase, cursor, pageEnd, short, lost>>
        /\ phase = "live"
    BY DEF next, pubVars, netVars, readVars
  <1>2. Direct' /\ InOrder'
    BY <1>0, <1>1, NextTakes DEF Direct
  <1>3. CASE \E e \in Transit : Follow(e) /\ Before({e}, Transit') /\ Transit = Transit' \cup {e}
    <2>0. PICK e \in Transit : Follow(e) /\ Before({e}, Transit') /\ Transit = Transit' \cup {e}
      BY <1>3
    <2>1. /\ have \subseteq have' /\ seen' \subseteq have'
          /\ lastId' \in Nat /\ 1..lastId' \subseteq have' \cup lost
          /\ e # Live => e \in have'
      <3>1. Before({e}, Transit \ {e})
        BY <2>0 DEF Before
      <3>. QED
        BY <1>1, <2>0, <3>1, FollowFacts
    <2>2. BelowOwed'
      BY <1>0, <1>1, <2>0 DEF BelowOwed
    <2>3. ASSUME NEW d \in Nat, pageEnd < d, d <= log
          PROVE  d \in Settled' \cup Transit' \cup {owed}
      <3>1. d \in Settled \cup Transit \cup {owed}
        BY <1>0, <1>1, <2>3 DEF Covered
      <3>2. d # Live
        BY <1>0, <2>3 DEF Covered, Live
      <3>. QED
        BY <1>1, <2>0, <2>1, <3>1, <3>2 DEF Settled
    <2>4. Covered'
      BY <1>0, <1>1, <2>1, <2>3 DEF Covered, Settled
    <2>. QED
      BY <1>2, <2>2, <2>4 DEF StreamInv
  <1>4. CASE UNCHANGED <<seen, clientVars>> /\ Transit' = Transit
    BY <1>0, <1>1, <1>2, <1>4 DEF BelowOwed, Covered, Settled, StreamInv, clientVars
  <1>. QED
    BY <1>3, <1>4, NextTakes

(* An idle tick leaves a waiter behind, and a client that leaves takes its
   queue along. *)
LEMMA LeaveKeeps ==
    ASSUME StreamInv, idleTick \/ stopSubscription
    PROVE  StreamInv' /\ Transit' \subseteq Transit
  <1>0. InOrder /\ BelowOwed /\ Direct /\ Covered
    BY DEF StreamInv
  <1>1. UNCHANGED <<wireKind, log, owed, cursor, pageEnd, short, seen, have, lastId, lost>>
    BY DEF idleTick, stopSubscription, pubVars, readVars, clientVars
  <1>2. CASE idleTick
    <2>1. UNCHANGED <<wire, sub, phase, items, hand>> /\ ~waiting'
      BY <1>2 DEF idleTick, netVars, readVars
    <2>2. InOrder' /\ Transit' = Transit
      BY <1>0, <2>1 DEF InOrder, Transit
    <2>. QED
      BY <1>0, <1>1, <2>1, <2>2 DEF BelowOwed, Direct, Covered, Settled, StreamInv
  <1>3. CASE stopSubscription
    <2>1. /\ phase' = "off" /\ wire' = <<>> /\ items' = <<>> /\ hand' = <<>> /\ ~waiting'
      BY <1>3 DEF stopSubscription
    <2>2. /\ Rng(wire') = {} /\ Rng(items') = {} /\ Rng(hand') = {}
          /\ Asc(wire') /\ Asc(items') /\ Asc(hand') /\ <<>> \in Seq(Nat)
      BY <2>1, EmptyFacts
    <2>3. InOrder' /\ Transit' = {}
      BY <2>1, <2>2 DEF InOrder, Before, Transit
    <2>. QED
      BY <1>0, <1>1, <2>1, <2>3 DEF BelowOwed, Direct, Covered, Settled, StreamInv
  <1>. QED
    BY <1>2, <1>3

(* Every step keeps the invariant. *)
LEMMA StreamInductive == StreamInv /\ [Next]_vars => StreamInv'
  <1>. SUFFICES ASSUME StreamInv, [Next]_vars PROVE StreamInv'
    OBVIOUS
  <1>1. CASE UNCHANGED vars
    <2>1. /\ UNCHANGED <<wireKind, log, owed, wire, sub, phase, cursor, pageEnd, short>>
          /\ UNCHANGED <<items, hand, waiting, seen, have, lastId, lost>>
      BY <1>1 DEF vars, pubVars, netVars, readVars, queueVars, clientVars
    <2>. QED
      BY <2>1 DEF StreamInv, InOrder, BelowOwed, Direct, Covered, Transit, Settled
  <1>. QED
    BY <1>1, AppendKeeps, EmitKeeps, NetworkKeeps, BackfillKeeps, NextKeeps, LeaveKeeps
    DEF Next, Worker, Network, Watcher, Faults

(* The order of subscribing, reading the log and following the queue, and of
   appending before emitting, lets no record slip through
   (session-service.ts:318-420, publisher.ts, broadcast.ts). *)
THEOREM NothingSlips == Spec => []NothingSlipsThrough
  <1>1. StreamInv => NothingSlipsThrough
    BY DEF StreamInv, Covered, Settled, NothingSlipsThrough
  <1>. QED
    BY <1>1, StreamInit, StreamInductive, PTL DEF Spec

---------------------------------------------------------------------------
(* The seam between the backfill and what is followed.                     *)

\* What the connection delivered past the backfill lies below all that is to
\* come.
Passed(d) == (owed # 0 => d < owed) /\ \A x \in Transit : x # Live => d < x

\* The inductive invariant.
SeamInv ==
    /\ resumed \in Nat /\ resumed <= cursor /\ cursor <= pageEnd /\ pageEnd <= log
    /\ lastId <= log
    /\ got \subseteq 1..log
    /\ phase \in {"off", "backfill", "live"}
    /\ phase = "backfill" => got = (resumed + 1)..cursor /\ twice = {}
    /\ phase = "live" => (resumed + 1)..pageEnd \subseteq got
    /\ TwiceOnlyPastTheWindow
    /\ phase # "off" => \A d \in got : d <= pageEnd \/ Passed(d)

(* The types that the invariant of the stream gives. *)
LEMMA StreamTypes ==
    ASSUME StreamInv
    PROVE  /\ log \in Nat /\ owed \in 0..log /\ cursor \in Nat /\ pageEnd \in Nat
           /\ lastId \in Nat /\ Transit \subseteq Nat
           /\ \A x \in Transit : x <= log /\ (owed # 0 => x < owed)
  BY DEF StreamInv, BelowOwed, Covered, InOrder, Transit, Rng

(* Nothing is delivered at the beginning. *)
LEMMA SeamInit == Init => SeamInv
  BY StreamAssumption DEF Init, SeamInv, TwiceOnlyPastTheWindow

(* What comes into transit was owed or is appended after all that was
   delivered. *)
LEMMA SeamStays ==
    ASSUME StreamInv, SeamInv, UNCHANGED <<phase, resumed, cursor, pageEnd, seen, got, twice, lastId>>,
           log' \in Nat, log <= log', owed' \in Nat, owed' \in {owed, 0} \/ log < owed',
           Transit' \subseteq Transit \cup {owed, Live}
    PROVE  SeamInv'
  <1>1. \A d \in got : d \in Nat /\ d <= log /\ (Passed(d) => Passed(d)')
    <2>. SUFFICES ASSUME NEW d \in got PROVE d \in Nat /\ d <= log /\ (Passed(d) => Passed(d)')
      OBVIOUS
    <2>1. d \in Nat /\ d <= log
      BY StreamTypes DEF SeamInv
    <2>2. ASSUME Passed(d) PROVE Passed(d)'
      <3>1. owed' # 0 => d < owed'
        BY <2>1, <2>2, StreamTypes DEF Passed
      <3>2. \A x \in Transit' : x # Live => d < x
        BY <2>2 DEF Passed, Live
      <3>. QED
        BY <3>1, <3>2 DEF Passed
    <2>. QED
      BY <2>1, <2>2
  <1>2. got \subseteq 1..log' /\ pageEnd <= log' /\ lastId <= log'
    BY <1>1, StreamTypes DEF SeamInv
  <1>. QED
    BY <1>1, <1>2 DEF SeamInv, TwiceOnlyPastTheWindow

(* The backfill delivers the log past the cursor, in order and once. *)
LEMMA BackfillSeam ==
    ASSUME StreamInv, SeamInv, watchEvents \/ readRecordPage \/ watchStore \/ handOver
    PROVE  SeamInv' /\ FirstSightsAscend
  <1>0. /\ UNCHANGED <<log, owed>> /\ Transit' \subseteq Transit
    BY BackfillKeeps DEF watchEvents, readRecordPage, watchStore, handOver, pubVars
  <1>1. CASE watchEvents
    <2>1. /\ phase' = "backfill" /\ resumed' = lastId /\ cursor' = lastId /\ pageEnd' = lastId
          /\ got' = {} /\ twice' = {} /\ lastId' = lastId
      BY <1>1 DEF watchEvents
    <2>2. (lastId + 1)..lastId = {}
      BY StreamTypes
    <2>3. SeamInv'
      BY <1>0, <2>1, <2>2, StreamTypes DEF SeamInv, TwiceOnlyPastTheWindow
    <2>. QED
      BY <2>1, <2>3 DEF FirstSightsAscend
  <1>2. CASE readRecordPage
    <2>1. /\ phase = "backfill" /\ UNCHANGED <<phase, resumed, cursor, seen, got, twice, lastId>>
          /\ pageEnd' = IF cursor + PageSize <= log THEN cursor + PageSize ELSE log
      BY <1>2 DEF readRecordPage, clientVars
    <2>2. pageEnd' \in Nat /\ cursor <= pageEnd' /\ pageEnd' <= log
      BY <2>1, StreamTypes, CapacityFacts DEF SeamInv
    <2>3. got = (resumed + 1)..cursor /\ twice = {} /\ \A d \in got : d <= pageEnd'
      BY <2>1, <2>2, StreamTypes DEF SeamInv
    <2>4. SeamInv'
      BY <1>0, <2>1, <2>2, <2>3 DEF SeamInv, TwiceOnlyPastTheWindow
    <2>. QED
      BY <2>1, <2>4 DEF FirstSightsAscend
  <1>3. CASE watchStore
    <2>1. /\ phase = "backfill" /\ UNCHANGED <<phase, resumed, pageEnd>> /\ cursor < pageEnd
          /\ cursor' = cursor + 1
          /\ got = (resumed + 1)..cursor /\ twice = {}
      BY <1>3 DEF watchStore, SeamInv
    <2>2. cursor + 1 # Live /\ cursor + 1 \notin got
      BY <2>1, StreamTypes DEF Live, SeamInv
    <2>3. got' = got \cup {cursor + 1} /\ twice' = {} /\ lastId' = cursor + 1
      BY <1>3, <2>1, <2>2 DEF watchStore, Yielding
    <2>4. got' = (resumed + 1)..cursor' /\ cursor + 1 <= log /\ \A d \in got' : d <= pageEnd
      BY <2>1, <2>3, StreamTypes DEF SeamInv
    <2>5. SeamInv'
      BY <1>0, <2>1, <2>3, <2>4, StreamTypes DEF SeamInv, TwiceOnlyPastTheWindow
    <2>6. \A d \in got : d < cursor + 1
      BY <2>1, StreamTypes DEF SeamInv
    <2>. QED
      BY <2>3, <2>5, <2>6 DEF FirstSightsAscend
  <1>4. CASE handOver
    <2>1. /\ phase = "backfill" /\ phase' = "live" /\ cursor = pageEnd
          /\ UNCHANGED <<resumed, cursor, pageEnd, seen, got, twice, lastId>>
      BY <1>4 DEF handOver, clientVars
    <2>2. got = (resumed + 1)..cursor /\ twice = {} /\ \A d \in got : d <= pageEnd
      BY <2>1, StreamTypes DEF SeamInv
    <2>3. SeamInv'
      BY <1>0, <2>1, <2>2 DEF SeamInv, TwiceOnlyPastTheWindow
    <2>. QED
      BY <2>1, <2>3 DEF FirstSightsAscend
  <1>. QED
    BY <1>1, <1>2, <1>3, <1>4

(* What is followed comes after all that was followed before it, and what was
   delivered already is of the backfill. *)
LEMMA NextSeam ==
    ASSUME StreamInv, SeamInv, next
    PROVE  SeamInv' /\ FirstSightsAscend
  <1>1. /\ UNCHANGED <<log, owed, phase, resumed, cursor, pageEnd>> /\ phase = "live"
    BY DEF next, pubVars, readVars
  <1>2. CASE UNCHANGED <<seen, clientVars>> /\ Transit' = Transit
    <2>1. SeamInv'
      BY <1>1, <1>2, StreamTypes, SeamStays DEF clientVars
    <2>. QED
      BY <1>2, <2>1 DEF FirstSightsAscend, clientVars
  <1>3. ASSUME NEW e \in Transit, Follow(e), Before({e}, Transit'), Transit = Transit' \cup {e}
        PROVE  SeamInv' /\ FirstSightsAscend
    <2>0. Transit' \subseteq Transit /\ e \in Nat /\ e <= log
      BY <1>3, StreamTypes
    <2>1. CASE UNCHANGED clientVars /\ seen' \in {seen, {}}
      <3>1. \A d \in got : Passed(d) => Passed(d)'
        BY <1>1, <2>0, <2>1 DEF Passed, clientVars
      <3>2. SeamInv'
        BY <1>1, <2>1, <3>1 DEF SeamInv, TwiceOnlyPastTheWindow, clientVars
      <3>. QED
        BY <2>1, <3>2 DEF FirstSightsAscend, clientVars
    <2>2. CASE e # Live /\ seen' = {} /\ Yielding(e)
      <3>1. /\ got' = got \cup {e} /\ lastId' = e
            /\ twice' = IF e \in got THEN twice \cup {e} ELSE twice
        BY <2>2 DEF Yielding
      <3>2. e \in 1..log
        BY <2>0, <2>2 DEF Live
      <3>3. ASSUME NEW d \in got' PROVE d <= pageEnd \/ Passed(d)'
        <4>1. CASE d \in got
          BY <1>1, <2>0, <4>1 DEF SeamInv, Passed
        <4>2. CASE d = e
          <5>1. owed # 0 => e < owed
            BY <1>3, StreamTypes
          <5>2. \A x \in Transit' : x # Live => e < x
            BY <1>3, <2>2 DEF Before
          <5>. QED
            BY <1>1, <4>2, <5>1, <5>2 DEF Passed
        <4>. QED
          BY <3>1, <3>3, <4>1, <4>2
      <3>4. e \in got => e <= pageEnd
        <4>1. ~Passed(e)
          BY <1>3, <2>0, <2>2 DEF Passed
        <4>. QED
          BY <1>1, <4>1 DEF SeamInv
      <3>5. TwiceOnlyPastTheWindow'
        BY <1>1, <2>2, <3>1, <3>2, <3>4, StreamTypes DEF SeamInv, TwiceOnlyPastTheWindow
      <3>6. SeamInv'
        BY <1>1, <3>1, <3>2, <3>3, <3>5 DEF SeamInv
      <3>7. ASSUME e \notin got, e > resumed, NEW d \in got PROVE d < e
        <4>1. ~(e \in (resumed + 1)..pageEnd)
          BY <1>1, <3>7 DEF SeamInv
        <4>2. pageEnd < e /\ d \in Nat
          BY <2>0, <3>7, <4>1, StreamTypes DEF SeamInv
        <4>3. d <= pageEnd \/ Passed(d)
          BY <1>1, <3>7 DEF SeamInv
        <4>4. Passed(d) => d < e
          BY <1>3, <2>2 DEF Passed
        <4>. QED
          BY <2>0, <4>2, <4>3, <4>4, StreamTypes
      <3>8. FirstSightsAscend
        BY <3>1, <3>7 DEF FirstSightsAscend
      <3>. QED
        BY <3>6, <3>8
    <2>. QED
      BY <1>3, <2>1, <2>2 DEF Follow, Yielding
  <1>. QED
    BY <1>2, <1>3, NextTakes

(* What a watcher sees of the seam: in one connection the durable events past
   its cursor come in log order, each first once, and a second time only from
   the overlap, once the window is closed (session-service.ts:318-420). *)
THEOREM TheSeamIsInOrder == Spec => SeamIsInOrder
  <1>1. StreamInv /\ SeamInv /\ [Next]_vars => SeamInv' /\ [FirstSightsAscend]_vars
    <2>. SUFFICES ASSUME StreamInv, SeamInv, [Next]_vars PROVE SeamInv' /\ [FirstSightsAscend]_vars
      OBVIOUS
    <2>1. CASE UNCHANGED vars
      <3>1. UNCHANGED <<log, owed, phase, resumed, cursor, pageEnd, seen, got, twice, lastId,
                        hand, items, wire>>
        BY <2>1 DEF vars, pubVars, netVars, readVars, queueVars, clientVars
      <3>2. SeamInv'
        BY <3>1 DEF SeamInv, TwiceOnlyPastTheWindow, Passed, Transit
      <3>. QED
        BY <2>1, <3>2
    <2>2. CASE appendRecord \/ acceptEvent \/ workerDies \/ emitCommitted \/ emit
               \/ subscriptionLands \/ messageArrives \/ connectionDrops \/ idleTick
      <3>1. /\ UNCHANGED <<phase, resumed, cursor, pageEnd, seen, got, twice, lastId>>
            /\ log' \in {log, log + 1} /\ owed' \in {owed, 0, log + 1}
        BY <2>2 DEF appendRecord, acceptEvent, workerDies, emitCommitted, emit,
           subscriptionLands, messageArrives, connectionDrops, idleTick,
           pubVars, readVars, clientVars
      <3>2. Transit' \subseteq Transit \cup {owed, Live}
        BY <2>2, AppendKeeps, EmitKeeps, NetworkKeeps, LeaveKeeps
      <3>3. log' \in Nat /\ owed' \in Nat /\ log <= log' /\ (owed' \in {owed, 0} \/ log < owed')
        BY <3>1, StreamTypes
      <3>4. SeamInv'
        BY <3>1, <3>2, <3>3, SeamStays
      <3>. QED
        BY <3>1, <3>4 DEF FirstSightsAscend
    <2>3. CASE stopSubscription
      <3>1. /\ phase' = "off"
            /\ UNCHANGED <<log, resumed, cursor, pageEnd, seen, got, twice, lastId>>
        BY <2>3 DEF stopSubscription, pubVars, clientVars
      <3>2. SeamInv'
        BY <3>1 DEF SeamInv, TwiceOnlyPastTheWindow
      <3>. QED
        BY <3>1, <3>2 DEF FirstSightsAscend
    <2>4. CASE watchEvents \/ readRecordPage \/ watchStore \/ handOver
      BY <2>4, BackfillSeam
    <2>5. CASE next
      BY <2>5, NextSeam
    <2>. QED
      BY <2>1, <2>2, <2>3, <2>4, <2>5 DEF Next, Worker, Network, Watcher, Faults
  <1>2. SeamInv' => TwiceOnlyPastTheWindow'
    BY DEF SeamInv
  <1>3. [FirstSightsAscend]_vars /\ TwiceOnlyPastTheWindow'
            => [FirstSightsAscend /\ TwiceOnlyPastTheWindow']_vars
    OBVIOUS
  <1>. QED
    BY <1>1, <1>2, <1>3, StreamInit, StreamInductive, SeamInit, PTL DEF Spec, SeamIsInOrder
=============================================================================
