--------------------------- MODULE PlayerQueuesProofs ---------------------------
(***************************************************************************)
(* Proofs about PlayerQueues: the type of the state with the exact size of *)
(* the queues (TypeOK), that the threads meet on a synchronize message     *)
(* (SyncTogether), and what the player's thread may rely on when it has    *)
(* waited for the others (Settled).                                        *)
(***************************************************************************)
EXTENDS PlayerQueues, FiniteSetTheorems, SequenceTheorems, WellFoundedInduction, TLAPS

-------------------------------------------------------------------------------
(* The inductive invariant *)

Items ==
  {it \in [message : Messages, priority : Nat] :
     /\ it.message.type = "sync" => it.message.id \in Syncs /\ it.priority <= 1
     /\ it.message.type = "flush" => it.priority = 1}

Packets == {m \in Messages : m.type = "packet"}

SyncMessage(s) == Message("sync", s)
FlushPut(q) == PutCall(q, Message("flush", 0), 1)

PutCalls ==
  {FlushPut(q) : q \in Players}
    \cup {PutCall(q, Message("reset", 0), 0) : q \in Players}
    \cup {PutCall(q, SyncMessage(s), p) : q \in Players, s \in Syncs, p \in {0, 1}}

ThreadCalls == {"init", "create", "abort", "join", "end"}

OwnCalls ==
  {OwnCall(name, q) : name \in ThreadCalls \cup {"flush"}, q \in Players}
    \cup {OwnCall("clock", Owner)}

WaitCalls == {SyncCall(name, s) : name \in {"wait", "waitOrStop", "release"}, s \in Syncs}

PlayerCalls == PutCalls \cup OwnCalls \cup WaitCalls

\* The place of a call among those of a handler: no handler makes two of one rank.
Rank(c) ==
  CASE c.call = "flush" -> IF c.q = Audio THEN 1 ELSE 3
    [] c.call = "put" /\ ~IsSync(c.message) -> IF c.q = Audio THEN 2 ELSE 4
    [] c.call = "put" /\ IsSync(c.message) -> IF c.q = Audio THEN 5 ELSE 6
    [] c.call \in {"wait", "waitOrStop"} -> 7
    [] c.call = "release" -> 8
    [] c.call \in {"init", "abort"} -> 9
    [] c.call \in {"create", "join"} -> 10
    [] c.call = "end" -> 11
    [] OTHER -> 12

Ranked(calls) == \A i, j \in 1 .. Len(calls) : i < j => Rank(calls[i]) < Rank(calls[j])

\* The calls that are left of the handler.
Left == Range(todo)

Waits(s) == SyncCall("wait", s) \in Left \/ SyncCall("waitOrStop", s) \in Left
Puts(q, s) == \E p \in {0, 1} : PutCall(q, SyncMessage(s), p) \in Left
Flushing(q) == OwnCall("flush", q) \in Left

Sorted(list) == \A i, j \in 1 .. Len(list) : i < j => list[i].priority <= list[j].priority

Elements(list) == {list[i] : i \in 1 .. Len(list)}

\* Each item of S is read after those of T.
Behind(list, S, T) ==
  \A i, j \in 1 .. Len(list) : list[i] \in S /\ list[j] \in T => i < j

SyncItems(s) == {x \in Items : x.message = SyncMessage(s)}
FlushItems == {x \in Items : x.message.type = "flush"}
PacketItems == {x \in Items : IsPacket(x)}

InList(list, s) == \E x \in Elements(list) : x.message = SyncMessage(s)

Has(q, s) == InList(queue[q].list, s) \/ item[q].message = SyncMessage(s)

QueueSet ==
  [list : Seq(Items), m_iDataSize : Nat, m_hEvent : BOOLEAN, m_bAbortRequest : BOOLEAN,
   m_bInitialized : BOOLEAN]

SyncSet ==
  [sources : SUBSET Everyone, reached : SUBSET Everyone, refs : Nat, late : BOOLEAN,
   passed : BOOLEAN, stopped : BOOLEAN]

Positions ==
  {"none", "loop", "wait", "handle", "recover", "meet", "putBack", "release", "ended"}

Types ==
  /\ queue \in [Players -> QueueSet]
  /\ sync \in [Syncs -> SyncSet]
  /\ pc \in [Players -> Positions]
  /\ item \in [Players -> Items]
  /\ ask \in [Players -> {0, 1}]
  /\ m_packets \in [Players -> Seq(Packets)]
  /\ todo \in Seq(PlayerCalls)
  /\ m_bStop \in BOOLEAN /\ waited \in {"no", "emptied", "flushed"} /\ now \in Nat
  /\ \A q \in Players :
       /\ Sorted(queue[q].list)
       /\ Len(m_packets[q]) <= MaxConverge

Sized == \A q \in Players : queue[q].m_iDataSize = Cardinality(Counted(queue[q].list))

\* What a thread holds at each of its places.
Hands ==
  \A q \in Players :
    /\ pc[q] \in {"none", "loop", "wait", "ended"} => item[q] = Nothing
    /\ pc[q] = "recover" => IsPacket(item[q])
    /\ pc[q] \in {"meet", "putBack", "release"} => IsSync(item[q].message)

\* How the calls of a handler belong together.
Handlers ==
  /\ Ranked(todo)
  /\ \A c, d \in Left : IsSync(c.message) /\ IsSync(d.message) => c.message = d.message
  /\ \A c \in Left : IsSync(c.message) => SyncCall("release", c.message.id) \in Left
  /\ \A c, d \in Left :
       c.call = "waitOrStop" => d.call \in {"flush", "put", "waitOrStop", "release"}
  /\ \A q \in Players : Flushing(q) => FlushPut(q) \in Left
  /\ \A q \in Players, s \in Syncs :
       SyncCall("waitOrStop", s) \in Left /\ FlushPut(q) \in Left => Puts(q, s)
  /\ \A c, d \in Left : c.call \in ThreadCalls /\ d.call \in ThreadCalls => c.q = d.q

\* A player that is closed has no thread and an empty queue.
Lives ==
  \A q \in Players :
    /\ ~IsOpen(q) => queue[q].list = <<>> /\ pc[q] = "none"
    /\ OwnCall("init", q) \in Left => ~IsOpen(q)
    /\ OwnCall("create", q) \in Left =>
         /\ pc[q] = "none" /\ (OwnCall("init", q) \in Left \/ IsOpen(q))
         /\ OwnCall("end", q) \notin Left
    /\ OwnCall("end", q) \in Left => OwnCall("join", q) \in Left \/ pc[q] = "none"

\* Every reference of a synchronize message is in a queue, in the hands of a thread, or the
\* player's own.
Held(q, s) == IF item[q].message = SyncMessage(s) THEN 1 ELSE 0
Owned(s) == IF SyncCall("release", s) \in Left THEN 1 ELSE 0

Count(q, s) == Entries(queue[q], SyncMessage(s)) + Held(q, s)
Total(s) == Count(Audio, s) + Count(Video, s) + Owned(s)

CountsFor(s) == sync[s].refs = Total(s) /\ (sync[s].refs = 0 => sync[s] = Gone)

\* Who has entered Wait.
ReachesFor(s) ==
  /\ sync[s].reached \subseteq sync[s].sources
  /\ Waits(s) => sync[s].sources = Everyone /\ ~sync[s].stopped
  /\ \A q \in Players : item[q].message = SyncMessage(s) =>
       /\ pc[q] \in {"meet", "putBack"} => q \in sync[s].reached
       /\ pc[q] = "release" /\ q \in sync[s].sources => q \in sync[s].reached

\* As long as nobody has got past Wait, each thread that is there still has its reference, for as
\* long as the player waits, too; and when the player is there, it has sent the message to all.
PresentFor(s) ==
  ~sync[s].passed /\ ~sync[s].late /\ ~sync[s].stopped =>
    /\ Owner \in sync[s].reached => Waits(s) /\ \A q \in Players : ~Puts(q, s)
    /\ Waits(s) => \A q \in Players \cap sync[s].reached :
         /\ Has(q, s)
         /\ pc[q] = "release" /\ item[q].message = SyncMessage(s) => InList(queue[q].list, s)

\* SyncTogether, for one message and with Has.
Involved(q, s) == Has(q, s) \/ (IsOpen(q) /\ Puts(q, s))

TogetherFor(s) ==
  sync[s].passed /\ ~sync[s].late /\ ~sync[s].stopped =>
    \A q \in Players : Involved(q, s) /\ q \in sync[s].sources => q \in sync[s].reached

Meets(s) == CountsFor(s) /\ ReachesFor(s) /\ PresentFor(s) /\ TogetherFor(s)

Meetings == \A s \in Syncs : Meets(s)

IsFlush(x) == x.message.type = "flush"

NoStale(list) == \A x \in Elements(list) : ~IsStale(x.message)
NoPacket(list) == \A x \in Elements(list) : ~IsPacket(x)

\* A thread that has nothing from before the last flush.
Clean(q) ==
  /\ NoStale(queue[q].list)
  /\ ~IsStale(item[q].message)
  /\ \A i \in 1 .. Len(m_packets[q]) : ~IsStale(m_packets[q][i])

\* A thread that has no packet left to handle.
Emptied(q) == NoPacket(queue[q].list) /\ ~IsPacket(item[q])

HasFlush(list) == \E x \in Elements(list) : IsFlush(x)

\* A thread that is given the message has it, or has been at its Wait.
Given(q, s) == Puts(q, s) \/ Has(q, s) \/ q \in sync[s].reached

\* FlushBuffers, up to the player's Wait: a thread gets to the synchronize message only after it
\* has handled the flush, and it is clean from then on.
FlushFirst(q, s) ==
  /\ Given(q, s)
  /\ FlushPut(q) \in Left => ~Has(q, s) /\ q \notin sync[s].reached
  /\ Behind(queue[q].list, SyncItems(s), FlushItems)
  /\ ~Flushing(q) =>
       /\ \A x \in Elements(queue[q].list) : IsStale(x.message) => x.priority >= 10
       /\ FlushPut(q) \in Left \/ HasFlush(queue[q].list) \/ IsFlush(item[q]) \/ Clean(q)
       /\ IsFlush(item[q]) => NoStale(queue[q].list)
  /\ item[q].message = SyncMessage(s) \/ q \in sync[s].reached => Clean(q)

\* WaitUntilEmpty, up to the player's Wait: the message is behind all packets.
EmptiesFirst(q, s) ==
  /\ Given(q, s) /\ PutCall(q, SyncMessage(s), 1) \notin Left
  /\ Behind(queue[q].list, SyncItems(s), PacketItems)
  /\ item[q].message = SyncMessage(s) \/ q \in sync[s].reached => Emptied(q)

Settles ==
  \A q \in Players, s \in Syncs : IsOpen(q) =>
    /\ SyncCall("waitOrStop", s) \in Left => FlushFirst(q, s)
    /\ SyncCall("wait", s) \in Left /\ OwnCall("abort", q) \in Left => EmptiesFirst(q, s)

HasSettled ==
  /\ waited = "flushed" => \A c \in Left : c.call = "release"
  /\ waited = "flushed" => \A q \in Players : IsOpen(q) => Clean(q)
  /\ waited = "emptied" => \A q \in Players : OwnCall("abort", q) \in Left => Emptied(q)

IInv ==
  Types /\ Sized /\ Hands /\ Handlers /\ Lives /\ Meetings /\ Settles /\ HasSettled

-------------------------------------------------------------------------------
(* Lists *)

\* Induction over the naturals, for a set.
LEMMA SetInduction ==
  ASSUME NEW S, 0 \in S, \A n \in Nat : n \in S => n + 1 \in S
  PROVE  Nat \subseteq S
<1> DEFINE Less == {ab \in Nat \X Nat : ab[1] < ab[2]}
<1>1. IsWellFoundedOn(Less, Nat)
  <2>1. OpToRel(<, Nat) = Less
    BY DEF OpToRel
  <2> QED
    BY Zenon, <2>1, NatLessThanWellFounded
<1>2. SUFFICES ASSUME Nat \ S # {}
               PROVE  FALSE
  OBVIOUS
<1>3. PICK b \in Nat \ S : \A k \in Nat \ S : <<k, b>> \notin Less
  <2>1. Nat \ S \subseteq Nat
    OBVIOUS
  <2> HIDE DEF Less
  <2> QED
    BY <1>1, <1>2, <2>1, WFMin
<1>4. b # 0 /\ b - 1 \in Nat /\ <<b - 1, b>> \in Less
  BY <1>3
<1> QED
  BY <1>3, <1>4

\* A set of naturals that is not empty has a least element.
LEMMA LeastIn ==
  ASSUME NEW S \in SUBSET Nat, S # {}
  PROVE  Min(S) \in S /\ \A n \in S : Min(S) <= n
<1> DEFINE Below == {n \in Nat : \A k \in 0 .. n : k \notin S}
<1>1. \E m \in S : \A n \in S : m <= n
  <2> SUFFICES ASSUME ~\E m \in S : \A n \in S : m <= n
               PROVE  FALSE
    OBVIOUS
  <2>1. 0 \in Below
    OBVIOUS
  <2>2. ASSUME NEW n \in Nat, n \in Below
        PROVE  n + 1 \in Below
    BY <2>2
  <2>3. Nat \subseteq Below
    <3> HIDE DEF Below
    <3> QED
      BY <2>1, <2>2, SetInduction
  <2>4. PICK m \in S : TRUE
    OBVIOUS
  <2>5. m \in Nat /\ m \in 0 .. m
    OBVIOUS
  <2> QED
    BY <2>3, <2>4, <2>5
<1> QED
  BY <1>1 DEF Min

\* The places of a list whose items are in a set.
Places(list, S) == {i \in 1 .. Len(list) : list[i] \in S}

LEMMA PlacesFinite ==
  ASSUME NEW T, NEW list \in Seq(T), NEW S
  PROVE  IsFiniteSet(Places(list, S)) /\ Cardinality(Places(list, S)) \in Nat
<1>1. Len(list) \in Nat /\ IsFiniteSet(1 .. Len(list))
  BY LenProperties, FS_Interval
<1> QED
  BY <1>1, FS_Subset, FS_CardinalityType DEF Places

\* What a list is with an item at the place where Put inserts it.
Inserted(new, list, k, it) ==
  /\ k \in 1 .. Len(list) + 1
  /\ Len(new) = Len(list) + 1
  /\ new[k] = it
  /\ \A i \in 1 .. (k - 1) : new[i] = list[i] /\ list[i].priority < it.priority
  /\ \A i \in k .. Len(list) : new[i + 1] = list[i] /\ it.priority <= list[i].priority

LEMMA InsertedIs ==
  ASSUME NEW list \in Seq(Items), Sorted(list), NEW it \in Items
  PROVE  /\ Insert(list, it) \in Seq(Items)
         /\ \E k \in 1 .. Len(list) + 1 : Inserted(Insert(list, it), list, k, it)
<1> DEFINE L == Len(list)
           I == {i \in 1 .. L : it.priority <= list[i].priority}
           i0 == IF I # {} THEN Min(I) ELSE 0
<1>1. L \in Nat /\ \A i \in 1 .. L : list[i] \in Items
  BY LenProperties, ElementOfSeq
<1>2. it.priority \in Nat /\ \A i \in 1 .. L : list[i].priority \in Nat
  BY <1>1 DEF Items
<1>3. Insert(list, it) = IF i0 = 0 THEN Append(list, it) ELSE InsertAt(list, i0, it)
  BY DEF Insert, SelectInSeq
<1>4. CASE I = {}
  <2>1. Insert(list, it) = Append(list, it)
    BY <1>3, <1>4
  <2>2. /\ Append(list, it) \in Seq(Items) /\ Len(Append(list, it)) = L + 1
        /\ \A i \in 1 .. L : Append(list, it)[i] = list[i]
        /\ Append(list, it)[L + 1] = it
    BY AppendProperties
  <2>3. \A i \in 1 .. L : list[i].priority < it.priority
    BY <1>2, <1>4
  <2>4. Inserted(Append(list, it), list, L + 1, it)
    BY <1>1, <2>2, <2>3 DEF Inserted
  <2> QED
    BY <1>1, <2>1, <2>2, <2>4
<1>5. CASE I # {}
  <2>1. i0 \in I /\ \A n \in I : i0 <= n
    <3>1. I \in SUBSET Nat
      BY <1>1
    <3> HIDE DEF I
    <3> QED
      BY <1>5, <3>1, LeastIn
  <2>2. Insert(list, it) = InsertAt(list, i0, it)
    BY <1>1, <1>3, <2>1
  <2> DEFINE a == SubSeq(list, 1, i0 - 1)
             b == SubSeq(list, i0, L)
  <2>3. i0 \in 1 .. L
    BY <2>1
  <2> HIDE DEF i0
  <2>4. /\ a \in Seq(Items) /\ Len(a) = i0 - 1
        /\ \A i \in 1 .. (i0 - 1) : a[i] = list[i]
    <3>1. /\ a \in Seq(Items)
          /\ Len(a) = IF 1 <= i0 - 1 THEN i0 - 1 - 1 + 1 ELSE 0
          /\ \A i \in 1 .. (i0 - 1 - 1 + 1) : a[i] = list[1 + i - 1]
      BY <1>1, <2>3, SubSeqProperties
    <3> QED
      BY <1>1, <2>3, <3>1
  <2>5. /\ b \in Seq(Items) /\ Len(b) = L - i0 + 1
        /\ \A i \in 1 .. (L - i0 + 1) : b[i] = list[i0 + i - 1]
    BY <1>1, <2>3, SubSeqProperties
  <2>6. InsertAt(list, i0, it) = a \o <<it>> \o b
    BY DEF InsertAt
  <2> HIDE DEF a, b
  <2>7. /\ a \o <<it>> \in Seq(Items) /\ Len(a \o <<it>>) = i0
        /\ \A i \in 1 .. (i0 - 1) : (a \o <<it>>)[i] = list[i]
        /\ (a \o <<it>>)[i0] = it
    BY <2>3, <2>4, ConcatProperties
  <2> DEFINE c == a \o <<it>>
             n == c \o b
  <2> HIDE DEF c
  <2>8. /\ n \in Seq(Items) /\ Len(n) = L + 1
        /\ \A i \in 1 .. (L + 1) : n[i] = IF i <= i0 THEN c[i] ELSE b[i - i0]
    <3>1. c \in Seq(Items) /\ Len(c) = i0
      BY <2>7 DEF c
    <3>2. /\ n \in Seq(Items) /\ Len(n) = Len(c) + Len(b)
          /\ \A i \in 1 .. (Len(c) + Len(b)) :
               n[i] = IF i <= Len(c) THEN c[i] ELSE b[i - Len(c)]
      BY <2>5, <3>1, ConcatProperties
    <3>3. Len(c) + Len(b) = L + 1
      BY <1>1, <2>3, <2>5, <3>1
    <3> HIDE DEF n
    <3> QED
      BY <3>1, <3>2, <3>3
  <2>9. c[i0] = it /\ \A i \in 1 .. (i0 - 1) : c[i] = list[i]
    BY <2>7 DEF c
  <2>10. \A i \in i0 .. L : b[i + 1 - i0] = list[i]
    <3> SUFFICES ASSUME NEW i \in i0 .. L
                 PROVE  b[i + 1 - i0] = list[i]
      OBVIOUS
    <3>1. i + 1 - i0 \in 1 .. (L - i0 + 1) /\ i0 + (i + 1 - i0) - 1 = i
      BY <1>1, <2>3
    <3> QED
      BY <2>5, <3>1
  <2>11. Insert(list, it) = n
    BY <2>2, <2>6 DEF c
  <2> HIDE DEF n
  <2>12. \A i \in 1 .. (i0 - 1) : n[i] = list[i] /\ list[i].priority < it.priority
    BY <1>2, <2>1, <2>3, <2>8, <2>9
  <2>13. \A i \in i0 .. L : n[i + 1] = list[i] /\ it.priority <= list[i].priority
    <3>1. \A i \in i0 .. L : it.priority <= list[i].priority
      <4>1. \A i \in i0 .. L : list[i0].priority <= list[i].priority
        BY <1>1, <1>2, <2>3 DEF Sorted
      <4> QED
        BY <1>2, <2>1, <2>3, <4>1
    <3> QED
      BY <1>1, <2>3, <2>8, <2>10, <3>1
  <2>14. n[i0] = it
    BY <1>1, <2>3, <2>8, <2>9
  <2>15. Inserted(n, list, i0, it)
    BY <1>1, <2>3, <2>8, <2>12, <2>13, <2>14 DEF Inserted
  <2> QED
    BY <1>1, <2>3, <2>8, <2>11, <2>15
<1> QED
  BY <1>4, <1>5

\* A bijection of the places keeps the count.
LEMMA SamePlaces ==
  ASSUME NEW S, NEW T, IsFiniteSet(S), NEW f \in [S -> T],
         \A i, j \in S : f[i] = f[j] => i = j, \A j \in T : \E i \in S : f[i] = j
  PROVE  Cardinality(T) = Cardinality(S)
<1>1. f \in Bijection(S, T)
  BY DEF Bijection, Injection, Surjection, IsInjective
<1> QED
  BY <1>1, FS_Bijection DEF ExistsBijection

LEMMA InsertedCount ==
  ASSUME NEW list \in Seq(Items), NEW new \in Seq(Items), NEW k, NEW it \in Items,
         Inserted(new, list, k, it), NEW S
  PROVE  Cardinality(Places(new, S)) = Cardinality(Places(list, S)) + IF it \in S THEN 1 ELSE 0
<1> DEFINE P == Places(list, S)
           Q == Places(new, S)
           f == [i \in P |-> IF i < k THEN i ELSE i + 1]
<1>1. /\ Len(list) \in Nat /\ k \in 1 .. Len(list) + 1 /\ Len(new) = Len(list) + 1 /\ new[k] = it
      /\ \A i \in 1 .. (k - 1) : new[i] = list[i]
      /\ \A i \in k .. Len(list) : new[i + 1] = list[i]
  BY LenProperties DEF Inserted
<1>2. f \in [P -> Q \ {k}]
  <2> SUFFICES ASSUME NEW i \in P
               PROVE  (IF i < k THEN i ELSE i + 1) \in Q \ {k}
    OBVIOUS
  <2>1. i \in 1 .. Len(list) /\ list[i] \in S
    BY DEF Places
  <2>2. CASE i < k
    BY <1>1, <2>1, <2>2 DEF Places
  <2>3. CASE ~(i < k)
    <3>1. new[i + 1] = list[i]
      BY <1>1, <2>1, <2>3
    <3> QED
      BY <1>1, <2>1, <2>3, <3>1 DEF Places
  <2> QED
    BY <2>2, <2>3
<1>3. ASSUME NEW i \in P, NEW j \in P, f[i] = f[j]
      PROVE  i = j
  BY <1>1, <1>3 DEF Places
<1>4. ASSUME NEW j \in Q \ {k}
      PROVE  \E i \in P : f[i] = j
  <2>1. j \in 1 .. Len(list) + 1 /\ new[j] \in S /\ j # k
    BY <1>1 DEF Places
  <2>2. CASE j < k
    BY <1>1, <2>1, <2>2 DEF Places
  <2>3. CASE j > k
    <3>1. j - 1 \in k .. Len(list) /\ j - 1 + 1 = j
      BY <1>1, <2>1, <2>3
    <3>2. j - 1 \in P
      BY <1>1, <2>1, <3>1 DEF Places
    <3>3. f[j - 1] = j
      BY <1>1, <2>1, <2>3, <3>2
    <3> QED
      BY <3>2, <3>3
  <2> QED
    BY <1>1, <2>1, <2>2, <2>3
<1>5. IsFiniteSet(P) /\ IsFiniteSet(Q) /\ Cardinality(P) \in Nat /\ Cardinality(Q) \in Nat
  BY PlacesFinite
<1>6. k \in Q <=> it \in S
  BY <1>1 DEF Places
<1> HIDE DEF P, Q, f
<1>7. Cardinality(Q \ {k}) = Cardinality(P)
  BY <1>2, <1>3, <1>4, <1>5, SamePlaces
<1>8. Cardinality(Q \ {k}) = IF k \in Q THEN Cardinality(Q) - 1 ELSE Cardinality(Q)
  BY <1>5, FS_RemoveElement
<1>9. Cardinality(Q) = Cardinality(P) + IF it \in S THEN 1 ELSE 0
  BY <1>5, <1>6, <1>7, <1>8
<1> QED
  BY <1>9 DEF P, Q

\* A list without its last item.
LEMMA FrontIs ==
  ASSUME NEW list \in Seq(Items), list # <<>>
  PROVE  /\ Front(list) \in Seq(Items) /\ Len(list) \in Nat \ {0} /\ Len(Front(list)) = Len(list) - 1
         /\ \A i \in 1 .. (Len(list) - 1) : Front(list)[i] = list[i]
         /\ Last(list) = list[Len(list)] /\ Last(list) \in Items
<1>1. PICK n \in Nat \ {0} : n = Len(list)
  BY EmptySeq
<1>2. \A i \in 1 .. n : list[i] \in Items
  BY <1>1, ElementOfSeq
<1>3. /\ Front(list) \in Seq(Items)
      /\ Len(Front(list)) = IF 1 <= n - 1 THEN n - 1 - 1 + 1 ELSE 0
      /\ \A i \in 1 .. (n - 1 - 1 + 1) : Front(list)[i] = list[1 + i - 1]
  BY <1>1, <1>2, SubSeqProperties DEF Front
<1>4. Len(Front(list)) = n - 1
  BY <1>3
<1>5. ASSUME NEW i \in 1 .. (n - 1)
      PROVE  Front(list)[i] = list[i]
  <2>1. i \in 1 .. (n - 1 - 1 + 1) /\ 1 + i - 1 = i
    OBVIOUS
  <2> QED
    BY <1>3, <2>1
<1> QED
  BY <1>1, <1>2, <1>3, <1>4, <1>5 DEF Last

LEMMA FrontCount ==
  ASSUME NEW list \in Seq(Items), list # <<>>, NEW S
  PROVE  Cardinality(Places(list, S)) =
           Cardinality(Places(Front(list), S)) + IF Last(list) \in S THEN 1 ELSE 0
<1>1. Places(Front(list), S) = Places(list, S) \ {Len(list)}
  <2>1. /\ Len(list) \in Nat \ {0} /\ Len(Front(list)) = Len(list) - 1
        /\ \A i \in 1 .. (Len(list) - 1) : Front(list)[i] = list[i]
    BY FrontIs
  <2>2. \A i : i \in 1 .. (Len(list) - 1) <=> i \in 1 .. Len(list) /\ i # Len(list)
    BY <2>1
  <2>3. \A i : i \in Places(Front(list), S) <=> i \in 1 .. (Len(list) - 1) /\ list[i] \in S
    BY <2>1 DEF Places
  <2>4. \A i : i \in Places(list, S) <=> i \in 1 .. Len(list) /\ list[i] \in S
    BY DEF Places
  <2> QED
    BY <2>2, <2>3, <2>4
<1>2. Len(list) \in Places(list, S) <=> Last(list) \in S
  BY FrontIs DEF Places
<1>3. IsFiniteSet(Places(list, S)) /\ Cardinality(Places(list, S)) \in Nat
  BY PlacesFinite
<1>4. Cardinality(Places(Front(list), S)) =
        IF Len(list) \in Places(list, S) THEN Cardinality(Places(list, S)) - 1
        ELSE Cardinality(Places(list, S))
  BY <1>1, <1>3, FS_RemoveElement
<1> QED
  BY <1>2, <1>3, <1>4

(***************************************************************************)
(* The recursive function in Others is defined; its value is what g        *)
(* selects from the list, in the order of the list.                        *)
(***************************************************************************)
Selected(new, list, n, g) ==
  /\ new \in Seq(Items)
  /\ g \in [1 .. Len(new) -> 1 .. n]
  /\ \A k, l \in 1 .. Len(new) : k < l => g[k] < g[l]
  /\ \A k \in 1 .. Len(new) : new[k] = list[g[k]] /\ ~IsPacket(list[g[k]])
  /\ \A i \in 1 .. n : ~IsPacket(list[i]) => \E k \in 1 .. Len(new) : g[k] = i

LEMMA OthersIs ==
  ASSUME NEW list \in Seq(Items)
  PROVE  \E g : Selected(Others(list), list, Len(list), g)
<1> DEFINE L == Len(list)
           Step(f, i) == IF i = 0 THEN <<>>
                         ELSE IF IsPacket(list[i]) THEN f[i - 1] ELSE Append(f[i - 1], list[i])
           Is(f, n) == f = [i \in 0 .. n |-> Step(f, i)]
           Exists(n) == \E f : Is(f, n)
           Defined == {n \in Nat : n <= L => Exists(n)}
<1>1. L \in Nat /\ \A i \in 1 .. L : list[i] \in Items
  BY LenProperties, ElementOfSeq
<1>2. 0 \in Defined
  <2>1. [i \in 0 .. 0 |-> <<>>] = [i \in 0 .. 0 |-> Step([j \in 0 .. 0 |-> <<>>], i)]
    OBVIOUS
  <2> QED
    BY <2>1
<1>3. ASSUME NEW n \in Nat, n \in Defined
      PROVE  n + 1 \in Defined
  <2> SUFFICES ASSUME n + 1 <= L
               PROVE  Exists(n + 1)
    <3> HIDE DEF Exists
    <3> QED
      OBVIOUS
  <2>1. PICK f : f = [i \in 0 .. n |-> Step(f, i)]
    <3>1. Exists(n)
      <4> HIDE DEF Exists
      <4> QED
        BY <1>1, <1>3
    <3> QED
      BY <3>1
  <2> DEFINE g == [i \in 0 .. (n + 1) |-> IF i = n + 1 THEN Step(f, i) ELSE f[i]]
  <2>2. ASSUME NEW i \in 0 .. (n + 1)
        PROVE  g[i] = Step(g, i)
    <3>1. i # 0 => i - 1 \in 0 .. (n + 1) /\ i - 1 # n + 1
      OBVIOUS
    <3>2. i # 0 => g[i - 1] = f[i - 1]
      BY <3>1
    <3>3. i # n + 1 => i \in 0 .. n
      OBVIOUS
    <3>4. g[i] = Step(f, i)
      BY <2>1, <3>3
    <3> QED
      BY <3>2, <3>4
  <2>3. g = [i \in 0 .. (n + 1) |-> Step(g, i)]
    BY <2>2
  <2> QED
    BY <2>3
<1>4. L \in Defined
  <2> HIDE DEF Defined
  <2> QED
    BY <1>1, <1>2, <1>3, SetInduction
<1> DEFINE kept == CHOOSE f : f = [i \in 0 .. L |-> Step(f, i)]
<1>5. kept = [i \in 0 .. L |-> Step(kept, i)]
  <2>1. Exists(L)
    <3> HIDE DEF Exists
    <3> QED
      BY <1>1, <1>4
  <2> QED
    BY <2>1
<1>6. Others(list) = kept[L]
  BY DEF Others
<1> HIDE DEF kept
<1> DEFINE Right == {n \in Nat : n <= L => \E g : Selected(kept[n], list, n, g)}
<1>7. 0 \in Right
  <2>1. kept[0] = <<>>
    BY <1>1, <1>5
  <2>2. <<>> \in Seq(Items) /\ Len(<<>>) = 0
    BY EmptySeq
  <2>3. Selected(<<>>, list, 0, [k \in 1 .. 0 |-> 0])
    BY <2>2 DEF Selected
  <2> QED
    BY <2>1, <2>3
<1>8. ASSUME NEW n \in Nat, n \in Right
      PROVE  n + 1 \in Right
  <2> SUFFICES ASSUME n + 1 <= L
               PROVE  \E h : Selected(kept[n + 1], list, n + 1, h)
    OBVIOUS
  <2>1. PICK g : Selected(kept[n], list, n, g)
    BY <1>1, <1>8
  <2>2. kept[n + 1] = IF IsPacket(list[n + 1]) THEN kept[n] ELSE Append(kept[n], list[n + 1])
    <3>1. n + 1 \in 0 .. L /\ n + 1 # 0 /\ (n + 1) - 1 = n
      BY <1>1
    <3>2. kept[n + 1] = Step(kept, n + 1)
      BY <1>5, <3>1
    <3> QED
      BY <3>1, <3>2
  <2>3. kept[n] \in Seq(Items) /\ list[n + 1] \in Items /\ Len(kept[n]) \in Nat
    BY <1>1, <2>1, LenProperties DEF Selected
  <2>4. CASE IsPacket(list[n + 1])
    <3>1. Selected(kept[n], list, n + 1, g)
      BY <2>1, <2>3, <2>4 DEF Selected
    <3> QED
      BY <2>2, <2>4, <3>1
  <2>5. CASE ~IsPacket(list[n + 1])
    <3> DEFINE new == Append(kept[n], list[n + 1])
               M == Len(kept[n])
               h == [k \in 1 .. (M + 1) |-> IF k = M + 1 THEN n + 1 ELSE g[k]]
    <3>1. /\ new \in Seq(Items) /\ Len(new) = M + 1
          /\ \A k \in 1 .. M : new[k] = kept[n][k]
          /\ new[M + 1] = list[n + 1]
      BY <2>3, AppendProperties
    <3>2. /\ g \in [1 .. M -> 1 .. n]
          /\ \A k, l \in 1 .. M : k < l => g[k] < g[l]
          /\ \A k \in 1 .. M : kept[n][k] = list[g[k]] /\ ~IsPacket(list[g[k]])
          /\ \A i \in 1 .. n : ~IsPacket(list[i]) => \E k \in 1 .. M : g[k] = i
      BY <2>1 DEF Selected
    <3> HIDE DEF new
    <3>3. h \in [1 .. (M + 1) -> 1 .. (n + 1)]
      BY <2>3, <3>2
    <3>4. ASSUME NEW k \in 1 .. (M + 1), NEW l \in 1 .. (M + 1), k < l
          PROVE  h[k] < h[l]
      <4>1. k \in 1 .. M /\ h[k] = g[k] /\ g[k] \in 1 .. n
        BY <2>3, <3>2, <3>4
      <4>2. CASE l = M + 1
        BY <4>1, <4>2
      <4>3. CASE l # M + 1
        <5>1. l \in 1 .. M /\ h[l] = g[l]
          BY <2>3, <4>3
        <5> QED
          BY <3>2, <3>4, <4>1, <5>1
      <4> QED
        BY <4>2, <4>3
    <3>5. \A k \in 1 .. (M + 1) : new[k] = list[h[k]] /\ ~IsPacket(list[h[k]])
      BY <2>3, <2>5, <3>1, <3>2
    <3>6. ASSUME NEW i \in 1 .. (n + 1), ~IsPacket(list[i])
          PROVE  \E k \in 1 .. (M + 1) : h[k] = i
      <4>1. CASE i = n + 1
        BY <2>3, <4>1
      <4>2. CASE i # n + 1
        <5>1. PICK k \in 1 .. M : g[k] = i
          BY <3>2, <3>6, <4>2
        <5>2. k \in 1 .. (M + 1) /\ k # M + 1
          BY <2>3
        <5>3. h[k] = g[k]
          BY <5>2
        <5> QED
          BY <5>1, <5>2, <5>3
      <4> QED
        BY <4>1, <4>2
    <3>7. Selected(new, list, n + 1, h)
      <4> HIDE DEF h
      <4> QED
        BY <3>1, <3>3, <3>4, <3>5, <3>6 DEF Selected
    <3> QED
      BY <2>2, <2>5, <3>7 DEF new
  <2> QED
    BY <2>4, <2>5
<1>9. L \in Right
  <2> HIDE DEF Right
  <2> QED
    BY <1>1, <1>7, <1>8, SetInduction
<1> QED
  BY <1>1, <1>6, <1>9

LEMMA OthersCount ==
  ASSUME NEW list \in Seq(Items), NEW new, NEW g, Selected(new, list, Len(list), g),
         NEW S, \A x \in S : ~IsPacket(x)
  PROVE  Cardinality(Places(new, S)) = Cardinality(Places(list, S))
<1> DEFINE f == [k \in Places(new, S) |-> g[k]]
<1>1. f \in [Places(new, S) -> Places(list, S)]
  BY DEF Places, Selected
<1>2. ASSUME NEW k \in Places(new, S), NEW l \in Places(new, S), f[k] = f[l]
      PROVE  k = l
  <2>1. k \in 1 .. Len(new) /\ l \in 1 .. Len(new) /\ g[k] = g[l]
    BY <1>2 DEF Places
  <2>2. Len(new) \in Nat /\ Len(list) \in Nat /\ g[k] \in 1 .. Len(list) /\ g[l] \in 1 .. Len(list)
    BY <2>1, LenProperties DEF Selected
  <2> QED
    BY <2>1, <2>2 DEF Selected
<1>3. ASSUME NEW i \in Places(list, S)
      PROVE  \E k \in Places(new, S) : f[k] = i
  <2>1. i \in 1 .. Len(list) /\ list[i] \in S /\ ~IsPacket(list[i])
    BY DEF Places
  <2>2. PICK k \in 1 .. Len(new) : g[k] = i
    BY <2>1 DEF Selected
  <2>3. new[k] = list[i]
    BY <2>2 DEF Selected
  <2> QED
    BY <2>1, <2>2, <2>3 DEF Places
<1>4. IsFiniteSet(Places(new, S))
  BY PlacesFinite DEF Selected
<1> HIDE DEF f
<1> QED
  BY <1>1, <1>2, <1>3, <1>4, SamePlaces

-------------------------------------------------------------------------------
(* What the operations of a queue do with its items, their order and count *)

LEMMA ItemFields ==
  ASSUME NEW x \in Items
  PROVE  /\ x.message \in Messages /\ x.priority \in Nat
         /\ x.message.type = "sync" => x.message.id \in Syncs /\ x.priority <= 1
         /\ x.message.type = "flush" => x.priority = 1
BY DEF Items

LEMMA ElementsAre ==
  ASSUME NEW list \in Seq(Items)
  PROVE  Elements(list) \subseteq Items
BY ElementOfSeq DEF Elements

LEMMA EmptyList ==
  /\ <<>> \in Seq(Items) /\ Sorted(<<>>) /\ Elements(<<>>) = {}
  /\ \A S, T : Behind(<<>>, S, T)
  /\ \A S : Cardinality(Places(<<>>, S)) = 0
<1>1. <<>> \in Seq(Items) /\ Len(<<>>) = 0
  BY EmptySeq
<1>2. \A S : Places(<<>>, S) = {}
  BY <1>1 DEF Places
<1> QED
  BY <1>1, <1>2, FS_EmptySet DEF Sorted, Elements, Behind

LEMMA CountedPlaces ==
  ASSUME NEW list \in Seq(Items)
  PROVE  /\ Counted(list) = Places(list, {x \in Items : DataSize(x) = 1})
         /\ \A s : {i \in 1 .. Len(list) : list[i].message = SyncMessage(s)}
                     = Places(list, SyncItems(s))
BY ElementOfSeq DEF Counted, Places, SyncItems

\* Put.
LEMMA InsertElements ==
  ASSUME NEW list \in Seq(Items), Sorted(list), NEW it \in Items
  PROVE  /\ Insert(list, it) \in Seq(Items)
         /\ Sorted(Insert(list, it))
         /\ Elements(Insert(list, it)) = Elements(list) \cup {it}
         /\ \A S : Cardinality(Places(Insert(list, it), S)) =
                     Cardinality(Places(list, S)) + IF it \in S THEN 1 ELSE 0
<1> DEFINE new == Insert(list, it)
<1>1. new \in Seq(Items)
  BY InsertedIs
<1>2. PICK k \in 1 .. Len(list) + 1 : Inserted(new, list, k, it)
  BY InsertedIs
<1> HIDE DEF new
<1>3. /\ Len(list) \in Nat /\ Len(new) = Len(list) + 1 /\ new[k] = it
      /\ \A i \in 1 .. (k - 1) : new[i] = list[i] /\ list[i].priority < it.priority
      /\ \A i \in k .. Len(list) : new[i + 1] = list[i] /\ it.priority <= list[i].priority
  BY <1>2, LenProperties DEF Inserted
<1>4. ASSUME NEW j \in 1 .. Len(new)
      PROVE  \/ j < k /\ j \in 1 .. Len(list) /\ new[j] = list[j] /\ list[j].priority < it.priority
             \/ j = k /\ new[j] = it
             \/ j > k /\ j - 1 \in k .. Len(list) /\ new[j] = list[j - 1]
                /\ it.priority <= list[j - 1].priority
  <2>1. CASE j < k
    BY <1>3, <2>1
  <2>2. CASE j = k
    BY <1>3, <2>2
  <2>3. CASE j > k
    <3>1. j - 1 \in k .. Len(list) /\ (j - 1) + 1 = j
      BY <1>3, <2>3
    <3> QED
      BY <1>3, <2>3, <3>1
  <2> QED
    BY <1>3, <2>1, <2>2, <2>3
<1>5. it.priority \in Nat /\ \A i \in 1 .. Len(list) : list[i].priority \in Nat
  BY ElementOfSeq, ItemFields
<1>6. Sorted(new)
  <2> SUFFICES ASSUME NEW i \in 1 .. Len(new), NEW j \in 1 .. Len(new), i < j
               PROVE  new[i].priority <= new[j].priority
    BY DEF Sorted
  <2>1. \A m, n \in 1 .. Len(list) : m < n => list[m].priority <= list[n].priority
    BY DEF Sorted
  <2>2. CASE i < k
    <3>1. i \in 1 .. Len(list) /\ new[i] = list[i] /\ list[i].priority < it.priority
      BY <1>4, <2>2
    <3>2. CASE j < k
      <4>1. j \in 1 .. Len(list) /\ new[j] = list[j]
        BY <1>4, <3>2
      <4> QED
        BY <2>1, <3>1, <4>1
    <3>3. CASE j >= k
      <4>1. it.priority <= new[j].priority /\ new[j].priority \in Nat
        BY <1>3, <1>4, <1>5, <3>3
      <4> QED
        BY <1>5, <3>1, <4>1
    <3> QED
      BY <1>3, <3>2, <3>3
  <2>3. CASE i = k
    <3>1. j - 1 \in k .. Len(list) /\ new[j] = list[j - 1] /\ it.priority <= list[j - 1].priority
      BY <1>4, <2>3
    <3> QED
      BY <1>3, <2>3, <3>1
  <2>4. CASE i > k
    <3>1. /\ i - 1 \in k .. Len(list) /\ new[i] = list[i - 1]
          /\ j - 1 \in k .. Len(list) /\ new[j] = list[j - 1]
      BY <1>4, <2>4
    <3>2. i - 1 \in 1 .. Len(list) /\ j - 1 \in 1 .. Len(list) /\ i - 1 < j - 1
      BY <1>3, <3>1
    <3> QED
      BY <2>1, <3>1, <3>2
  <2> QED
    BY <1>3, <2>2, <2>3, <2>4
<1>7. Elements(new) = Elements(list) \cup {it}
  <2>1. ASSUME NEW x \in Elements(new)
        PROVE  x \in Elements(list) \cup {it}
    <3>1. PICK j \in 1 .. Len(new) : x = new[j]
      BY DEF Elements
    <3>2. CASE j = k
      BY <1>3, <3>1, <3>2
    <3>3. CASE j # k
      <4>1. \E i \in 1 .. Len(list) : new[j] = list[i]
        BY <1>3, <1>4, <3>3
      <4> QED
        BY <3>1, <4>1 DEF Elements
    <3> QED
      BY <3>2, <3>3
  <2>2. ASSUME NEW x \in Elements(list)
        PROVE  x \in Elements(new)
    <3>1. PICK i \in 1 .. Len(list) : x = list[i]
      BY DEF Elements
    <3>2. CASE i < k
      BY <1>3, <3>1, <3>2 DEF Elements
    <3>3. CASE ~(i < k)
      <4>1. new[i + 1] = x /\ i + 1 \in 1 .. Len(new)
        BY <1>3, <3>1, <3>3
      <4> QED
        BY <4>1 DEF Elements
    <3> QED
      BY <3>2, <3>3
  <2>3. it \in Elements(new)
    BY <1>3 DEF Elements
  <2> QED
    BY <2>1, <2>2, <2>3
<1>8. \A S : Cardinality(Places(new, S)) = Cardinality(Places(list, S)) + IF it \in S THEN 1 ELSE 0
  BY <1>1, <1>2, InsertedCount
<1> QED
  BY <1>1, <1>6, <1>7, <1>8 DEF new

\* The place of an item that is put depends on the priorities.
LEMMA InsertBehind ==
  ASSUME NEW list \in Seq(Items), Sorted(list), NEW it \in Items, NEW S, NEW T,
         Behind(list, S, T), it \notin S \/ it \notin T,
         it \in S => \A x \in Elements(list) \cap T : it.priority <= x.priority,
         it \in T => \A x \in Elements(list) \cap S : x.priority < it.priority
  PROVE  Behind(Insert(list, it), S, T)
<1> DEFINE new == Insert(list, it)
<1>1. PICK k \in 1 .. Len(list) + 1 : Inserted(new, list, k, it)
  BY InsertedIs
<1> HIDE DEF new
<1>2. /\ Len(list) \in Nat /\ Len(new) = Len(list) + 1 /\ new[k] = it
      /\ \A i \in 1 .. (k - 1) : new[i] = list[i] /\ list[i].priority < it.priority
      /\ \A i \in k .. Len(list) : new[i + 1] = list[i] /\ it.priority <= list[i].priority
  BY <1>1, LenProperties DEF Inserted
<1>3. ASSUME NEW j \in 1 .. Len(new), j # k
      PROVE  \/ j < k /\ j \in 1 .. Len(list) /\ new[j] = list[j] /\ list[j].priority < it.priority
             \/ j > k /\ j - 1 \in k .. Len(list) /\ new[j] = list[j - 1]
                /\ it.priority <= list[j - 1].priority
  <2>1. CASE j < k
    BY <1>2, <2>1
  <2>2. CASE j > k
    <3>1. j - 1 \in k .. Len(list) /\ (j - 1) + 1 = j
      BY <1>2, <2>2
    <3> QED
      BY <1>2, <2>2, <3>1
  <2> QED
    BY <1>2, <1>3, <2>1, <2>2
<1>4. it.priority \in Nat /\ \A i \in 1 .. Len(list) : list[i].priority \in Nat
  BY ElementOfSeq, ItemFields
<1>5. \A i \in 1 .. Len(list) : list[i] \in Elements(list)
  BY DEF Elements
<1> SUFFICES ASSUME NEW i \in 1 .. Len(new), NEW j \in 1 .. Len(new), new[i] \in S, new[j] \in T
             PROVE  i < j
  BY DEF Behind, new
<1>6. CASE i = k
  <2>1. it \in S /\ j # k
    BY <1>2, <1>6
  <2>2. \A m \in 1 .. Len(list) : list[m] \in T => it.priority <= list[m].priority
    BY <1>5, <2>1
  <2> QED
    BY <1>2, <1>3, <1>4, <1>6, <2>1, <2>2
<1>7. CASE j = k
  <2>1. it \in T /\ i # k
    BY <1>2, <1>7
  <2>2. \A m \in 1 .. Len(list) : list[m] \in S => list[m].priority < it.priority
    BY <1>5, <2>1
  <2>3. CASE i < k
    BY <1>7, <2>3
  <2>4. CASE i > k
    <3>1. i - 1 \in 1 .. Len(list) /\ new[i] = list[i - 1] /\ it.priority <= list[i - 1].priority
      BY <1>2, <1>3, <2>1, <2>4
    <3>2. list[i - 1].priority < it.priority
      BY <2>2, <3>1
    <3> QED
      BY <1>4, <3>1, <3>2
  <2> QED
    BY <1>2, <2>1, <2>3, <2>4
<1>8. CASE i # k /\ j # k
  <2>1. \A m, n \in 1 .. Len(list) : list[m] \in S /\ list[n] \in T => m < n
    BY DEF Behind
  <2>2. \/ i < k /\ i \in 1 .. Len(list) /\ new[i] = list[i]
        \/ i > k /\ i - 1 \in 1 .. Len(list) /\ new[i] = list[i - 1]
    BY <1>2, <1>3, <1>8
  <2>3. \/ j < k /\ j \in 1 .. Len(list) /\ new[j] = list[j]
        \/ j > k /\ j - 1 \in 1 .. Len(list) /\ new[j] = list[j - 1]
    BY <1>2, <1>3, <1>8
  <2>4. CASE i < k /\ j < k
    BY <2>1, <2>2, <2>3, <2>4
  <2>5. CASE i > k /\ j < k
    <3>1. i - 1 < j
      BY <2>1, <2>2, <2>3, <2>5
    <3> QED
      BY <1>2, <2>5, <3>1
  <2>6. CASE i > k /\ j > k
    <3>1. i - 1 < j - 1
      BY <2>1, <2>2, <2>3, <2>6
    <3> QED
      BY <1>2, <3>1
  <2> QED
    BY <1>2, <1>8, <2>4, <2>5, <2>6
<1> QED
  BY <1>6, <1>7, <1>8

\* Get takes the last item, which has the highest priority.
LEMMA FrontElements ==
  ASSUME NEW list \in Seq(Items), list # <<>>, Sorted(list)
  PROVE  /\ Front(list) \in Seq(Items) /\ Last(list) \in Items
         /\ Sorted(Front(list))
         /\ Elements(list) = Elements(Front(list)) \cup {Last(list)}
         /\ \A x \in Elements(list) : x.priority <= Last(list).priority
         /\ \A S, T : Behind(list, S, T) =>
              /\ Behind(Front(list), S, T)
              /\ Last(list) \in S => Elements(list) \cap T = {}
<1>1. PICK n \in Nat \ {0} : n = Len(list)
  BY FrontIs
<1>2. /\ Front(list) \in Seq(Items) /\ Len(Front(list)) = n - 1
      /\ \A i \in 1 .. (n - 1) : Front(list)[i] = list[i]
      /\ Last(list) = list[n] /\ Last(list) \in Items
  BY <1>1, FrontIs
<1>3. \A i \in 1 .. n : i \in 1 .. (n - 1) \/ i = n
  OBVIOUS
<1>4. Sorted(Front(list))
  BY <1>1, <1>2 DEF Sorted
<1>5. Elements(list) = Elements(Front(list)) \cup {Last(list)}
  BY <1>1, <1>2, <1>3 DEF Elements
<1>6. \A x \in Elements(list) : x.priority <= Last(list).priority
  <2> SUFFICES ASSUME NEW i \in 1 .. n
               PROVE  list[i].priority <= list[n].priority
    BY <1>1, <1>2 DEF Elements
  <2>1. list[n].priority \in Nat
    BY <1>2, ItemFields
  <2>2. CASE i = n
    BY <2>1, <2>2
  <2>3. CASE i < n
    BY <1>1, <2>3 DEF Sorted
  <2> QED
    BY <2>2, <2>3
<1>7. ASSUME NEW S, NEW T, Behind(list, S, T)
      PROVE  Behind(Front(list), S, T) /\ (Last(list) \in S => Elements(list) \cap T = {})
  <2>1. \A i, j \in 1 .. n : list[i] \in S /\ list[j] \in T => i < j
    BY <1>1, <1>7 DEF Behind
  <2>2. Behind(Front(list), S, T)
    BY <1>2, <2>1 DEF Behind
  <2>3. ASSUME list[n] \in S, NEW j \in 1 .. n
        PROVE  list[j] \notin T
    BY <2>1, <2>3
  <2> QED
    BY <1>1, <1>2, <2>2, <2>3 DEF Elements
<1> QED
  BY <1>2, <1>4, <1>5, <1>6, <1>7

\* Flush(DEMUXER_PACKET).
LEMMA OthersElements ==
  ASSUME NEW list \in Seq(Items), Sorted(list)
  PROVE  /\ Others(list) \in Seq(Items)
         /\ Sorted(Others(list))
         /\ Elements(Others(list)) = {x \in Elements(list) : ~IsPacket(x)}
         /\ \A S, T : Behind(list, S, T) => Behind(Others(list), S, T)
         /\ \A S : (\A x \in S : ~IsPacket(x)) =>
              Cardinality(Places(Others(list), S)) = Cardinality(Places(list, S))
<1> DEFINE new == Others(list)
<1>1. PICK g : Selected(new, list, Len(list), g)
  BY OthersIs
<1> HIDE DEF new
<1>2. /\ new \in Seq(Items)
      /\ g \in [1 .. Len(new) -> 1 .. Len(list)]
      /\ \A k, l \in 1 .. Len(new) : k < l => g[k] < g[l]
      /\ \A k \in 1 .. Len(new) : new[k] = list[g[k]] /\ ~IsPacket(list[g[k]])
      /\ \A i \in 1 .. Len(list) : ~IsPacket(list[i]) => \E k \in 1 .. Len(new) : g[k] = i
  BY <1>1 DEF Selected
<1>3. Len(list) \in Nat /\ Len(new) \in Nat
  BY <1>2, LenProperties
<1>4. Sorted(new)
  <2> SUFFICES ASSUME NEW k \in 1 .. Len(new), NEW l \in 1 .. Len(new), k < l
               PROVE  new[k].priority <= new[l].priority
    BY DEF Sorted
  <2>1. g[k] \in 1 .. Len(list) /\ g[l] \in 1 .. Len(list) /\ g[k] < g[l]
    BY <1>2
  <2>2. list[g[k]].priority <= list[g[l]].priority
    BY <2>1 DEF Sorted
  <2> QED
    BY <1>2, <2>2
<1>5. Elements(new) = {x \in Elements(list) : ~IsPacket(x)}
  <2>1. \A x \in Elements(new) : x \in Elements(list) /\ ~IsPacket(x)
    BY <1>2 DEF Elements
  <2>2. ASSUME NEW x \in Elements(list), ~IsPacket(x)
        PROVE  x \in Elements(new)
    <3>1. PICK i \in 1 .. Len(list) : x = list[i]
      BY DEF Elements
    <3>2. PICK k \in 1 .. Len(new) : g[k] = i
      BY <1>2, <2>2, <3>1
    <3> QED
      BY <1>2, <3>1, <3>2 DEF Elements
  <2> QED
    BY <2>1, <2>2
<1>6. ASSUME NEW S, NEW T, Behind(list, S, T)
      PROVE  Behind(new, S, T)
  <2> SUFFICES ASSUME NEW k \in 1 .. Len(new), NEW l \in 1 .. Len(new), new[k] \in S, new[l] \in T
               PROVE  k < l
    BY DEF Behind
  <2>1. /\ g[k] \in 1 .. Len(list) /\ g[l] \in 1 .. Len(list)
        /\ list[g[k]] \in S /\ list[g[l]] \in T
    BY <1>2
  <2>2. g[k] < g[l]
    BY <1>6, <2>1 DEF Behind
  <2>3. CASE k = l
    BY <1>3, <2>1, <2>2, <2>3
  <2>4. CASE l < k
    <3>1. g[l] < g[k]
      BY <1>2, <2>4
    <3> QED
      BY <1>3, <2>1, <2>2, <3>1
  <2> QED
    BY <1>3, <2>3, <2>4
<1>7. ASSUME NEW S, \A x \in S : ~IsPacket(x)
      PROVE  Cardinality(Places(new, S)) = Cardinality(Places(list, S))
  BY <1>1, <1>7, OthersCount
<1> QED
  BY <1>2, <1>4, <1>5, <1>6, <1>7 DEF new

-------------------------------------------------------------------------------
(* The calls of the player's thread *)

\* Messages of different kinds, and what a synchronize message is.
LEMMA MessagesAre ==
  /\ \A type, id : Message(type, id).type = type /\ Message(type, id).id = id
  /\ \A s : IsSync(SyncMessage(s)) /\ SyncMessage(s).id = s
  /\ \A m \in Messages : m = Message(m.type, m.id)
  /\ \A m \in Messages : IsSync(m) <=> m = SyncMessage(m.id)
BY DEF Message, SyncMessage, IsSync, Messages

LEMMA CallIs ==
  ASSUME NEW c \in PlayerCalls
  PROVE  /\ \/ c.call \in {"put", "flush", "wait", "waitOrStop", "release", "clock"}
            \/ c.call \in ThreadCalls
         /\ c.call = "put" =>
              /\ c.q \in Players /\ c = PutCall(c.q, c.message, c.priority)
              /\ Item(c.message, c.priority) \in Items /\ c.message.type # "packet"
              /\ IsSync(c.message) => /\ c.message.id \in Syncs /\ c.priority \in {0, 1}
                                      /\ c.message = SyncMessage(c.message.id)
              /\ c.message.type = "flush" => c = FlushPut(c.q)
         /\ c.call \in ThreadCalls \cup {"flush"} =>
              c.q \in Players /\ c = OwnCall(c.call, c.q) /\ ~IsSync(c.message)
         /\ c.call \in {"wait", "waitOrStop", "release"} =>
              /\ c.message.id \in Syncs /\ c.message = SyncMessage(c.message.id)
              /\ c = SyncCall(c.call, c.message.id) /\ IsSync(c.message)
         /\ c.call = "clock" => ~IsSync(c.message)
<1>1. CASE c \in PutCalls
  <2>1. CASE \E q \in Players : c = FlushPut(q)
    BY <2>1 DEF FlushPut, PutCall, Call, Message, Item, Items, Messages, IsSync, ThreadCalls
  <2>2. CASE \E q \in Players : c = PutCall(q, Message("reset", 0), 0)
    BY <2>2 DEF PutCall, Call, Message, Item, Items, Messages, IsSync, ThreadCalls
  <2>3. CASE \E q \in Players, s \in Syncs, p \in {0, 1} : c = PutCall(q, SyncMessage(s), p)
    BY <2>3 DEF PutCall, Call, SyncMessage, Message, Item, Items, Messages, IsSync, ThreadCalls
  <2> QED
    BY <1>1, <2>1, <2>2, <2>3 DEF PutCalls
<1>2. CASE c \in OwnCalls
  BY <1>2 DEF OwnCalls, OwnCall, Call, Nothing, Item, Message, IsSync, ThreadCalls
<1>3. CASE c \in WaitCalls
  BY <1>3 DEF WaitCalls, SyncCall, Call, SyncMessage, Message, IsSync, ThreadCalls
<1> QED
  BY <1>1, <1>2, <1>3 DEF PlayerCalls

LEMMA RankIs ==
  ASSUME NEW c \in PlayerCalls
  PROVE  /\ Rank(c) \in 1 .. 12
         /\ c.call = "flush" => Rank(c) = IF c.q = Audio THEN 1 ELSE 3
         /\ c.call = "put" => Rank(c) = IF IsSync(c.message) THEN IF c.q = Audio THEN 5 ELSE 6
                                        ELSE IF c.q = Audio THEN 2 ELSE 4
         /\ c.call \in {"wait", "waitOrStop"} => Rank(c) = 7
         /\ c.call = "release" => Rank(c) = 8
         /\ c.call \in {"init", "abort"} => Rank(c) = 9
         /\ c.call \in {"create", "join"} => Rank(c) = 10
         /\ c.call = "end" => Rank(c) = 11
         /\ c.call = "clock" => Rank(c) = 12
<1>1. CASE c.call = "flush"
  BY <1>1 DEF Rank
<1>2. CASE c.call = "put"
  BY <1>2 DEF Rank
<1>3. CASE c.call \in {"wait", "waitOrStop"}
  BY <1>3 DEF Rank
<1>4. CASE c.call = "release"
  BY <1>4 DEF Rank
<1>5. CASE c.call \in {"init", "abort"}
  BY <1>5 DEF Rank
<1>6. CASE c.call \in {"create", "join"}
  BY <1>6 DEF Rank
<1>7. CASE c.call = "end"
  BY <1>7 DEF Rank
<1>8. CASE c.call = "clock"
  BY <1>8 DEF Rank
<1> QED
  BY <1>1, <1>2, <1>3, <1>4, <1>5, <1>6, <1>7, <1>8, CallIs DEF ThreadCalls

\* The calls that the proofs name, and their ranks.
LEMMA NamedCalls ==
  /\ \A q \in Players :
       /\ FlushPut(q) \in PlayerCalls /\ Rank(FlushPut(q)) = IF q = Audio THEN 2 ELSE 4
       /\ PutCall(q, Message("reset", 0), 0) \in PlayerCalls
       /\ Rank(PutCall(q, Message("reset", 0), 0)) = IF q = Audio THEN 2 ELSE 4
       /\ \A s \in Syncs, p \in {0, 1} :
            /\ PutCall(q, SyncMessage(s), p) \in PlayerCalls
            /\ Rank(PutCall(q, SyncMessage(s), p)) = IF q = Audio THEN 5 ELSE 6
       /\ \A name \in ThreadCalls \cup {"flush"} : OwnCall(name, q) \in PlayerCalls
       /\ Rank(OwnCall("flush", q)) = IF q = Audio THEN 1 ELSE 3
       /\ Rank(OwnCall("init", q)) = 9 /\ Rank(OwnCall("abort", q)) = 9
       /\ Rank(OwnCall("create", q)) = 10 /\ Rank(OwnCall("join", q)) = 10
       /\ Rank(OwnCall("end", q)) = 11
  /\ OwnCall("clock", Owner) \in PlayerCalls /\ Rank(OwnCall("clock", Owner)) = 12
  /\ \A s \in Syncs :
       /\ \A name \in {"wait", "waitOrStop", "release"} : SyncCall(name, s) \in PlayerCalls
       /\ Rank(SyncCall("wait", s)) = 7 /\ Rank(SyncCall("waitOrStop", s)) = 7
       /\ Rank(SyncCall("release", s)) = 8
<1>1. ASSUME NEW q \in Players
      PROVE  /\ FlushPut(q) \in PlayerCalls /\ Rank(FlushPut(q)) = IF q = Audio THEN 2 ELSE 4
             /\ PutCall(q, Message("reset", 0), 0) \in PlayerCalls
             /\ Rank(PutCall(q, Message("reset", 0), 0)) = IF q = Audio THEN 2 ELSE 4
  <2>1. FlushPut(q) \in PlayerCalls /\ PutCall(q, Message("reset", 0), 0) \in PlayerCalls
    BY DEF PlayerCalls, PutCalls
  <2>2. /\ FlushPut(q).call = "put" /\ FlushPut(q).q = q /\ ~IsSync(FlushPut(q).message)
        /\ PutCall(q, Message("reset", 0), 0).call = "put"
        /\ PutCall(q, Message("reset", 0), 0).q = q
        /\ ~IsSync(PutCall(q, Message("reset", 0), 0).message)
    BY DEF FlushPut, PutCall, Call, Message, IsSync
  <2> QED
    BY <2>1, <2>2, RankIs
<1>2. ASSUME NEW q \in Players, NEW s \in Syncs, NEW p \in {0, 1}
      PROVE  /\ PutCall(q, SyncMessage(s), p) \in PlayerCalls
             /\ Rank(PutCall(q, SyncMessage(s), p)) = IF q = Audio THEN 5 ELSE 6
  <2>1. PutCall(q, SyncMessage(s), p) \in PlayerCalls
    BY DEF PlayerCalls, PutCalls
  <2>2. /\ PutCall(q, SyncMessage(s), p).call = "put" /\ PutCall(q, SyncMessage(s), p).q = q
        /\ IsSync(PutCall(q, SyncMessage(s), p).message)
    BY DEF PutCall, Call, SyncMessage, Message, IsSync
  <2> QED
    BY <2>1, <2>2, RankIs
<1>3. ASSUME NEW q \in Players
      PROVE  /\ \A name \in ThreadCalls \cup {"flush"} : OwnCall(name, q) \in PlayerCalls
             /\ Rank(OwnCall("flush", q)) = IF q = Audio THEN 1 ELSE 3
             /\ Rank(OwnCall("init", q)) = 9 /\ Rank(OwnCall("abort", q)) = 9
             /\ Rank(OwnCall("create", q)) = 10 /\ Rank(OwnCall("join", q)) = 10
             /\ Rank(OwnCall("end", q)) = 11
  <2>1. \A name \in ThreadCalls \cup {"flush"} : OwnCall(name, q) \in PlayerCalls
    BY DEF PlayerCalls, OwnCalls
  <2>2. \A name : OwnCall(name, q).call = name /\ OwnCall(name, q).q = q
    BY DEF OwnCall, Call
  <2> QED
    BY <2>1, <2>2, RankIs DEF ThreadCalls
<1>4. OwnCall("clock", Owner) \in PlayerCalls /\ Rank(OwnCall("clock", Owner)) = 12
  BY RankIs DEF PlayerCalls, OwnCalls, OwnCall, Call
<1>5. ASSUME NEW s \in Syncs
      PROVE  /\ \A name \in {"wait", "waitOrStop", "release"} : SyncCall(name, s) \in PlayerCalls
             /\ Rank(SyncCall("wait", s)) = 7 /\ Rank(SyncCall("waitOrStop", s)) = 7
             /\ Rank(SyncCall("release", s)) = 8
  <2>1. \A name \in {"wait", "waitOrStop", "release"} : SyncCall(name, s) \in PlayerCalls
    BY DEF PlayerCalls, WaitCalls
  <2>2. \A name : SyncCall(name, s).call = name
    BY DEF SyncCall, Call
  <2> QED
    BY <2>1, <2>2, RankIs
<1> QED
  BY <1>1, <1>2, <1>3, <1>4, <1>5

\* A ranked list of calls, by the set of the calls in it.
RankedSeq(calls) == calls \in Seq(PlayerCalls) /\ Ranked(calls)

LEMMA TailOfCalls ==
  ASSUME NEW calls, RankedSeq(calls), calls # <<>>
  PROVE  /\ RankedSeq(Tail(calls))
         /\ Head(calls) \in Range(calls) /\ Head(calls) \in PlayerCalls
         /\ Range(Tail(calls)) = Range(calls) \ {Head(calls)}
         /\ \A c \in Range(Tail(calls)) : Rank(Head(calls)) < Rank(c)
         /\ Range(calls) \subseteq PlayerCalls
<1>1. PICK n \in Nat \ {0} : n = Len(calls)
  BY EmptySeq DEF RankedSeq
<1>2. /\ DOMAIN calls = 1 .. n /\ \A i \in 1 .. n : calls[i] \in PlayerCalls
      /\ Head(calls) = calls[1] /\ 1 \in 1 .. n
  BY <1>1, LenProperties, ElementOfSeq DEF RankedSeq
<1>3. /\ Tail(calls) \in Seq(PlayerCalls) /\ Len(Tail(calls)) = n - 1
      /\ \A i \in 1 .. (n - 1) : Tail(calls)[i] = calls[i + 1]
  BY <1>1, HeadTailProperties DEF RankedSeq
<1>4. DOMAIN Tail(calls) = 1 .. (n - 1)
  BY <1>3, LenProperties
<1>5. \A i, j \in 1 .. n : i < j => Rank(calls[i]) < Rank(calls[j])
  BY <1>1 DEF RankedSeq, Ranked
<1>6. \A i \in 1 .. n : i = 1 \/ (i - 1 \in 1 .. (n - 1) /\ (i - 1) + 1 = i)
  OBVIOUS
<1>7. \A i \in 1 .. (n - 1) : i + 1 \in 1 .. n /\ 1 < i + 1
  OBVIOUS
<1>8. \A c \in Range(Tail(calls)) : Rank(Head(calls)) < Rank(c) /\ c \in Range(calls)
  <2> SUFFICES ASSUME NEW i \in 1 .. (n - 1)
               PROVE  Rank(calls[1]) < Rank(calls[i + 1]) /\ calls[i + 1] \in Range(calls)
    BY <1>2, <1>3, <1>4 DEF Range
  <2> QED
    BY <1>2, <1>5, <1>7 DEF Range
<1>9. \A c \in Range(calls) : c = Head(calls) \/ c \in Range(Tail(calls))
  <2> SUFFICES ASSUME NEW i \in 1 .. n, i # 1
               PROVE  calls[i] \in Range(Tail(calls))
    BY <1>2 DEF Range
  <2>1. i - 1 \in 1 .. (n - 1) /\ calls[i] = Tail(calls)[i - 1]
    BY <1>3, <1>6
  <2> QED
    BY <1>4, <2>1 DEF Range
<1>10. Rank(Head(calls)) \in Nat
  BY <1>2, RankIs
<1>11. Ranked(Tail(calls))
  <2> SUFFICES ASSUME NEW i \in 1 .. (n - 1), NEW j \in 1 .. (n - 1), i < j
               PROVE  Rank(calls[i + 1]) < Rank(calls[j + 1])
    BY <1>3 DEF Ranked
  <2> QED
    BY <1>5, <1>7
<1>12. Head(calls) \notin Range(Tail(calls))
  BY <1>8, <1>10
<1>13. Range(calls) \subseteq PlayerCalls /\ Head(calls) \in Range(calls)
  BY <1>2 DEF Range
<1> QED
  BY <1>2, <1>3, <1>8, <1>9, <1>11, <1>12, <1>13 DEF RankedSeq

LEMMA ConcatCalls ==
  ASSUME NEW a, NEW b, RankedSeq(a), RankedSeq(b),
         \A c \in Range(a), d \in Range(b) : Rank(c) < Rank(d)
  PROVE  RankedSeq(a \o b) /\ Range(a \o b) = Range(a) \cup Range(b)
<1> DEFINE m == Len(a)
           n == Len(b)
<1>1. /\ m \in Nat /\ n \in Nat /\ DOMAIN a = 1 .. m /\ DOMAIN b = 1 .. n
      /\ a \o b \in Seq(PlayerCalls) /\ Len(a \o b) = m + n
      /\ \A i \in 1 .. (m + n) : (a \o b)[i] = IF i <= m THEN a[i] ELSE b[i - m]
  BY LenProperties, ConcatProperties DEF RankedSeq
<1>2. DOMAIN (a \o b) = 1 .. (m + n)
  BY <1>1, LenProperties
<1>3. /\ \A i, j \in 1 .. m : i < j => Rank(a[i]) < Rank(a[j])
      /\ \A i, j \in 1 .. n : i < j => Rank(b[i]) < Rank(b[j])
  BY DEF RankedSeq, Ranked
<1>4. \A i \in 1 .. m, j \in 1 .. n : Rank(a[i]) < Rank(b[j])
  BY <1>1 DEF Range
<1> DEFINE c == a \o b
<1> HIDE DEF m, n, c
<1>5. \A i \in 1 .. (m + n) : \/ i \in 1 .. m /\ c[i] = a[i]
                              \/ i > m /\ i - m \in 1 .. n /\ c[i] = b[i - m]
  BY <1>1 DEF c
<1>6. Ranked(c)
  <2> SUFFICES ASSUME NEW i \in 1 .. (m + n), NEW j \in 1 .. (m + n), i < j
               PROVE  Rank(c[i]) < Rank(c[j])
    BY <1>1 DEF Ranked, c
  <2>1. CASE i \in 1 .. m /\ j \in 1 .. m
    <3>1. c[i] = a[i] /\ c[j] = a[j]
      BY <1>1, <1>5, <2>1
    <3> QED
      BY <1>3, <2>1, <3>1
  <2>2. CASE i \in 1 .. m /\ j > m
    <3>1. c[i] = a[i] /\ j - m \in 1 .. n /\ c[j] = b[j - m]
      BY <1>1, <1>5, <2>2
    <3> QED
      BY <1>4, <2>2, <3>1
  <2>3. CASE i > m /\ j > m
    <3>1. i - m \in 1 .. n /\ c[i] = b[i - m] /\ j - m \in 1 .. n /\ c[j] = b[j - m]
      BY <1>1, <1>5, <2>3
    <3>2. i - m < j - m
      BY <1>1
    <3> QED
      BY <1>3, <3>1, <3>2
  <2> QED
    BY <1>1, <2>1, <2>2, <2>3
<1>7. Range(c) = Range(a) \cup Range(b)
  <2>1. \A x \in Range(c) : x \in Range(a) \/ x \in Range(b)
    BY <1>1, <1>2, <1>5 DEF Range, c
  <2>2. \A i \in 1 .. m : a[i] \in Range(c)
    <3> SUFFICES ASSUME NEW i \in 1 .. m
                 PROVE  a[i] \in Range(c)
      OBVIOUS
    <3>1. i \in 1 .. (m + n) /\ c[i] = a[i]
      BY <1>1 DEF c
    <3> QED
      BY <1>2, <3>1 DEF Range, c
  <2>3. \A i \in 1 .. n : b[i] \in Range(c)
    <3> SUFFICES ASSUME NEW i \in 1 .. n
                 PROVE  b[i] \in Range(c)
      OBVIOUS
    <3>1. m + i \in 1 .. (m + n) /\ ~(m + i <= m) /\ (m + i) - m = i
      BY <1>1
    <3>2. c[m + i] = b[i]
      BY <1>1, <3>1 DEF c
    <3> QED
      BY <1>2, <3>1, <3>2 DEF Range, c
  <2> QED
    BY <1>1, <2>1, <2>2, <2>3 DEF Range
<1> QED
  BY <1>1, <1>6, <1>7 DEF RankedSeq, c

LEMMA ShortCalls ==
  /\ RankedSeq(<<>>) /\ Range(<<>>) = {}
  /\ \A c \in PlayerCalls : RankedSeq(<<c>>) /\ Range(<<c>>) = {c}
  /\ \A c, d \in PlayerCalls : /\ Range(<<c, d>>) = {c, d}
                               /\ Rank(c) < Rank(d) => RankedSeq(<<c, d>>)
  /\ \A c, d, e \in PlayerCalls :
       /\ Range(<<c, d, e>>) = {c, d, e}
       /\ Rank(c) < Rank(d) /\ Rank(d) < Rank(e) => RankedSeq(<<c, d, e>>)
<1>1. RankedSeq(<<>>) /\ Range(<<>>) = {}
  BY EmptySeq DEF RankedSeq, Ranked, Range
<1>2. ASSUME NEW c \in PlayerCalls
      PROVE  RankedSeq(<<c>>) /\ Range(<<c>>) = {c}
  BY DEF RankedSeq, Ranked, Range
<1>3. ASSUME NEW c \in PlayerCalls, NEW d \in PlayerCalls
      PROVE  Range(<<c, d>>) = {c, d} /\ (Rank(c) < Rank(d) => RankedSeq(<<c, d>>))
  BY DEF RankedSeq, Ranked, Range
<1>4. ASSUME NEW c \in PlayerCalls, NEW d \in PlayerCalls, NEW e \in PlayerCalls
      PROVE  /\ Range(<<c, d, e>>) = {c, d, e}
             /\ Rank(c) < Rank(d) /\ Rank(d) < Rank(e) => RankedSeq(<<c, d, e>>)
  <2>1. Range(<<c, d, e>>) = {c, d, e} /\ <<c, d, e>> \in Seq(PlayerCalls)
    BY DEF Range
  <2>2. ASSUME Rank(c) < Rank(d), Rank(d) < Rank(e)
        PROVE  Ranked(<<c, d, e>>)
    <3>1. Rank(c) \in Nat /\ Rank(d) \in Nat /\ Rank(e) \in Nat
      BY RankIs
    <3> QED
      BY <2>2, <3>1 DEF Ranked
  <2> QED
    BY <2>1, <2>2 DEF RankedSeq
<1> QED
  BY <1>1, <1>2, <1>3, <1>4

\* A call returns: the calls that are left have a higher rank.
LEMMA Returned ==
  ASSUME Types, Handlers, todo # <<>>, Return
  PROVE  /\ todo' \in Seq(PlayerCalls) /\ Handlers'
         /\ Head(todo) \in Left /\ Head(todo) \in PlayerCalls
         /\ Left' = Left \ {Head(todo)} /\ Left \subseteq PlayerCalls
         /\ \A c \in Left' : Rank(Head(todo)) < Rank(c)
<1> DEFINE h == Head(todo)
<1>1. RankedSeq(todo)
  BY DEF Types, Handlers, RankedSeq
<1>2. /\ todo' \in Seq(PlayerCalls) /\ Ranked(todo')
      /\ h \in Left /\ h \in PlayerCalls
      /\ Left' = Left \ {h} /\ Left \subseteq PlayerCalls
      /\ \A c \in Left' : Rank(h) < Rank(c)
  BY <1>1, TailOfCalls DEF Return, Left, RankedSeq
<1> HIDE DEF h
<1>3. ASSUME NEW c \in Left', IsSync(c.message)
      PROVE  SyncCall("release", c.message.id) \in Left'
  <2>1. SyncCall("release", c.message.id) \in Left
    BY <1>2, <1>3 DEF Handlers
  <2>2. c.message.id \in Syncs /\ Rank(c) <= 8
    BY <1>2, <1>3, CallIs, RankIs
  <2>3. Rank(SyncCall("release", c.message.id)) = 8
    BY <2>2, NamedCalls
  <2>4. Rank(h) \in Nat /\ Rank(c) \in Nat /\ Rank(h) < Rank(c)
    BY <1>2, RankIs
  <2> QED
    BY <1>2, <2>1, <2>2, <2>3, <2>4
<1>4. ASSUME NEW q \in Players, OwnCall("flush", q) \in Left'
      PROVE  FlushPut(q) \in Left'
  <2>1. FlushPut(q) \in Left
    BY <1>2, <1>4 DEF Handlers, Flushing
  <2>2. FlushPut(q) # h
    BY <1>2, <1>4, NamedCalls
  <2> QED
    BY <1>2, <2>1, <2>2
<1>5. ASSUME NEW q \in Players, NEW s \in Syncs,
             SyncCall("waitOrStop", s) \in Left', FlushPut(q) \in Left'
      PROVE  Puts(q, s)'
  <2>1. PICK p \in {0, 1} : PutCall(q, SyncMessage(s), p) \in Left
    BY <1>2, <1>5 DEF Handlers, Puts
  <2>2. PutCall(q, SyncMessage(s), p) # h
    BY <1>2, <1>5, NamedCalls
  <2> QED
    BY <1>2, <2>1, <2>2 DEF Puts
<1>6. Handlers'
  BY <1>2, <1>3, <1>4, <1>5 DEF Handlers, Flushing
<1> QED
  BY <1>2, <1>6 DEF h

\* The calls of each handler.  First the names and the messages of those that occur.
LEMMA CallFields ==
  /\ \A name, q : OwnCall(name, q).call = name /\ OwnCall(name, q).q = q
                  /\ ~IsSync(OwnCall(name, q).message)
  /\ \A name, s : SyncCall(name, s).call = name /\ SyncCall(name, s).message = SyncMessage(s)
  /\ \A q, m, p : PutCall(q, m, p).call = "put" /\ PutCall(q, m, p).q = q
                  /\ PutCall(q, m, p).message = m /\ PutCall(q, m, p).priority = p
  /\ \A q : FlushPut(q).call = "put" /\ FlushPut(q).q = q /\ ~IsSync(FlushPut(q).message)
            /\ FlushPut(q).message.type = "flush"
  /\ ~IsSync(Message("reset", 0))
BY DEF OwnCall, SyncCall, PutCall, FlushPut, Call, Nothing, Item, Message, SyncMessage, IsSync

\* A handler has one synchronize message s at most, and opens or closes one player q at most.
LEMMA HandlerBegins ==
  ASSUME RankedSeq(todo'), NEW q, NEW s,
         \A c \in Left' : IsSync(c.message) =>
           c.message = SyncMessage(s) /\ SyncCall("release", s) \in Left',
         \A c \in Left' : c.call \in ThreadCalls => c.q = q,
         \A c, d \in Left' :
           c.call = "waitOrStop" => d.call \in {"flush", "put", "waitOrStop", "release"},
         \A r \in Players : OwnCall("flush", r) \in Left' => FlushPut(r) \in Left',
         \A r \in Players, m \in Syncs : SyncCall("waitOrStop", m) \in Left' =>
           PutCall(r, SyncMessage(m), 1) \in Left'
  PROVE  todo' \in Seq(PlayerCalls) /\ Handlers'
<1>1. todo' \in Seq(PlayerCalls) /\ Ranked(todo')
  BY DEF RankedSeq
<1>2. \A c \in Left' : IsSync(c.message) => SyncCall("release", c.message.id) \in Left'
  BY MessagesAre
<1>3. \A c, d \in Left' : IsSync(c.message) /\ IsSync(d.message) => c.message = d.message
  OBVIOUS
<1>4. \A c, d \in Left' : c.call \in ThreadCalls /\ d.call \in ThreadCalls => c.q = d.q
  OBVIOUS
<1>5. \A r \in Players, m \in Syncs :
        SyncCall("waitOrStop", m) \in Left' /\ FlushPut(r) \in Left' => Puts(r, m)'
  BY DEF Puts
<1>6. \A r \in Players : Flushing(r)' => FlushPut(r) \in Left'
  BY DEF Flushing
<1> QED
  BY <1>1, <1>2, <1>3, <1>4, <1>5, <1>6 DEF Handlers

LEMMA OpenBegins ==
  ASSUME NEW q \in Players,
         todo' = <<OwnCall("init", q), OwnCall("create", q), OwnCall("clock", Owner)>>
  PROVE  /\ todo' \in Seq(PlayerCalls) /\ Handlers'
         /\ Left' = {OwnCall("init", q), OwnCall("create", q), OwnCall("clock", Owner)}
<1>1. RankedSeq(todo') /\ Left' = {OwnCall("init", q), OwnCall("create", q), OwnCall("clock", Owner)}
  BY NamedCalls, ShortCalls DEF Left, ThreadCalls
<1>2. \A c \in Left' : /\ ~IsSync(c.message) /\ c.call \in {"init", "create", "clock"}
                       /\ c.call \in ThreadCalls => c.q = q
  BY <1>1, CallFields DEF ThreadCalls
<1>3. \A r : OwnCall("flush", r) \notin Left' /\ SyncCall("waitOrStop", r) \notin Left'
  BY <1>2, CallFields
<1>4. /\ \A c \in Left' : c.call # "waitOrStop"
      /\ \A c \in Left' : c.call \in ThreadCalls => c.q = q
      /\ \A c \in Left' : IsSync(c.message) =>
           c.message = SyncMessage(q) /\ SyncCall("release", q) \in Left'
  BY <1>2
<1>5. todo' \in Seq(PlayerCalls) /\ Handlers'
  BY <1>1, <1>3, <1>4, HandlerBegins
<1> QED
  BY <1>1, <1>5

LEMMA CloseCallsAre ==
  ASSUME NEW q \in Players
  PROVE  /\ RankedSeq(CloseCalls(q))
         /\ Range(CloseCalls(q)) = {OwnCall("abort", q), OwnCall("join", q), OwnCall("end", q),
                                    OwnCall("clock", Owner)}
<1> DEFINE a == OwnCall("abort", q)
           j == OwnCall("join", q)
           e == OwnCall("end", q)
           k == OwnCall("clock", Owner)
<1>1. /\ a \in PlayerCalls /\ j \in PlayerCalls /\ e \in PlayerCalls /\ k \in PlayerCalls
      /\ Rank(a) = 9 /\ Rank(j) = 10 /\ Rank(e) = 11 /\ Rank(k) = 12
  BY NamedCalls DEF ThreadCalls
<1>2. CloseCalls(q) = <<a, j, e, k>>
  BY DEF CloseCalls
<1> HIDE DEF a, j, e, k
<1>3. <<a, j, e, k>> \in Seq(PlayerCalls) /\ Range(<<a, j, e, k>>) = {a, j, e, k}
  BY <1>1 DEF Range
<1>4. Ranked(<<a, j, e, k>>)
  BY <1>1 DEF Ranked
<1> QED
  BY <1>2, <1>3, <1>4 DEF RankedSeq, a, j, e, k

LEMMA CloseBegins ==
  ASSUME NEW q \in Players, todo' = CloseCalls(q)
  PROVE  /\ todo' \in Seq(PlayerCalls) /\ Handlers'
         /\ Left' = {OwnCall("abort", q), OwnCall("join", q), OwnCall("end", q),
                     OwnCall("clock", Owner)}
<1>1. RankedSeq(todo') /\ Left' = {OwnCall("abort", q), OwnCall("join", q), OwnCall("end", q),
                                   OwnCall("clock", Owner)}
  BY CloseCallsAre DEF Left
<1>2. \A c \in Left' : /\ ~IsSync(c.message) /\ c.call \in {"abort", "join", "end", "clock"}
                       /\ c.call \in ThreadCalls => c.q = q
  BY <1>1, CallFields DEF ThreadCalls
<1>3. \A r : OwnCall("flush", r) \notin Left' /\ SyncCall("waitOrStop", r) \notin Left'
  BY <1>2, CallFields
<1>4. /\ \A c \in Left' : c.call # "waitOrStop"
      /\ \A c \in Left' : c.call \in ThreadCalls => c.q = q
      /\ \A c \in Left' : IsSync(c.message) =>
           c.message = SyncMessage(q) /\ SyncCall("release", q) \in Left'
  BY <1>2
<1>5. todo' \in Seq(PlayerCalls) /\ Handlers'
  BY <1>1, <1>3, <1>4, HandlerBegins
<1> QED
  BY <1>1, <1>5

LEMMA CloseWhenEmptyBegins ==
  ASSUME NEW q \in Players, NEW s \in Syncs,
         todo' = <<PutCall(q, SyncMessage(s), 0), SyncCall("wait", s), SyncCall("release", s)>>
                   \o CloseCalls(q)
  PROVE  /\ todo' \in Seq(PlayerCalls) /\ Handlers'
         /\ Left' = {PutCall(q, SyncMessage(s), 0), SyncCall("wait", s), SyncCall("release", s),
                     OwnCall("abort", q), OwnCall("join", q), OwnCall("end", q),
                     OwnCall("clock", Owner)}
<1> DEFINE a == <<PutCall(q, SyncMessage(s), 0), SyncCall("wait", s), SyncCall("release", s)>>
<1>1. /\ RankedSeq(a)
      /\ Range(a) = {PutCall(q, SyncMessage(s), 0), SyncCall("wait", s), SyncCall("release", s)}
      /\ \A c \in Range(a) : Rank(c) \in {5, 6, 7, 8}
  <2> DEFINE p == PutCall(q, SyncMessage(s), 0)
             w == SyncCall("wait", s)
             r == SyncCall("release", s)
  <2>1. /\ p \in PlayerCalls /\ w \in PlayerCalls /\ r \in PlayerCalls
        /\ Rank(p) \in {5, 6} /\ Rank(w) = 7 /\ Rank(r) = 8
    BY NamedCalls
  <2>2. a = <<p, w, r>>
    OBVIOUS
  <2> HIDE DEF p, w, r, a
  <2>3. Range(a) = {p, w, r} /\ RankedSeq(a)
    BY <2>1, <2>2, ShortCalls
  <2> QED
    BY <2>1, <2>3 DEF p, w, r
<1>2. RankedSeq(CloseCalls(q)) /\ \A c \in Range(CloseCalls(q)) : Rank(c) \in {9, 10, 11, 12}
  <2>1. /\ Rank(OwnCall("abort", q)) = 9 /\ Rank(OwnCall("join", q)) = 10
        /\ Rank(OwnCall("end", q)) = 11 /\ Rank(OwnCall("clock", Owner)) = 12
    BY NamedCalls
  <2> QED
    BY <2>1, CloseCallsAre
<1> HIDE DEF a
<1>3. \A c \in Range(a), d \in Range(CloseCalls(q)) : Rank(c) < Rank(d)
  BY <1>1, <1>2
<1>4. RankedSeq(todo') /\ Left' = Range(a) \cup Range(CloseCalls(q))
  BY <1>1, <1>2, <1>3, ConcatCalls DEF Left, a
<1>5. Left' = {PutCall(q, SyncMessage(s), 0), SyncCall("wait", s), SyncCall("release", s),
               OwnCall("abort", q), OwnCall("join", q), OwnCall("end", q), OwnCall("clock", Owner)}
  BY <1>1, <1>4, CloseCallsAre
<1>6. \A c \in Left' : /\ IsSync(c.message) => c.message = SyncMessage(s)
                       /\ c.call \notin {"flush", "waitOrStop"}
                       /\ c.call \in ThreadCalls => c.q = q
  BY <1>5, CallFields DEF ThreadCalls
<1>7. \A r : OwnCall("flush", r) \notin Left' /\ SyncCall("waitOrStop", r) \notin Left'
  BY <1>6, CallFields
<1>8. SyncCall("release", s) \in Left'
  BY <1>5
<1> HIDE DEF a
<1>9. todo' \in Seq(PlayerCalls) /\ Handlers'
  BY <1>4, <1>6, <1>7, <1>8, HandlerBegins
<1> QED
  BY <1>5, <1>9

\* FlushBuffers drops what is in each of the queues.
Drops(q) == {OwnCall("flush", q), FlushPut(q)}

LEMMA DropCalls ==
  /\ \A q \in Players : RankedSeq(<<OwnCall("flush", q), FlushPut(q)>>)
  /\ RankedSeq(<<OwnCall("flush", Audio), FlushPut(Audio)>>
                 \o <<OwnCall("flush", Video), FlushPut(Video)>>)
  /\ Range(<<OwnCall("flush", Audio), FlushPut(Audio)>>
             \o <<OwnCall("flush", Video), FlushPut(Video)>>) = Drops(Audio) \cup Drops(Video)
  /\ \A c \in Drops(Audio) \cup Drops(Video) : Rank(c) \in {1, 2, 3, 4}
<1> DEFINE fa == OwnCall("flush", Audio)
           pa == FlushPut(Audio)
           fv == OwnCall("flush", Video)
           pv == FlushPut(Video)
<1>1. /\ fa \in PlayerCalls /\ pa \in PlayerCalls /\ fv \in PlayerCalls /\ pv \in PlayerCalls
      /\ Rank(fa) = 1 /\ Rank(pa) = 2 /\ Rank(fv) = 3 /\ Rank(pv) = 4
  BY NamedCalls, PlayerAssumption DEF Players
<1>2. Drops(Audio) = {fa, pa} /\ Drops(Video) = {fv, pv}
  BY DEF Drops
<1>3. \A q \in Players : RankedSeq(<<OwnCall("flush", q), FlushPut(q)>>)
  <2> SUFFICES ASSUME NEW q \in Players
               PROVE  RankedSeq(<<OwnCall("flush", q), FlushPut(q)>>)
    OBVIOUS
  <2>1. /\ OwnCall("flush", q) \in PlayerCalls /\ FlushPut(q) \in PlayerCalls
        /\ Rank(OwnCall("flush", q)) < Rank(FlushPut(q))
    BY NamedCalls
  <2> QED
    BY <2>1, ShortCalls
<1> HIDE DEF fa, pa, fv, pv
<1>4. /\ RankedSeq(<<fa, pa>>) /\ Range(<<fa, pa>>) = {fa, pa}
      /\ RankedSeq(<<fv, pv>>) /\ Range(<<fv, pv>>) = {fv, pv}
  BY <1>1, ShortCalls
<1>5. \A c \in {fa, pa}, d \in {fv, pv} : Rank(c) < Rank(d)
  BY <1>1
<1>6. /\ RankedSeq(<<fa, pa>> \o <<fv, pv>>)
      /\ Range(<<fa, pa>> \o <<fv, pv>>) = {fa, pa, fv, pv}
  BY <1>4, <1>5, ConcatCalls
<1> QED
  BY <1>1, <1>2, <1>3, <1>6 DEF fa, pa, fv, pv

LEMMA DropBegins ==
  ASSUME todo' = <<OwnCall("flush", Audio), FlushPut(Audio)>>
                   \o <<OwnCall("flush", Video), FlushPut(Video)>>
  PROVE  todo' \in Seq(PlayerCalls) /\ Handlers' /\ Left' = Drops(Audio) \cup Drops(Video)
<1>1. RankedSeq(todo') /\ Left' = Drops(Audio) \cup Drops(Video)
  BY DropCalls DEF Left
<1>2. \A c \in Left' : ~IsSync(c.message) /\ c.call \in {"flush", "put"}
  BY <1>1, CallFields DEF Drops
<1>3. \A r \in Players : OwnCall("flush", r) \in Left' => FlushPut(r) \in Left'
  BY <1>1 DEF Drops, Players
<1>4. /\ \A c \in Left' : c.call \notin ThreadCalls /\ c.call # "waitOrStop"
      /\ \A m \in Syncs : SyncCall("waitOrStop", m) \notin Left'
  BY <1>2, CallFields DEF ThreadCalls
<1>5. todo' \in Seq(PlayerCalls) /\ Handlers'
  BY <1>1, <1>2, <1>3, <1>4, HandlerBegins
<1> QED
  BY <1>1, <1>5

LEMMA FlushBegins ==
  ASSUME NEW s \in Syncs,
         todo' = <<OwnCall("flush", Audio), FlushPut(Audio)>>
                   \o <<OwnCall("flush", Video), FlushPut(Video)>>
                   \o <<PutCall(Audio, SyncMessage(s), 1), PutCall(Video, SyncMessage(s), 1)>>
                   \o <<SyncCall("waitOrStop", s), SyncCall("release", s)>>
  PROVE  /\ todo' \in Seq(PlayerCalls) /\ Handlers'
         /\ Left' = Drops(Audio) \cup Drops(Video)
                      \cup {PutCall(Audio, SyncMessage(s), 1), PutCall(Video, SyncMessage(s), 1),
                            SyncCall("waitOrStop", s), SyncCall("release", s)}
<1> DEFINE a == <<OwnCall("flush", Audio), FlushPut(Audio)>>
                  \o <<OwnCall("flush", Video), FlushPut(Video)>>
           pa == PutCall(Audio, SyncMessage(s), 1)
           pv == PutCall(Video, SyncMessage(s), 1)
           w == SyncCall("waitOrStop", s)
           r == SyncCall("release", s)
<1>1. /\ pa \in PlayerCalls /\ pv \in PlayerCalls /\ w \in PlayerCalls /\ r \in PlayerCalls
      /\ Rank(pa) = 5 /\ Rank(pv) = 6 /\ Rank(w) = 7 /\ Rank(r) = 8
  BY NamedCalls, PlayerAssumption DEF Players
<1>2. /\ RankedSeq(a) /\ Range(a) = Drops(Audio) \cup Drops(Video)
      /\ \A c \in Range(a) : Rank(c) \in {1, 2, 3, 4}
  BY DropCalls
<1>3. todo' = (a \o <<pa, pv>>) \o <<w, r>>
  OBVIOUS
<1> HIDE DEF a, pa, pv, w, r
<1>4. /\ RankedSeq(<<pa, pv>>) /\ Range(<<pa, pv>>) = {pa, pv}
      /\ RankedSeq(<<w, r>>) /\ Range(<<w, r>>) = {w, r}
  BY <1>1, ShortCalls
<1>5. /\ RankedSeq(a \o <<pa, pv>>) /\ Range(a \o <<pa, pv>>) = Range(a) \cup {pa, pv}
  <2>1. \A c \in Range(a), d \in {pa, pv} : Rank(c) < Rank(d)
    BY <1>1, <1>2
  <2> QED
    BY <1>2, <1>4, <2>1, ConcatCalls
<1>6. RankedSeq(todo') /\ Left' = Range(a) \cup {pa, pv} \cup {w, r}
  <2>1. \A c \in Range(a \o <<pa, pv>>), d \in Range(<<w, r>>) : Rank(c) < Rank(d)
    BY <1>1, <1>2, <1>4, <1>5
  <2>2. /\ RankedSeq((a \o <<pa, pv>>) \o <<w, r>>)
        /\ Range((a \o <<pa, pv>>) \o <<w, r>>) = Range(a \o <<pa, pv>>) \cup Range(<<w, r>>)
    BY <1>4, <1>5, <2>1, ConcatCalls
  <2> QED
    BY <1>3, <1>4, <1>5, <2>2 DEF Left
<1>7. Left' = Drops(Audio) \cup Drops(Video) \cup {pa, pv, w, r}
  BY <1>2, <1>6
<1>8. /\ \A c \in {pa, pv, w, r} : /\ c.message = SyncMessage(s)
                                   /\ c.call \in {"put", "waitOrStop", "release"}
      /\ \A c \in Drops(Audio) \cup Drops(Video) : ~IsSync(c.message) /\ c.call \in {"flush", "put"}
  BY CallFields DEF pa, pv, w, r, Drops
<1>9. /\ \A c \in Left' : IsSync(c.message) => c.message = SyncMessage(s) /\ r \in Left'
      /\ \A c \in Left' : c.call \in {"flush", "put", "waitOrStop", "release"}
  BY <1>7, <1>8
<1>10. \A c \in Left' : c.call \notin ThreadCalls
  BY <1>9 DEF ThreadCalls
<1>11. \A q \in Players : FlushPut(q) \in Left'
  BY <1>7 DEF Drops, Players
<1>12. ASSUME NEW q \in Players, NEW m \in Syncs, SyncCall("waitOrStop", m) \in Left'
       PROVE  PutCall(q, SyncMessage(m), 1) \in Left'
  <2>1. SyncMessage(m) = SyncMessage(s)
    BY <1>9, <1>12, CallFields, MessagesAre
  <2> QED
    BY <1>7, <2>1 DEF Players, pa, pv
<1>13. todo' \in Seq(PlayerCalls) /\ Handlers'
  BY <1>6, <1>9, <1>10, <1>11, <1>12, HandlerBegins DEF r
<1> QED
  BY <1>7, <1>13 DEF pa, pv, w, r

\* SynchronizePlayers.
Sends(s, open) == {PutCall(q, SyncMessage(s), 0) : q \in Players \cap open}

LEMMA SynchronizeCallsAre ==
  ASSUME NEW s \in Syncs, NEW open
  PROVE  /\ RankedSeq(SynchronizeCalls(s, open))
         /\ Range(SynchronizeCalls(s, open)) = Sends(s, open) \cup {SyncCall("release", s)}
         /\ \A c \in Range(SynchronizeCalls(s, open)) : Rank(c) \in {5, 6, 8}
<1> DEFINE a == SendTo(Audio, s, open)
           v == SendTo(Video, s, open)
           pa == PutCall(Audio, SyncMessage(s), 0)
           pv == PutCall(Video, SyncMessage(s), 0)
           r == SyncCall("release", s)
<1>1. /\ pa \in PlayerCalls /\ pv \in PlayerCalls /\ r \in PlayerCalls
      /\ Rank(pa) = 5 /\ Rank(pv) = 6 /\ Rank(r) = 8
  BY NamedCalls, PlayerAssumption DEF Players
<1>2. /\ a = IF Audio \in open THEN <<pa>> ELSE <<>>
      /\ v = IF Video \in open THEN <<pv>> ELSE <<>>
  BY DEF SendTo, SyncMessage
<1>3. Sends(s, open) = (IF Audio \in open THEN {pa} ELSE {}) \cup (IF Video \in open THEN {pv} ELSE {})
  BY DEF Sends, Players
<1>4. SynchronizeCalls(s, open) = (a \o v) \o <<r>>
  BY DEF SynchronizeCalls
<1> HIDE DEF a, v, pa, pv, r
<1>5. /\ RankedSeq(a) /\ Range(a) = IF Audio \in open THEN {pa} ELSE {}
      /\ RankedSeq(v) /\ Range(v) = IF Video \in open THEN {pv} ELSE {}
      /\ RankedSeq(<<r>>) /\ Range(<<r>>) = {r}
  BY <1>1, <1>2, ShortCalls
<1>6. RankedSeq(a \o v) /\ Range(a \o v) = Sends(s, open)
  <2>1. \A c \in Range(a), d \in Range(v) : Rank(c) < Rank(d)
    BY <1>1, <1>5
  <2> QED
    BY <1>3, <1>5, <2>1, ConcatCalls
<1>7. \A c \in Sends(s, open) : Rank(c) \in {5, 6}
  BY <1>1, <1>3
<1>8. RankedSeq((a \o v) \o <<r>>) /\ Range((a \o v) \o <<r>>) = Sends(s, open) \cup {r}
  <2>1. \A c \in Range(a \o v), d \in Range(<<r>>) : Rank(c) < Rank(d)
    BY <1>1, <1>5, <1>6, <1>7
  <2> QED
    BY <1>5, <1>6, <2>1, ConcatCalls
<1>9. \A c \in Sends(s, open) \cup {r} : Rank(c) \in {5, 6, 8}
  BY <1>1, <1>7
<1> QED
  BY <1>4, <1>8, <1>9 DEF r

LEMMA SynchronizeBegins ==
  ASSUME NEW s \in Syncs, NEW open, NEW others, RankedSeq(todo'),
         Left' = others \cup Sends(s, open) \cup {SyncCall("release", s)},
         others \subseteq {PutCall(q, Message("reset", 0), 0) : q \in Players}
  PROVE  todo' \in Seq(PlayerCalls) /\ Handlers'
<1>1. Left' = others \cup Sends(s, open) \cup {SyncCall("release", s)}
  OBVIOUS
<1>2. /\ \A c \in others : ~IsSync(c.message) /\ c.call = "put"
      /\ \A c \in Sends(s, open) : c.message = SyncMessage(s) /\ c.call = "put"
      /\ SyncCall("release", s).message = SyncMessage(s) /\ SyncCall("release", s).call = "release"
  BY CallFields DEF Sends
<1>3. \A c \in Left' : /\ IsSync(c.message) =>
                            c.message = SyncMessage(s) /\ SyncCall("release", s) \in Left'
                       /\ c.call \in {"put", "release"}
  BY <1>1, <1>2
<1>4. /\ \A c \in Left' : c.call \notin ThreadCalls /\ c.call # "waitOrStop"
      /\ \A m : SyncCall("waitOrStop", m) \notin Left' /\ OwnCall("flush", m) \notin Left'
  BY <1>3, CallFields DEF ThreadCalls
<1> QED
  BY <1>3, <1>4, HandlerBegins

LEMMA FlushQueuedBegins ==
  ASSUME NEW s \in Syncs, NEW open,
         todo' = <<PutCall(Audio, Message("reset", 0), 0), PutCall(Video, Message("reset", 0), 0)>>
                   \o SynchronizeCalls(s, open)
  PROVE  /\ todo' \in Seq(PlayerCalls) /\ Handlers'
         /\ Left' = {PutCall(q, Message("reset", 0), 0) : q \in Players}
                      \cup Sends(s, open) \cup {SyncCall("release", s)}
<1> DEFINE ra == PutCall(Audio, Message("reset", 0), 0)
           rv == PutCall(Video, Message("reset", 0), 0)
           c == SynchronizeCalls(s, open)
<1>1. ra \in PlayerCalls /\ rv \in PlayerCalls /\ Rank(ra) = 2 /\ Rank(rv) = 4
  BY NamedCalls, PlayerAssumption DEF Players
<1>2. /\ RankedSeq(c) /\ Range(c) = Sends(s, open) \cup {SyncCall("release", s)}
      /\ \A d \in Range(c) : Rank(d) \in {5, 6, 8}
  BY SynchronizeCallsAre
<1>3. {PutCall(q, Message("reset", 0), 0) : q \in Players} = {ra, rv}
  BY DEF Players
<1> HIDE DEF ra, rv, c
<1>4. RankedSeq(<<ra, rv>>) /\ Range(<<ra, rv>>) = {ra, rv}
  BY <1>1, ShortCalls
<1>5. RankedSeq(<<ra, rv>> \o c) /\ Range(<<ra, rv>> \o c) = {ra, rv} \cup Range(c)
  <2>1. \A x \in {ra, rv}, d \in Range(c) : Rank(x) < Rank(d)
    BY <1>1, <1>2
  <2> QED
    BY <1>2, <1>4, <2>1, ConcatCalls
<1>6. todo' = <<ra, rv>> \o c
  BY DEF ra, rv, c
<1>7. Left' = {PutCall(q, Message("reset", 0), 0) : q \in Players}
                \cup Sends(s, open) \cup {SyncCall("release", s)}
  BY <1>2, <1>3, <1>5, <1>6 DEF Left
<1>8. RankedSeq(todo')
  BY <1>5, <1>6
<1> DEFINE others == {PutCall(q, Message("reset", 0), 0) : q \in Players}
<1>9. /\ others \subseteq {PutCall(q, Message("reset", 0), 0) : q \in Players}
      /\ Left' = others \cup Sends(s, open) \cup {SyncCall("release", s)}
  BY <1>7
<1> HIDE DEF others
<1>10. todo' \in Seq(PlayerCalls) /\ Handlers'
  BY <1>8, <1>9, SynchronizeBegins
<1> QED
  BY <1>7, <1>10

LEMMA ClockBegins ==
  ASSUME Types, Handlers, Calls("clock"), NEW s \in Syncs, NEW open,
         todo' = SynchronizeCalls(s, open) \o Tail(todo)
  PROVE  /\ todo' \in Seq(PlayerCalls) /\ Handlers' /\ Left = {Head(todo)}
         /\ Left' = Sends(s, open) \cup {SyncCall("release", s)}
<1> DEFINE c == SynchronizeCalls(s, open)
<1>1. RankedSeq(todo) /\ todo # <<>>
  BY DEF Types, Handlers, RankedSeq, Calls
<1>2. /\ RankedSeq(Tail(todo)) /\ Range(Tail(todo)) \subseteq PlayerCalls
      /\ \A d \in Range(Tail(todo)) : Rank(Head(todo)) < Rank(d)
      /\ Head(todo) \in PlayerCalls
      /\ Left = Range(Tail(todo)) \cup {Head(todo)}
  BY <1>1, TailOfCalls DEF Left
<1>3. Rank(Head(todo)) = 12
  BY <1>2, RankIs DEF Calls
<1>4. Range(Tail(todo)) = {}
  BY <1>2, <1>3, RankIs
<1>5. /\ RankedSeq(c) /\ Range(c) = Sends(s, open) \cup {SyncCall("release", s)}
  BY SynchronizeCallsAre
<1> HIDE DEF c
<1>6. RankedSeq(c \o Tail(todo)) /\ Range(c \o Tail(todo)) = Range(c)
  BY <1>2, <1>4, <1>5, ConcatCalls
<1>7. todo' = c \o Tail(todo)
  BY DEF c
<1>8. RankedSeq(todo') /\ Left' = {} \cup Sends(s, open) \cup {SyncCall("release", s)}
  BY <1>5, <1>6, <1>7 DEF Left
<1>9. todo' \in Seq(PlayerCalls) /\ Handlers'
  <2> DEFINE none == {}
  <2>1. /\ none \subseteq {PutCall(q, Message("reset", 0), 0) : q \in Players}
        /\ Left' = none \cup Sends(s, open) \cup {SyncCall("release", s)}
    BY <1>8
  <2> HIDE DEF none
  <2> QED
    BY <1>8, <2>1, SynchronizeBegins
<1> QED
  BY <1>2, <1>4, <1>8, <1>9

-------------------------------------------------------------------------------
(* The state and what a step changes of it *)

GoodQueue(qu) ==
  qu \in QueueSet /\ Sorted(qu.list) /\ qu.m_iDataSize = Cardinality(Counted(qu.list))

\* The types, one place of the state at a time.
LEMMA TypeFacts ==
  ASSUME Types
  PROVE  /\ \A q \in Players :
              /\ queue[q] \in QueueSet /\ queue[q].list \in Seq(Items) /\ Sorted(queue[q].list)
              /\ IsOpen(q) \in BOOLEAN
              /\ item[q] \in Items /\ ask[q] \in {0, 1}
              /\ m_packets[q] \in Seq(Packets) /\ Len(m_packets[q]) <= MaxConverge
         /\ \A s \in Syncs :
              /\ sync[s] \in SyncSet
              /\ sync[s].sources \subseteq Everyone /\ sync[s].reached \subseteq Everyone
              /\ sync[s].refs \in Nat /\ sync[s].late \in BOOLEAN
              /\ sync[s].passed \in BOOLEAN /\ sync[s].stopped \in BOOLEAN
BY DEF Types, QueueSet, SyncSet, IsOpen

\* What each of the operations makes of a queue.
LEMMA QueueOperations ==
  ASSUME NEW qu, GoodQueue(qu)
  PROVE  /\ \A it \in Items : /\ GoodQueue(Put(qu, it)) /\ Put(qu, it).list = Insert(qu.list, it)
                              /\ Put(qu, it).m_bInitialized = qu.m_bInitialized
         /\ qu.list # <<>> =>
              /\ GoodQueue(TakeItem(qu)) /\ TakeItem(qu).list = Front(qu.list)
              /\ TakeItem(qu).m_bInitialized = qu.m_bInitialized
         /\ GoodQueue(PrepareWait(qu)) /\ PrepareWait(qu).list = qu.list
         /\ PrepareWait(qu).m_bInitialized = qu.m_bInitialized
         /\ GoodQueue(Abort(qu)) /\ Abort(qu).list = qu.list
         /\ Abort(qu).m_bInitialized = qu.m_bInitialized
         /\ GoodQueue(FlushPackets(qu)) /\ FlushPackets(qu).list = Others(qu.list)
         /\ FlushPackets(qu).m_bInitialized = qu.m_bInitialized
         /\ GoodQueue(End(qu)) /\ End(qu).list = <<>> /\ ~End(qu).m_bInitialized
         /\ qu.list = <<>> =>
              GoodQueue(QueueInit(qu)) /\ QueueInit(qu).list = <<>> /\ QueueInit(qu).m_bInitialized
<1> DEFINE Ones == {x \in Items : DataSize(x) = 1}
<1>1. /\ qu.list \in Seq(Items) /\ Sorted(qu.list) /\ qu \in QueueSet
      /\ qu.m_iDataSize = Cardinality(Places(qu.list, Ones)) /\ qu.m_iDataSize \in Nat
  BY CountedPlaces DEF GoodQueue, QueueSet
<1>2. \A x \in Items : DataSize(x) = IF x \in Ones THEN 1 ELSE 0
  BY DEF DataSize
<1>3. \A x \in Ones : x \in Items /\ IsPacket(x)
  BY DEF DataSize
<1>4. ASSUME NEW list \in Seq(Items)
      PROVE  Cardinality(Counted(list)) = Cardinality(Places(list, Ones))
  BY CountedPlaces
<1>5. Cardinality(Places(<<>>, Ones)) = 0 /\ Sorted(<<>>) /\ <<>> \in Seq(Items)
  BY EmptyList
<1>6. Cardinality(Counted(<<>>)) = 0
  BY <1>4, <1>5
<1> HIDE DEF Ones
<1>7. ASSUME NEW it \in Items
      PROVE  /\ GoodQueue(Put(qu, it)) /\ Put(qu, it).list = Insert(qu.list, it)
             /\ Put(qu, it).m_bInitialized = qu.m_bInitialized
  <2>1. /\ Insert(qu.list, it) \in Seq(Items) /\ Sorted(Insert(qu.list, it))
        /\ Cardinality(Places(Insert(qu.list, it), Ones)) =
             Cardinality(Places(qu.list, Ones)) + IF it \in Ones THEN 1 ELSE 0
    BY <1>1, InsertElements
  <2>2. Cardinality(Counted(Insert(qu.list, it))) = qu.m_iDataSize + DataSize(it)
    BY <1>1, <1>2, <1>4, <2>1
  <2>3. qu.m_iDataSize + DataSize(it) \in Nat
    BY <1>1, <1>2
  <2>4. /\ Put(qu, it) \in QueueSet /\ Put(qu, it).list = Insert(qu.list, it)
        /\ Put(qu, it).m_iDataSize = qu.m_iDataSize + DataSize(it)
        /\ Put(qu, it).m_bInitialized = qu.m_bInitialized
    BY <1>1, <2>1, <2>3 DEF Put, QueueSet
  <2> QED
    BY <2>1, <2>2, <2>4 DEF GoodQueue
<1>8. ASSUME qu.list # <<>>
      PROVE  /\ GoodQueue(TakeItem(qu)) /\ TakeItem(qu).list = Front(qu.list)
             /\ TakeItem(qu).m_bInitialized = qu.m_bInitialized
  <2> DEFINE x == Last(qu.list)
             f == Front(qu.list)
  <2>1. /\ f \in Seq(Items) /\ x \in Items /\ Sorted(f)
        /\ Cardinality(Places(qu.list, Ones)) =
             Cardinality(Places(f, Ones)) + IF x \in Ones THEN 1 ELSE 0
    BY <1>1, <1>8, FrontElements, FrontCount
  <2>2. Cardinality(Places(f, Ones)) \in Nat
    BY <2>1, PlacesFinite
  <2>3. /\ TakeItem(qu) = [qu EXCEPT !.list = f, !.m_iDataSize = @ - DataSize(x)]
    BY DEF TakeItem
  <2> HIDE DEF x, f
  <2>4. qu.m_iDataSize - DataSize(x) = Cardinality(Places(f, Ones))
    BY <1>1, <1>2, <2>1, <2>2
  <2>5. qu.m_iDataSize - DataSize(x) = Cardinality(Counted(f)) /\ qu.m_iDataSize - DataSize(x) \in Nat
    BY <1>4, <2>1, <2>2, <2>4
  <2>6. /\ TakeItem(qu) \in QueueSet /\ TakeItem(qu).list = f
        /\ TakeItem(qu).m_iDataSize = qu.m_iDataSize - DataSize(x)
        /\ TakeItem(qu).m_bInitialized = qu.m_bInitialized
    BY <1>1, <2>1, <2>3, <2>5 DEF QueueSet
  <2>7. f = Front(qu.list)
    BY DEF f
  <2> QED
    BY <2>1, <2>5, <2>6, <2>7 DEF GoodQueue
<1>9. /\ GoodQueue(PrepareWait(qu)) /\ PrepareWait(qu).list = qu.list
      /\ PrepareWait(qu).m_bInitialized = qu.m_bInitialized
      /\ GoodQueue(Abort(qu)) /\ Abort(qu).list = qu.list
      /\ Abort(qu).m_bInitialized = qu.m_bInitialized
  BY DEF GoodQueue, QueueSet, PrepareWait, Abort
<1>10. /\ GoodQueue(FlushPackets(qu)) /\ FlushPackets(qu).list = Others(qu.list)
       /\ FlushPackets(qu).m_bInitialized = qu.m_bInitialized
  <2> DEFINE o == Others(qu.list)
  <2>1. o \in Seq(Items) /\ Sorted(o)
    BY <1>1, OthersElements
  <2>2. FlushPackets(qu) = [qu EXCEPT !.list = o, !.m_iDataSize = 0]
    BY DEF FlushPackets
  <2>3. Counted(o) = {}
    <3>1. \A x \in Elements(o) : ~IsPacket(x)
      BY <1>1, OthersElements
    <3> HIDE DEF o
    <3> QED
      BY <3>1 DEF Counted, Elements, DataSize
  <2> HIDE DEF o
  <2>4. Cardinality(Counted(o)) = 0
    BY <2>3, FS_EmptySet
  <2>5. /\ FlushPackets(qu) \in QueueSet /\ FlushPackets(qu).list = o
        /\ FlushPackets(qu).m_iDataSize = 0
        /\ FlushPackets(qu).m_bInitialized = qu.m_bInitialized
    <3> DEFINE f == FlushPackets(qu)
    <3>1. f = [qu EXCEPT !.list = o, !.m_iDataSize = 0] /\ qu \in QueueSet
      BY <1>1, <2>2
    <3> HIDE DEF f
    <3>2. f \in QueueSet /\ f.list = o /\ f.m_iDataSize = 0 /\ f.m_bInitialized = qu.m_bInitialized
      BY <2>1, <3>1 DEF QueueSet
    <3> QED
      BY <3>2 DEF f
  <2> QED
    BY <2>1, <2>4, <2>5 DEF GoodQueue, o
<1>11. GoodQueue(End(qu)) /\ End(qu).list = <<>> /\ ~End(qu).m_bInitialized
  BY <1>1, <1>5, <1>6 DEF GoodQueue, QueueSet, End
<1>12. ASSUME qu.list = <<>>
       PROVE  GoodQueue(QueueInit(qu)) /\ QueueInit(qu).list = <<>> /\ QueueInit(qu).m_bInitialized
  BY <1>1, <1>5, <1>6, <1>12 DEF GoodQueue, QueueSet, QueueInit
<1> QED
  BY <1>7, <1>8, <1>9, <1>10, <1>11, <1>12

LEMMA QueuesGood ==
  ASSUME Types, Sized
  PROVE  \A q \in Players : GoodQueue(queue[q])
BY TypeFacts DEF Sized, GoodQueue

\* What Put makes of a player's queue.
LEMMA PutIs ==
  ASSUME Types, Sized, NEW q \in Players, NEW it \in Items
  PROVE  /\ GoodQueue(Put(queue[q], it)) /\ Put(queue[q], it).list = Insert(queue[q].list, it)
         /\ Put(queue[q], it).m_bInitialized = queue[q].m_bInitialized
<1>1. PICK qu : qu = queue[q]
  OBVIOUS
<1>2. GoodQueue(qu)
  BY <1>1, QueuesGood
<1>3. /\ GoodQueue(Put(qu, it)) /\ Put(qu, it).list = Insert(qu.list, it)
      /\ Put(qu, it).m_bInitialized = qu.m_bInitialized
  BY <1>2, QueueOperations, Zenon
<1> QED
  BY <1>1, <1>3, Zenon

\* One of the queues changes.
LEMMA QueueChanges ==
  ASSUME Types, Sized, NEW q \in Players, NEW new, GoodQueue(new),
         queue' = [queue EXCEPT ![q] = new]
  PROVE  /\ queue' \in [Players -> QueueSet] /\ Sized' /\ queue'[q] = new
         /\ \A r \in Players : Sorted(queue'[r].list)
         /\ \A r \in Players \ {q} : queue'[r] = queue[r]
<1>1. queue \in [Players -> QueueSet] /\ new \in QueueSet
  BY DEF Types, GoodQueue
<1>2. queue'[q] = new /\ \A r \in Players \ {q} : queue'[r] = queue[r]
  BY <1>1
<1>3. \A r \in Players : GoodQueue(queue'[r])
  BY <1>2, QueuesGood
<1> QED
  BY <1>1, <1>2, <1>3 DEF Sized, GoodQueue

-------------------------------------------------------------------------------
(* Who has a synchronize message *)

LEMMA EntriesAre ==
  ASSUME NEW qu, qu.list \in Seq(Items), NEW s
  PROVE  /\ Entries(qu, SyncMessage(s)) = Cardinality(Places(qu.list, SyncItems(s)))
         /\ Entries(qu, SyncMessage(s)) \in Nat
         /\ Entries(qu, SyncMessage(s)) > 0 <=> InList(qu.list, s)
<1> DEFINE P == Places(qu.list, SyncItems(s))
<1>1. Entries(qu, SyncMessage(s)) = Cardinality(P)
  BY CountedPlaces DEF Entries
<1>2. IsFiniteSet(P) /\ Cardinality(P) \in Nat
  BY PlacesFinite
<1>3. P = {} <=> ~InList(qu.list, s)
  <2>1. \A i \in 1 .. Len(qu.list) : qu.list[i] \in Items
    BY ElementOfSeq
  <2> QED
    BY <2>1 DEF Places, SyncItems, InList, Elements
<1>4. Cardinality(P) = 0 <=> P = {}
  BY <1>2, FS_EmptySet
<1> QED
  BY <1>1, <1>2, <1>3, <1>4

\* The count of a player, before and after a step.
LEMMA CountIs ==
  ASSUME NEW qu, qu.list \in Seq(Items), NEW it, NEW s, NEW c,
         c = Entries(qu, SyncMessage(s)) + IF it.message = SyncMessage(s) THEN 1 ELSE 0
  PROVE  c \in Nat /\ (c = 0 <=> ~(InList(qu.list, s) \/ it.message = SyncMessage(s)))
<1> DEFINE e == Entries(qu, SyncMessage(s))
<1>1. e \in Nat /\ (e > 0 <=> InList(qu.list, s))
  BY EntriesAre
<1>2. c = e + IF it.message = SyncMessage(s) THEN 1 ELSE 0
  OBVIOUS
<1> HIDE DEF e
<1>3. CASE it.message = SyncMessage(s)
  BY <1>1, <1>2, <1>3
<1>4. CASE it.message # SyncMessage(s)
  BY <1>1, <1>2, <1>4
<1> QED
  BY <1>3, <1>4

LEMMA CountFacts ==
  ASSUME Types
  PROVE  \A s : /\ \A q \in Players : Count(q, s) \in Nat /\ (Count(q, s) = 0 <=> ~Has(q, s))
                /\ Owned(s) \in {0, 1}
                /\ Total(s) \in Nat
                /\ Total(s) = 0 <=> /\ \A q \in Players : ~Has(q, s)
                                    /\ SyncCall("release", s) \notin Left
<1> SUFFICES ASSUME NEW s
             PROVE  /\ \A q \in Players : Count(q, s) \in Nat /\ (Count(q, s) = 0 <=> ~Has(q, s))
                    /\ Owned(s) \in {0, 1}
                    /\ Total(s) \in Nat
                    /\ Total(s) = 0 <=> /\ \A q \in Players : ~Has(q, s)
                                        /\ SyncCall("release", s) \notin Left
  OBVIOUS
<1>1. \A q \in Players : Count(q, s) \in Nat /\ (Count(q, s) = 0 <=> ~Has(q, s))
  <2> SUFFICES ASSUME NEW q \in Players
               PROVE  Count(q, s) \in Nat /\ (Count(q, s) = 0 <=> ~Has(q, s))
    OBVIOUS
  <2>1. queue[q].list \in Seq(Items)
    BY TypeFacts
  <2> QED
    BY <2>1, CountIs DEF Count, Held, Has
<1>2. /\ Owned(s) \in {0, 1}
      /\ Owned(s) = 0 <=> SyncCall("release", s) \notin Left
  BY DEF Owned
<1>3. Audio \in Players /\ Video \in Players /\ \A q \in Players : q = Audio \/ q = Video
  BY DEF Players
<1> QED
  BY <1>1, <1>2, <1>3 DEF Total

\* The same after a step.
LEMMA NextCountFacts ==
  ASSUME Types'
  PROVE  \A s : /\ \A q \in Players : Count(q, s)' \in Nat /\ (Count(q, s)' = 0 <=> ~Has(q, s)')
                /\ Owned(s)' \in {0, 1}
                /\ Total(s)' \in Nat
                /\ Total(s)' = 0 <=> /\ \A q \in Players : ~Has(q, s)'
                                     /\ SyncCall("release", s) \notin Left'
<1> SUFFICES ASSUME NEW s
             PROVE  /\ \A q \in Players : Count(q, s)' \in Nat /\ (Count(q, s)' = 0 <=> ~Has(q, s)')
                    /\ Owned(s)' \in {0, 1}
                    /\ Total(s)' \in Nat
                    /\ Total(s)' = 0 <=> /\ \A q \in Players : ~Has(q, s)'
                                         /\ SyncCall("release", s) \notin Left'
  OBVIOUS
<1>1. \A q \in Players : Count(q, s)' \in Nat /\ (Count(q, s)' = 0 <=> ~Has(q, s)')
  <2> SUFFICES ASSUME NEW q \in Players
               PROVE  Count(q, s)' \in Nat /\ (Count(q, s)' = 0 <=> ~Has(q, s)')
    OBVIOUS
  <2>1. queue'[q].list \in Seq(Items)
    BY DEF Types, QueueSet
  <2> QED
    BY <2>1, CountIs DEF Count, Held, Has
<1>2. /\ Owned(s)' \in {0, 1}
      /\ Owned(s)' = 0 <=> SyncCall("release", s) \notin Left'
  BY DEF Owned
<1>3. Audio \in Players /\ Video \in Players /\ \A q \in Players : q = Audio \/ q = Video
  BY DEF Players
<1> QED
  BY <1>1, <1>2, <1>3 DEF Total

LEMMA TogetherIs ==
  ASSUME Types, \A s \in Syncs : TogetherFor(s)
  PROVE  SyncTogether
<1>1. ASSUME NEW q \in Players, NEW s \in Syncs
      PROVE  Concerns(s, q) => Involved(q, s)
  <2>1. Entries(queue[q], SyncMessage(s)) > 0 <=> InList(queue[q].list, s)
    BY TypeFacts, EntriesAre
  <2>2. Puts(q, s) <=> \/ PutCall(q, SyncMessage(s), 0) \in Left
                       \/ PutCall(q, SyncMessage(s), 1) \in Left
    BY DEF Puts
  <2>3. Concerns(s, q) <=> \/ Entries(queue[q], SyncMessage(s)) > 0
                           \/ item[q].message = SyncMessage(s)
                           \/ IsOpen(q) /\ PutCall(q, SyncMessage(s), 0) \in Left
                           \/ IsOpen(q) /\ PutCall(q, SyncMessage(s), 1) \in Left
    BY DEF Concerns, SyncMessage, Left
  <2> QED
    BY <2>1, <2>2, <2>3 DEF Involved, Has
<1> QED
  BY <1>1 DEF SyncTogether, TogetherFor

-------------------------------------------------------------------------------
(* Steps in which nobody arrives at a synchronize message or gets past it *)

\* What a synchronize message says of Wait stays.
SameMarks(s) ==
  /\ sync'[s].sources = sync[s].sources /\ sync'[s].reached = sync[s].reached
  /\ sync'[s].late = sync[s].late /\ sync'[s].passed = sync[s].passed
  /\ sync'[s].stopped = sync[s].stopped

\* A thread that is on its way through Wait, or past it, after the step.
Goes(q, s) ==
  pc'[q] \in {"meet", "putBack", "release"} /\ item'[q].message = SyncMessage(s) =>
    /\ item[q].message = SyncMessage(s)
    /\ \/ pc'[q] = pc[q]
       \/ pc[q] = "meet" /\ pc'[q] = "putBack"
       \/ pc[q] = "putBack" /\ pc'[q] = "release" /\ InList(queue[q].list, s)'
       \/ pc'[q] = "release" /\ q \notin sync[s].sources

\* The message and its references are passed on, and with its last reference it is gone.
Neutral(s) ==
  /\ (SameMarks(s) /\ sync'[s].refs # 0) \/ sync'[s] = Gone
  /\ Total(s)' = sync'[s].refs
  /\ Waits(s)' <=> Waits(s)
  /\ \A q \in Players :
       /\ Puts(q, s)' => Puts(q, s)
       /\ Involved(q, s)' => Involved(q, s)
       /\ Waits(s) /\ Has(q, s) =>
            \/ Has(q, s)'
            \/ pc[q] = "release" /\ item[q].message = SyncMessage(s) /\ ~InList(queue[q].list, s)
       /\ Waits(s) /\ pc'[q] = "release" /\ InList(queue[q].list, s) => InList(queue[q].list, s)'
       /\ Goes(q, s)

\* Nobody has a message that is gone, and nobody waits on it.
LEMMA GoneKeeps ==
  ASSUME Types', Handlers', NEW s \in Syncs, sync'[s] = Gone, Total(s)' = sync'[s].refs
  PROVE  Meets(s)'
<1>1. sync'[s].reached = {} /\ ~sync'[s].passed /\ sync'[s].refs = 0
  BY DEF Gone, NewSync
<1>2. SyncCall("release", s) \notin Left' /\ \A q \in Players : ~Has(q, s)'
  BY <1>1, NextCountFacts
<1>3. ~Waits(s)'
  <2>1. ASSUME NEW c \in Left', c.message = SyncMessage(s)
        PROVE  FALSE
    BY <1>2, <2>1, MessagesAre DEF Handlers
  <2> QED
    BY <2>1, CallFields DEF Waits
<1>4. CountsFor(s)' /\ PresentFor(s)' /\ TogetherFor(s)'
  BY <1>1, <1>3 DEF CountsFor, PresentFor, TogetherFor
<1>5. ReachesFor(s)'
  BY <1>1, <1>2, <1>3 DEF ReachesFor, Has
<1> QED
  BY <1>4, <1>5 DEF Meets

LEMMA NeutralKeeps ==
  ASSUME Types', Handlers', NEW s \in Syncs, Meets(s), Neutral(s)
  PROVE  Meets(s)'
<1> SUFFICES ASSUME SameMarks(s), sync'[s].refs # 0
             PROVE  Meets(s)'
  BY GoneKeeps DEF Neutral
<1>1. CountsFor(s)'
  BY DEF CountsFor, Neutral
<1>2. ReachesFor(s)'
  <2>1. /\ sync'[s].reached \subseteq sync'[s].sources
        /\ Waits(s)' => sync'[s].sources = Everyone /\ ~sync'[s].stopped
    BY DEF Neutral, SameMarks, Meets, ReachesFor
  <2>2. ASSUME NEW q \in Players, item'[q].message = SyncMessage(s)
        PROVE  /\ pc'[q] \in {"meet", "putBack"} => q \in sync'[s].reached
               /\ pc'[q] = "release" /\ q \in sync'[s].sources => q \in sync'[s].reached
    BY <2>2 DEF SameMarks, Neutral, Goes, Meets, ReachesFor
  <2> QED
    BY <2>1, <2>2 DEF ReachesFor
<1>3. TogetherFor(s)'
  BY DEF TogetherFor, SameMarks, Neutral, Meets
<1>4. PresentFor(s)'
  <2> SUFFICES ASSUME ~sync'[s].passed, ~sync'[s].late, ~sync'[s].stopped
               PROVE  /\ Owner \in sync'[s].reached => Waits(s)' /\ \A q \in Players : ~Puts(q, s)'
                      /\ Waits(s)' => \A q \in Players \cap sync'[s].reached :
                           /\ Has(q, s)'
                           /\ pc'[q] = "release" /\ item'[q].message = SyncMessage(s) =>
                                InList(queue'[q].list, s)
    BY DEF PresentFor
  <2>1. Owner \in sync'[s].reached => Waits(s)' /\ \A q \in Players : ~Puts(q, s)'
    BY DEF Meets, PresentFor, SameMarks, Neutral
  <2>2. ASSUME Waits(s)', NEW q \in Players, q \in sync'[s].reached
        PROVE  /\ Has(q, s)'
               /\ pc'[q] = "release" /\ item'[q].message = SyncMessage(s) =>
                    InList(queue'[q].list, s)
    <3>1. /\ Has(q, s) /\ Waits(s)
          /\ pc[q] = "release" /\ item[q].message = SyncMessage(s) => InList(queue[q].list, s)
      BY <2>2 DEF Meets, PresentFor, SameMarks, Neutral
    <3>2. Has(q, s)'
      BY <3>1 DEF Neutral
    <3>3. ASSUME pc'[q] = "release", item'[q].message = SyncMessage(s)
          PROVE  InList(queue'[q].list, s)
      <4>1. q \in sync[s].sources
        BY <2>2 DEF SameMarks, Meets, ReachesFor
      <4>2. Goes(q, s) /\ (InList(queue[q].list, s) => InList(queue'[q].list, s))
        BY <3>1, <3>3 DEF Neutral
      <4> QED
        BY <3>1, <3>3, <4>1, <4>2 DEF Goes
    <3> QED
      BY <3>2, <3>3
  <2> QED
    BY <2>1, <2>2
<1> QED
  BY <1>1, <1>2, <1>3, <1>4 DEF Meets

\* A step that leaves the message and its references where they are, or moves one within a player.
LEMMA SameKeeps ==
  ASSUME Types, Types', Handlers', NEW s \in Syncs, Meets(s), sync'[s] = sync[s],
         Owned(s)' = Owned(s), Waits(s)' <=> Waits(s),
         \A q \in Players :
           /\ Count(q, s)' = Count(q, s)
           /\ Puts(q, s)' => Puts(q, s)
           /\ IsOpen(q)' /\ Puts(q, s)' => IsOpen(q)
           /\ pc'[q] = "release" /\ InList(queue[q].list, s) => InList(queue[q].list, s)'
           /\ Goes(q, s)
  PROVE  Meets(s)' /\ \A q \in Players : Has(q, s)' <=> Has(q, s)
<1>1. (SameMarks(s) /\ sync'[s].refs # 0) \/ sync'[s] = Gone
  BY DEF Meets, CountsFor, SameMarks
<1>2. Total(s)' = sync'[s].refs
  <2>1. Total(s)' = Total(s)
    BY DEF Total, Players
  <2> QED
    BY <2>1 DEF Meets, CountsFor
<1>3. \A q \in Players : Has(q, s)' <=> Has(q, s)
  BY CountFacts, NextCountFacts
<1>4. Neutral(s)
  BY <1>1, <1>2, <1>3 DEF Neutral, Involved
<1> QED
  BY <1>3, <1>4, NeutralKeeps

\* A message loses n of its references.
LEMMA DropIs ==
  ASSUME NEW s \in Syncs, Types, Types', Meets(s), NEW n \in Nat, sync'[s] = Drop(sync[s], n),
         Total(s)' = Total(s) - n
  PROVE  /\ (SameMarks(s) /\ sync'[s].refs # 0) \/ sync'[s] = Gone
         /\ Total(s)' = sync'[s].refs
<1>1. sync[s] \in SyncSet /\ sync[s].refs \in Nat /\ sync[s].refs = Total(s) /\ Total(s)' \in Nat
  BY TypeFacts, NextCountFacts DEF Meets, CountsFor
<1>2. CASE sync[s].refs = n
  <2>1. sync'[s] = Gone /\ Total(s)' = 0
    BY <1>1, <1>2 DEF Drop
  <2>2. Gone.refs = 0
    BY DEF Gone, NewSync
  <2> QED
    BY <2>1, <2>2
<1>3. CASE sync[s].refs # n
  <2>1. sync'[s] = [sync[s] EXCEPT !.refs = sync[s].refs - n]
    BY <1>3 DEF Drop
  <2>2. SameMarks(s) /\ sync'[s].refs = sync[s].refs - n
    BY <1>1, <2>1 DEF SameMarks, SyncSet
  <2> QED
    BY <1>1, <1>3, <2>2
<1> QED
  BY <1>2, <1>3

\* A new message: the player's thread has its only reference.
LEMMA CreateKeeps ==
  ASSUME NEW s \in Syncs, Types, Types', Handlers', Meets(s), NEW sources, sources \subseteq Everyone,
         Create(s, sources), \A q \in Players : queue'[q].list = queue[q].list /\ item'[q] = item[q],
         SyncCall("release", s) \in Left', Waits(s)' => sources = Everyone
  PROVE  /\ Meets(s)' /\ sync'[s].reached = {}
         /\ \A q \in Players : ~Has(q, s) /\ ~Has(q, s)'
<1>1. /\ sync[s].refs = 0 /\ sync'[s] = NewSync(sources)
  BY DEF Create, Gone, NewSync, Types
<1>2. /\ sync'[s].reached = {} /\ sync'[s].sources = sources /\ sync'[s].refs = 1
      /\ ~sync'[s].passed /\ ~sync'[s].stopped
  BY <1>1 DEF NewSync
<1>3. \A q \in Players : ~Has(q, s) /\ Count(q, s) = 0
  BY <1>1, CountFacts DEF Meets, CountsFor
<1>4. \A q \in Players : ~Has(q, s)' /\ Count(q, s)' = 0
  <2>1. \A q \in Players : ~Has(q, s)'
    BY <1>3 DEF Has
  <2> QED
    BY <2>1, NextCountFacts
<1>5. Total(s)' = 1
  <2>1. Owned(s)' = 1
    BY DEF Owned
  <2> QED
    BY <1>4, <2>1 DEF Total, Players
<1>6. CountsFor(s)' /\ PresentFor(s)' /\ TogetherFor(s)'
  BY <1>2, <1>5 DEF CountsFor, PresentFor, TogetherFor
<1>7. ReachesFor(s)'
  BY <1>2, <1>4 DEF ReachesFor, Has
<1> QED
  BY <1>2, <1>3, <1>4, <1>6, <1>7 DEF Meets

\* There are as many at the message as hold a reference: all that are given it are among them.
LEMMA AllThere ==
  ASSUME NEW s \in Syncs, Types, Handlers, Meets(s), ~sync[s].late, ~sync[s].stopped,
         NEW t, NEW there, there = sync[s].reached \cup {t}, Cardinality(there) >= sync[s].refs,
         (t \in Players /\ Has(t, s)) \/ (t = Owner /\ Owner \in sync[s].reached)
  PROVE  \A q \in Players : Involved(q, s) /\ q \in sync[s].sources => q \in there
<1> SUFFICES ASSUME NEW q \in Players, Involved(q, s), q \in sync[s].sources, q \notin there
             PROVE  FALSE
  OBVIOUS
<1>1. ~sync[s].passed
  BY DEF Meets, TogetherFor
<1>2. PICK p \in Players : p # q /\ Players = {p, q}
  BY PlayerAssumption DEF Players
<1>3. there \subseteq {p, Owner}
  BY <1>2, TypeFacts DEF Everyone
<1>4. /\ IsFiniteSet({p}) /\ Cardinality({p}) = 1
      /\ IsFiniteSet({Owner}) /\ Cardinality({Owner}) = 1
      /\ IsFiniteSet({p, Owner}) /\ Cardinality({p, Owner}) <= 2 /\ Cardinality({p, Owner}) \in Nat
  <2>1. /\ IsFiniteSet({p}) /\ Cardinality({p}) = 1
        /\ IsFiniteSet({Owner}) /\ Cardinality({Owner}) = 1
    BY FS_Singleton
  <2>2. {p} \cup {Owner} = {p, Owner}
    OBVIOUS
  <2>3. /\ IsFiniteSet({p} \cup {Owner})
        /\ Cardinality({p} \cup {Owner}) = IF Owner \in {p} THEN Cardinality({p})
                                           ELSE Cardinality({p}) + 1
    BY <2>1, FS_AddElement
  <2> QED
    BY <2>1, <2>2, <2>3
<1>5. /\ Cardinality(there) \in Nat /\ Cardinality(there) <= 2
      /\ there \subseteq {p} => Cardinality(there) <= 1
      /\ there \subseteq {Owner} => Cardinality(there) <= 1
  BY <1>3, <1>4, FS_Subset, FS_CardinalityType
<1>6. /\ Count(p, s) \in Nat /\ (Has(p, s) => Count(p, s) >= 1)
      /\ Count(q, s) \in Nat /\ (Has(q, s) => Count(q, s) >= 1)
      /\ Owned(s) \in {0, 1} /\ (SyncCall("release", s) \in Left => Owned(s) = 1)
      /\ sync[s].refs = Count(p, s) + Count(q, s) + Owned(s)
  <2>1. Total(s) = Count(p, s) + Count(q, s) + Owned(s)
    <3>1. \/ p = Audio /\ q = Video
          \/ p = Video /\ q = Audio
      BY <1>2, PlayerAssumption DEF Players
    <3>2. Count(Audio, s) \in Nat /\ Count(Video, s) \in Nat /\ Owned(s) \in {0, 1}
      BY CountFacts DEF Players
    <3> QED
      BY <3>1, <3>2 DEF Total
  <2>2. /\ Count(p, s) \in Nat /\ (Has(p, s) => Count(p, s) # 0)
        /\ Count(q, s) \in Nat /\ (Has(q, s) => Count(q, s) # 0)
    BY CountFacts
  <2> QED
    BY <2>1, <2>2 DEF Owned, Meets, CountsFor
<1>7. /\ Waits(s) => SyncCall("release", s) \in Left
      /\ \A r : Puts(r, s) => SyncCall("release", s) \in Left
  <2>1. ASSUME NEW c \in Left, c.message = SyncMessage(s)
        PROVE  SyncCall("release", s) \in Left
    BY <2>1, MessagesAre DEF Handlers
  <2> QED
    BY <2>1, CallFields DEF Waits, Puts
<1>8. CASE Owner \in there
  <2>1. Owner \in sync[s].reached
    BY <1>8, PlayerAssumption
  <2>2. Waits(s) /\ ~Puts(q, s)
    BY <1>1, <2>1 DEF Meets, PresentFor
  <2>3. Has(q, s) /\ Owned(s) = 1
    BY <1>6, <1>7, <2>2 DEF Involved
  <2>4. CASE p \in there
    <3>1. Has(p, s)
      BY <1>1, <2>2, <2>4, PlayerAssumption DEF Meets, PresentFor
    <3> QED
      BY <1>5, <1>6, <2>3, <3>1, TypeFacts
  <2>5. CASE p \notin there
    <3>1. Cardinality(there) <= 1
      BY <1>3, <1>5, <2>5
    <3> QED
      BY <1>5, <1>6, <2>3, <3>1, TypeFacts
  <2> QED
    BY <2>4, <2>5
<1>9. CASE Owner \notin there
  <2>1. t = p /\ Has(p, s) /\ Cardinality(there) <= 1
    BY <1>2, <1>3, <1>5, <1>9
  <2>2. CASE Has(q, s)
    BY <1>5, <1>6, <2>1, <2>2, TypeFacts
  <2>3. CASE Puts(q, s)
    <3>1. Owned(s) = 1
      BY <1>6, <1>7, <2>3
    <3> QED
      BY <1>5, <1>6, <2>1, <3>1, TypeFacts
  <2> QED
    BY <2>2, <2>3 DEF Involved
<1> QED
  BY <1>8, <1>9

-------------------------------------------------------------------------------
(* Steps of a thread or of the player in Wait *)

LEMMA CountSame ==
  ASSUME NEW q, queue'[q].list = queue[q].list, item'[q] = item[q]
  PROVE  \A s : /\ Count(q, s)' = Count(q, s)
                /\ Has(q, s)' <=> Has(q, s)
                /\ InList(queue[q].list, s)' <=> InList(queue[q].list, s)
BY DEF Count, Entries, Held, Has, InList

\* The synchronize message that a thread has.
LEMMA HandIs ==
  ASSUME Types, Hands, NEW q \in Players,
         Handles(q, "sync") \/ pc[q] \in {"meet", "putBack", "release"}
  PROVE  /\ SyncOf(item[q]) \in Syncs /\ item[q].message = SyncMessage(SyncOf(item[q]))
         /\ Has(q, SyncOf(item[q])) /\ IsSync(item[q].message)
         /\ item[q].priority <= 1 /\ item[q].priority \in Nat
         /\ ~IsPacket(item[q]) /\ ~IsFlush(item[q]) /\ ~IsStale(item[q].message)
<1>1. item[q] \in Items /\ IsSync(item[q].message)
  BY TypeFacts DEF Handles, Hands, IsSync
<1>2. SyncOf(item[q]) \in Syncs /\ item[q].message = SyncMessage(SyncOf(item[q]))
  BY <1>1, ItemFields, MessagesAre DEF IsSync, SyncOf
<1>3. item[q].priority <= 1 /\ item[q].priority \in Nat
  BY <1>1, ItemFields DEF IsSync
<1> QED
  BY <1>1, <1>2, <1>3 DEF Has, IsSync, IsPacket, IsFlush, IsStale

\* The marks of s change, and the place of the thread q may; all else stays.
LEMMA MarkKeeps ==
  ASSUME Types, Types', Handlers, Handlers', NEW s \in Syncs, Meets(s), NEW q \in Players,
         \A r \in Players : queue'[r] = queue[r] /\ item'[r] = item[r],
         \A r \in Players \ {q} : pc'[r] = pc[r],
         todo' = todo, sync[s].refs # 0,
         sync'[s].sources = sync[s].sources, sync'[s].refs = sync[s].refs,
         sync[s].reached \subseteq sync'[s].reached,
         sync'[s].reached \subseteq sync[s].reached \cup ({q} \cap sync[s].sources),
         sync'[s].stopped = sync[s].stopped,
         q \in sync'[s].reached, Has(q, s),
         sync[s].late => sync'[s].late, sync[s].passed => sync'[s].passed,
         sync'[s].passed /\ ~sync[s].passed /\ ~sync[s].late =>
           Cardinality(sync'[s].reached) >= sync'[s].refs,
         ~sync'[s].passed /\ ~sync'[s].late => pc'[q] # "release"
  PROVE  Meets(s)'
<1>1. Left' = Left
  BY DEF Left
<1>2. \A r \in Players : /\ Count(r, s)' = Count(r, s) /\ (Has(r, s)' <=> Has(r, s))
                         /\ InList(queue[r].list, s)' <=> InList(queue[r].list, s)
                         /\ Involved(r, s)' <=> Involved(r, s)
                         /\ Puts(r, s)' <=> Puts(r, s)
  BY <1>1, CountSame DEF Involved, IsOpen, Puts
<1>3. (Waits(s)' <=> Waits(s)) /\ Total(s)' = Total(s)
  BY <1>1, <1>2 DEF Waits, Total, Owned, Players
<1>4. CountsFor(s)'
  BY <1>3 DEF Meets, CountsFor
<1>5. ReachesFor(s)'
  BY <1>3 DEF Meets, ReachesFor
<1>6. PresentFor(s)'
  BY <1>2, <1>3, PlayerAssumption DEF Meets, PresentFor
<1>7. TogetherFor(s)'
  <2> SUFFICES ASSUME sync'[s].passed, ~sync'[s].late, ~sync'[s].stopped
               PROVE  \A r \in Players : Involved(r, s) /\ r \in sync[s].sources =>
                        r \in sync'[s].reached
    BY <1>2 DEF TogetherFor
  <2>1. CASE sync[s].passed
    BY <2>1 DEF Meets, TogetherFor
  <2>2. CASE ~sync[s].passed
    <3>1. sync'[s].reached = sync[s].reached \cup {q}
      OBVIOUS
    <3> QED
      BY <2>2, <3>1, AllThere
  <2> QED
    BY <2>1, <2>2
<1> QED
  BY <1>4, <1>5, <1>6, <1>7 DEF Meets

\* The same for all other messages.
LEMMA OtherMarks ==
  ASSUME Types, Types', Handlers', NEW m \in Syncs, Meets(m), sync'[m] = sync[m],
         \A r \in Players : queue'[r] = queue[r] /\ item'[r] = item[r], todo' = todo,
         \A r \in Players : item[r].message = SyncMessage(m) => pc'[r] = pc[r]
  PROVE  Meets(m)'
<1>1. Left' = Left
  BY DEF Left
<1>2. \A r \in Players : /\ Count(r, m)' = Count(r, m)
                         /\ InList(queue[r].list, m)' <=> InList(queue[r].list, m)
                         /\ IsOpen(r)' <=> IsOpen(r)
                         /\ Puts(r, m)' <=> Puts(r, m)
                         /\ Goes(r, m)
  BY <1>1, CountSame DEF IsOpen, Puts, Goes
<1>3. (Waits(m)' <=> Waits(m)) /\ Owned(m)' = Owned(m)
  BY <1>1 DEF Waits, Owned
<1> QED
  BY <1>2, <1>3, SameKeeps

LEMMA ArriveMeets ==
  ASSUME Types, Types', Hands, Handlers, Handlers', Meetings, NEW q \in Players, Arrive(q)
  PROVE  Meetings'
<1>1. PICK s \in Syncs : s = SyncOf(item[q]) /\ item[q].message = SyncMessage(s) /\ Has(q, s)
  BY HandIs DEF Arrive
<1> DEFINE all == Cardinality(sync[s].reached \cup {q}) >= sync[s].refs
<1>2. /\ q \in sync[s].sources
      /\ sync' = [sync EXCEPT ![s].reached = @ \cup {q}, ![s].passed = @ \/ all]
      /\ pc' = [pc EXCEPT ![q] = IF all THEN "release" ELSE "meet"]
      /\ queue' = queue /\ item' = item /\ todo' = todo
  BY <1>1 DEF Arrive
<1> HIDE DEF all
<1>3. sync \in [Syncs -> SyncSet] /\ pc \in [Players -> Positions]
  BY DEF Types
<1>4. /\ sync'[s].reached = sync[s].reached \cup {q}
      /\ sync'[s].passed = (sync[s].passed \/ all)
      /\ sync'[s].sources = sync[s].sources /\ sync'[s].refs = sync[s].refs
      /\ sync'[s].late = sync[s].late /\ sync'[s].stopped = sync[s].stopped
      /\ \A m \in Syncs \ {s} : sync'[m] = sync[m]
  BY <1>1, <1>2, <1>3 DEF SyncSet
<1>5. /\ pc'[q] = IF all THEN "release" ELSE "meet"
      /\ \A r \in Players \ {q} : pc'[r] = pc[r]
  BY <1>2, <1>3
<1>6. sync[s].refs # 0
  BY <1>1, CountFacts DEF Meetings, Meets, CountsFor
<1>7. all => Cardinality(sync'[s].reached) >= sync'[s].refs
  BY <1>4 DEF all
<1>8. Meets(s)'
  <2>1. /\ sync'[s].passed /\ ~sync[s].passed => all
        /\ sync[s].passed => sync'[s].passed
        /\ ~sync'[s].passed => pc'[q] # "release"
    BY <1>4, <1>5
  <2>2. /\ q \in sync'[s].reached /\ sync[s].reached \subseteq sync'[s].reached
        /\ sync'[s].reached \subseteq sync[s].reached \cup ({q} \cap sync[s].sources)
    BY <1>2, <1>4
  <2>3. Meets(s)
    BY DEF Meetings
  <2> QED
    BY <1>1, <1>2, <1>4, <1>5, <1>6, <1>7, <2>1, <2>2, <2>3, MarkKeeps
<1>9. ASSUME NEW m \in Syncs \ {s}
      PROVE  Meets(m)'
  <2>1. \A r \in Players : item[r].message = SyncMessage(m) => pc'[r] = pc[r]
    BY <1>1, <1>5, MessagesAre
  <2> QED
    BY <1>2, <1>4, <2>1, OtherMarks DEF Meetings
<1> QED
  BY <1>8, <1>9 DEF Meetings

LEMMA MeetMeets ==
  ASSUME Types, Types', Hands, Handlers, Handlers', Meetings, NEW q \in Players,
         Meet(q) \/ MeetLate(q)
  PROVE  Meetings'
<1>1. PICK s \in Syncs : /\ s = SyncOf(item[q]) /\ item[q].message = SyncMessage(s) /\ Has(q, s)
                         /\ pc[q] = "meet"
  BY HandIs DEF Meet, MeetLate
<1>2. /\ \/ sync' = [sync EXCEPT ![s].passed = TRUE] /\ AllReached(s)
         \/ sync' = [sync EXCEPT ![s].late = TRUE]
      /\ pc' = [pc EXCEPT ![q] = "release"]
      /\ queue' = queue /\ item' = item /\ todo' = todo
  BY <1>1 DEF Meet, MeetLate
<1>3. sync \in [Syncs -> SyncSet] /\ pc \in [Players -> Positions]
  BY DEF Types
<1>4. /\ \/ sync'[s].passed /\ AllReached(s) /\ sync'[s].late = sync[s].late
         \/ sync'[s].late /\ sync'[s].passed = sync[s].passed
      /\ sync'[s].sources = sync[s].sources /\ sync'[s].refs = sync[s].refs
      /\ sync'[s].reached = sync[s].reached /\ sync'[s].stopped = sync[s].stopped
      /\ \A m \in Syncs \ {s} : sync'[m] = sync[m]
  <2>1. CASE sync' = [sync EXCEPT ![s].passed = TRUE] /\ AllReached(s)
    BY <1>1, <1>3, <2>1 DEF SyncSet
  <2>2. CASE sync' = [sync EXCEPT ![s].late = TRUE]
    BY <1>1, <1>3, <2>2 DEF SyncSet
  <2> QED
    BY <1>2, <2>1, <2>2
<1>5. /\ pc'[q] = "release"
      /\ \A r \in Players \ {q} : pc'[r] = pc[r]
  BY <1>2, <1>3
<1>6. sync[s].refs # 0
  BY <1>1, CountFacts DEF Meetings, Meets, CountsFor
<1>7. q \in sync[s].reached
  BY <1>1 DEF Meetings, Meets, ReachesFor
<1>8. Meets(s)'
  <2>1. AllReached(s) => Cardinality(sync'[s].reached) >= sync'[s].refs
    BY <1>4 DEF AllReached
  <2>2. Meets(s)
    BY <1>1 DEF Meetings
  <2>3. /\ sync[s].late => sync'[s].late
        /\ sync[s].passed => sync'[s].passed
        /\ sync'[s].passed /\ ~sync[s].passed => AllReached(s)
        /\ sync'[s].passed \/ sync'[s].late
    BY <1>4
  <2> QED
    BY <1>1, <1>2, <1>4, <1>5, <1>6, <1>7, <2>1, <2>2, <2>3, MarkKeeps
<1>9. ASSUME NEW m \in Syncs \ {s}
      PROVE  Meets(m)'
  <2>1. \A r \in Players : item[r].message = SyncMessage(m) => pc'[r] = pc[r]
    BY <1>1, <1>5, MessagesAre
  <2> QED
    BY <1>2, <1>4, <2>1, OtherMarks DEF Meetings
<1> QED
  BY <1>8, <1>9 DEF Meetings

\* The call that the player's thread makes is the first in rank of those that are left.
LEMMA HeadIs ==
  ASSUME Types, Handlers, todo # <<>>
  PROVE  /\ Head(todo) \in Left /\ Head(todo) \in PlayerCalls /\ Left \subseteq PlayerCalls
         /\ Rank(Head(todo)) \in 1 .. 12
         /\ \A c \in Left : c = Head(todo) \/ Rank(Head(todo)) < Rank(c)
<1>1. RankedSeq(todo)
  BY DEF Types, Handlers, RankedSeq
<1>2. /\ Head(todo) \in Left /\ Head(todo) \in PlayerCalls /\ Left \subseteq PlayerCalls
      /\ \A c \in Left : c = Head(todo) \/ Rank(Head(todo)) < Rank(c)
  BY <1>1, TailOfCalls DEF Left
<1> QED
  BY <1>2, RankIs

\* The synchronize calls of a handler are all about one message.
LEMMA OneMessage ==
  ASSUME Types, Handlers, NEW c \in Left, NEW s \in Syncs, c.message = SyncMessage(s)
  PROVE  /\ SyncCall("release", s) \in Left
         /\ \A m \in Syncs \ {s} : /\ ~Waits(m) /\ SyncCall("release", m) \notin Left
                                   /\ \A q : ~Puts(q, m)
<1>1. SyncCall("release", s) \in Left
  BY MessagesAre DEF Handlers
<1>2. \A d \in Left : \A m : d.message = SyncMessage(m) => m = s
  BY MessagesAre DEF Handlers
<1> QED
  BY <1>1, <1>2, CallFields DEF Waits, Puts

LEMMA WaitingIs ==
  ASSUME Types, Handlers, IsWaiting
  PROVE  \E s \in Syncs :
           /\ s = Head(todo).message.id /\ Head(todo) = SyncCall(Head(todo).call, s)
           /\ Head(todo) \in Left /\ Waits(s) /\ SyncCall("release", s) \in Left
           /\ Rank(Head(todo)) = 7
           /\ \A m \in Syncs : \A q \in Players : ~Puts(q, m)
           /\ \A m \in Syncs \ {s} : ~Waits(m) /\ SyncCall("release", m) \notin Left
<1>1. todo # <<>> /\ Head(todo).call \in {"wait", "waitOrStop"}
  BY DEF IsWaiting, Calls
<1>2. /\ Head(todo) \in Left /\ Head(todo) \in PlayerCalls
      /\ \A c \in Left : c = Head(todo) \/ Rank(Head(todo)) < Rank(c)
  BY <1>1, HeadIs
<1>3. PICK s \in Syncs : /\ s = Head(todo).message.id /\ Head(todo) = SyncCall(Head(todo).call, s)
                         /\ Head(todo).message = SyncMessage(s)
  BY <1>1, <1>2, CallIs
<1>4. Rank(Head(todo)) = 7
  BY <1>1, <1>2, RankIs
<1>5. Waits(s)
  BY <1>1, <1>2, <1>3 DEF Waits
<1>6. ASSUME NEW m \in Syncs, NEW q \in Players, NEW p \in {0, 1}, PutCall(q, SyncMessage(m), p) \in Left
      PROVE  FALSE
  <2>1. Rank(PutCall(q, SyncMessage(m), p)) \in {5, 6}
    BY NamedCalls
  <2> QED
    BY <1>2, <1>4, <1>6, <2>1
<1>7. \A m \in Syncs : \A q \in Players : ~Puts(q, m)
  BY <1>6 DEF Puts
<1> QED
  BY <1>2, <1>3, <1>4, <1>5, <1>7, OneMessage

LEMMA OwnerArrivesMeets ==
  ASSUME Types, Types', Hands, Handlers, Handlers', Meetings, OwnerArrives
  PROVE  Meetings'
<1>1. PICK s \in Syncs : /\ s = Head(todo).message.id /\ Waits(s) /\ SyncCall("release", s) \in Left
                         /\ \A m \in Syncs : \A q \in Players : ~Puts(q, m)
  BY WaitingIs DEF OwnerArrives
<1>2. /\ sync' = [sync EXCEPT ![s].reached = @ \cup {Owner}]
      /\ queue' = queue /\ item' = item /\ todo' = todo /\ pc' = pc
  BY <1>1 DEF OwnerArrives, Reach, threadVars
<1>3. sync \in [Syncs -> SyncSet]
  BY DEF Types
<1>4. /\ sync'[s].reached = sync[s].reached \cup {Owner}
      /\ sync'[s].passed = sync[s].passed
      /\ sync'[s].sources = sync[s].sources /\ sync'[s].refs = sync[s].refs
      /\ sync'[s].late = sync[s].late /\ sync'[s].stopped = sync[s].stopped
      /\ \A m \in Syncs \ {s} : sync'[m] = sync[m]
  BY <1>2, <1>3 DEF SyncSet
<1>5. ASSUME NEW m \in Syncs \ {s}
      PROVE  Meets(m)'
  BY <1>2, <1>4, OtherMarks DEF Meetings
<1>6. Meets(s)'
  <2>1. Left' = Left
    BY <1>2 DEF Left
  <2>2. \A r \in Players : /\ Count(r, s)' = Count(r, s) /\ (Has(r, s)' <=> Has(r, s))
                           /\ InList(queue[r].list, s)' <=> InList(queue[r].list, s)
                           /\ Involved(r, s)' <=> Involved(r, s)
                           /\ Puts(r, s)' <=> Puts(r, s)
    BY <1>2, <2>1, CountSame DEF Involved, IsOpen, Puts
  <2>3. (Waits(s)' <=> Waits(s)) /\ Total(s)' = Total(s)
    BY <2>1, <2>2 DEF Waits, Total, Owned, Players
  <2>4. sync[s].refs # 0
    BY <1>1, CountFacts DEF Meetings, Meets, CountsFor
  <2>5. CountsFor(s) /\ ReachesFor(s) /\ PresentFor(s) /\ TogetherFor(s)
    BY DEF Meetings, Meets
  <2>6. CountsFor(s)'
    BY <1>4, <2>3, <2>4, <2>5 DEF CountsFor
  <2>7. ReachesFor(s)'
    BY <1>1, <1>2, <1>4, <2>3, <2>5 DEF ReachesFor, Everyone
  <2>8. PresentFor(s)'
    BY <1>1, <1>2, <1>4, <2>2, <2>3, <2>5, PlayerAssumption DEF PresentFor
  <2>9. TogetherFor(s)'
    BY <1>4, <2>2, <2>5 DEF TogetherFor
  <2> QED
    BY <2>6, <2>7, <2>8, <2>9 DEF Meets
<1> QED
  BY <1>5, <1>6 DEF Meetings

\* The player goes on: because all are there, or the time has passed, or it was stopped.
LEMMA OwnerPassesMeets ==
  ASSUME Types, Types', Hands, Handlers, Meetings, OwnerMeets \/ OwnerLate \/ OwnerStops
  PROVE  Meetings' /\ Handlers' /\ \A m \in Syncs : ~Waits(m)'
<1>1. PICK s \in Syncs : /\ s = Head(todo).message.id /\ Waits(s) /\ SyncCall("release", s) \in Left
                         /\ Head(todo) = SyncCall(Head(todo).call, s)
                         /\ Rank(Head(todo)) = 7
                         /\ \A m \in Syncs : \A q \in Players : ~Puts(q, m)
                         /\ \A m \in Syncs \ {s} : ~Waits(m) /\ SyncCall("release", m) \notin Left
  BY WaitingIs DEF OwnerMeets, OwnerLate, OwnerStops, IsWaiting
<1>2. /\ \/ sync' = [sync EXCEPT ![s].passed = TRUE] /\ AllReached(s)
         \/ sync' = [sync EXCEPT ![s].late = TRUE]
         \/ sync' = [sync EXCEPT ![s].stopped = TRUE]
      /\ Owner \in sync[s].reached
      /\ queue' = queue /\ item' = item /\ Return /\ pc' = pc /\ todo # <<>>
  BY <1>1 DEF OwnerMeets, OwnerLate, OwnerStops, threadVars, IsWaiting, Calls
<1>3. sync \in [Syncs -> SyncSet]
  BY DEF Types
<1>4. /\ \/ sync'[s].passed /\ AllReached(s) /\ sync'[s].late = sync[s].late /\ sync'[s].stopped = sync[s].stopped
         \/ sync'[s].late
         \/ sync'[s].stopped
      /\ sync'[s].sources = sync[s].sources /\ sync'[s].refs = sync[s].refs
      /\ sync'[s].reached = sync[s].reached
      /\ \A m \in Syncs \ {s} : sync'[m] = sync[m]
  <2>1. CASE sync' = [sync EXCEPT ![s].passed = TRUE] /\ AllReached(s)
    BY <1>3, <2>1 DEF SyncSet
  <2>2. CASE sync' = [sync EXCEPT ![s].late = TRUE]
    BY <1>3, <2>2 DEF SyncSet
  <2>3. CASE sync' = [sync EXCEPT ![s].stopped = TRUE]
    BY <1>3, <2>3 DEF SyncSet
  <2> QED
    BY <1>2, <2>1, <2>2, <2>3
<1>5. /\ Handlers' /\ Left' = Left \ {Head(todo)} /\ \A c \in Left' : Rank(c) # 7
  <2>1. /\ Handlers' /\ Left' = Left \ {Head(todo)} /\ Left \subseteq PlayerCalls
        /\ \A c \in Left' : Rank(Head(todo)) < Rank(c)
    BY <1>2, Returned
  <2>2. \A c \in Left' : 7 < Rank(c)
    BY <1>1, <2>1
  <2>3. \A c \in Left' : Rank(c) # 7
    BY <2>2
  <2> QED
    BY <2>1, <2>3
<1>6. \A m \in Syncs : ~Waits(m)'
  BY <1>5, NamedCalls DEF Waits
<1>7. SyncCall("release", s) \in Left'
  <2>1. Rank(SyncCall("release", s)) = 8
    BY NamedCalls
  <2> QED
    BY <1>1, <1>5, <2>1
<1>8. \A r \in Players, m \in Syncs :
        /\ Count(r, m)' = Count(r, m) /\ (Has(r, m)' <=> Has(r, m))
        /\ InList(queue[r].list, m)' <=> InList(queue[r].list, m)
        /\ ~Puts(r, m)' /\ Goes(r, m)
        /\ Involved(r, m)' => Involved(r, m)
  <2>1. \A r \in Players, m \in Syncs : ~Puts(r, m)'
    BY <1>1, <1>5 DEF Puts
  <2> QED
    BY <1>2, <2>1, CountSame DEF Involved, Goes
<1>9. ASSUME NEW m \in Syncs \ {s}
      PROVE  Meets(m)'
  <2>1. Owned(m)' = Owned(m) /\ (Waits(m)' <=> Waits(m))
    BY <1>1, <1>5, <1>6 DEF Owned
  <2> QED
    BY <1>4, <1>5, <1>8, <2>1, SameKeeps DEF Meetings
<1>10. Meets(s)'
  <2>1. CountsFor(s) /\ ReachesFor(s) /\ PresentFor(s) /\ TogetherFor(s) /\ Meets(s)
    BY DEF Meetings, Meets
  <2>2. Total(s)' = Total(s) /\ sync[s].refs # 0
    BY <1>1, <1>7, <1>8, <2>1, CountFacts DEF Total, Owned, Players, CountsFor
  <2>3. CountsFor(s)' /\ ReachesFor(s)' /\ PresentFor(s)'
    <3>1. CountsFor(s)'
      BY <1>4, <2>1, <2>2 DEF CountsFor
    <3>2. ReachesFor(s)'
      BY <1>2, <1>4, <1>6, <2>1 DEF ReachesFor
    <3>3. PresentFor(s)'
      BY <1>4 DEF PresentFor
    <3> QED
      BY <3>1, <3>2, <3>3
  <2>4. TogetherFor(s)'
    <3> SUFFICES ASSUME sync'[s].passed, ~sync'[s].late, ~sync'[s].stopped
                 PROVE  \A r \in Players : Involved(r, s) /\ r \in sync[s].sources =>
                          r \in sync[s].reached
      BY <1>4, <1>8 DEF TogetherFor
    <3>1. AllReached(s) /\ ~sync[s].late /\ ~sync[s].stopped
      BY <1>4
    <3> DEFINE there == sync[s].reached \cup {Owner}
    <3>2. there = sync[s].reached /\ Cardinality(there) >= sync[s].refs
      BY <1>2, <3>1 DEF AllReached
    <3> QED
      BY <1>2, <2>1, <3>1, <3>2, AllThere
  <2> QED
    BY <2>3, <2>4 DEF Meets
<1> QED
  BY <1>5, <1>6, <1>9, <1>10 DEF Meetings

-------------------------------------------------------------------------------
(* The steps of a thread *)

\* A step of the thread of q leaves all that is not its own alone.
Apart(q) ==
  /\ todo' = todo /\ waited' = waited /\ now' = now
  /\ \A r \in Players \ {q} : /\ queue'[r] = queue[r] /\ item'[r] = item[r] /\ pc'[r] = pc[r]
                              /\ m_packets'[r] = m_packets[r]
  /\ IsOpen(q)' <=> IsOpen(q)
  /\ pc[q] # "none" /\ pc'[q] # "none"

LEMMA ApartIs ==
  ASSUME NEW q \in Players, Apart(q)
  PROVE  /\ Left' = Left
         /\ \A r \in Players : IsOpen(r)' <=> IsOpen(r)
         /\ \A s : (Waits(s)' <=> Waits(s)) /\ Owned(s)' = Owned(s)
         /\ \A r \in Players, s \in Syncs : Puts(r, s)' <=> Puts(r, s)
         /\ \A r \in Players : Flushing(r)' <=> Flushing(r)
         /\ \A m : IsStale(m)' <=> IsStale(m)
         /\ \A r \in Players \ {q} : /\ Clean(r)' <=> Clean(r)
                                     /\ Emptied(r)' <=> Emptied(r)
                                     /\ \A s : Has(r, s)' <=> Has(r, s)
                                     /\ \A s : Count(r, s)' = Count(r, s)
<1>1. Left' = Left
  BY DEF Apart, Left
<1>2. \A r \in Players : IsOpen(r)' <=> IsOpen(r)
  BY DEF Apart, IsOpen
<1>3. /\ \A s : (Waits(s)' <=> Waits(s)) /\ Owned(s)' = Owned(s)
      /\ \A r \in Players, s \in Syncs : Puts(r, s)' <=> Puts(r, s)
      /\ \A r \in Players : Flushing(r)' <=> Flushing(r)
  BY <1>1 DEF Waits, Owned, Puts, Flushing
<1>4. \A m : IsStale(m)' <=> IsStale(m)
  BY DEF Apart, IsStale
<1>5. ASSUME NEW r \in Players \ {q}
      PROVE  /\ Clean(r)' <=> Clean(r)
             /\ Emptied(r)' <=> Emptied(r)
             /\ \A s : Has(r, s)' <=> Has(r, s)
             /\ \A s : Count(r, s)' = Count(r, s)
  <2>1. queue'[r] = queue[r] /\ item'[r] = item[r] /\ m_packets'[r] = m_packets[r]
    BY DEF Apart
  <2>2. Clean(r)' <=> Clean(r)
    BY <1>4, <2>1 DEF Clean, NoStale
  <2>3. Emptied(r)' <=> Emptied(r)
    BY <2>1 DEF Emptied
  <2> QED
    BY <2>1, <2>2, <2>3, CountSame
<1> QED
  BY <1>1, <1>2, <1>3, <1>4, <1>5

\* What is left to show of a step of a thread.
LEMMA ThreadKeeps ==
  ASSUME IInv, Types', Sized', Hands', Meetings', NEW q \in Players, Apart(q),
         \A r \in Players \ {q}, s \in Syncs :
           Waits(s) => (r \in sync'[s].reached <=> r \in sync[s].reached),
         Clean(q) => Clean(q)', Emptied(q) => Emptied(q)',
         \A s \in Syncs : /\ Waits(s) /\ FlushFirst(q, s) => FlushFirst(q, s)'
                          /\ Waits(s) /\ EmptiesFirst(q, s) => EmptiesFirst(q, s)'
  PROVE  IInv'
<1>1. /\ Left' = Left
      /\ \A r \in Players : IsOpen(r)' <=> IsOpen(r)
  BY ApartIs
<1>2. Handlers'
  <2>1. todo' = todo
    BY DEF Apart
  <2>2. \A r \in Players : (Flushing(r)' <=> Flushing(r)) /\ \A s \in Syncs : Puts(r, s)' <=> Puts(r, s)
    BY ApartIs
  <2>3. Handlers
    BY DEF IInv
  <2> QED
    BY <1>1, <2>1, <2>2, <2>3 DEF Handlers
<1>3. Lives'
  <2>1. Lives /\ IsOpen(q)
    BY DEF IInv, Lives, Apart
  <2>2. \A r \in Players \ {q} : queue'[r] = queue[r] /\ pc'[r] = pc[r]
    BY DEF Apart
  <2>3. pc[q] # "none" /\ pc'[q] # "none"
    BY DEF Apart
  <2> QED
    BY <1>1, <2>1, <2>2, <2>3 DEF Lives
<1>4. ASSUME NEW r \in Players \ {q}, NEW s \in Syncs, Waits(s)
      PROVE  /\ FlushFirst(r, s) => FlushFirst(r, s)'
             /\ EmptiesFirst(r, s) => EmptiesFirst(r, s)'
  <2>1. /\ queue'[r].list = queue[r].list /\ item'[r] = item[r]
        /\ r \in sync'[s].reached <=> r \in sync[s].reached
    BY <1>4 DEF Apart
  <2>2. /\ Clean(r)' <=> Clean(r)
        /\ Emptied(r)' <=> Emptied(r)
        /\ Has(r, s)' <=> Has(r, s)
        /\ Puts(r, s)' <=> Puts(r, s)
        /\ Flushing(r)' <=> Flushing(r)
    BY ApartIs
  <2>3. NoStale(queue[r].list)' <=> NoStale(queue[r].list)
    BY <2>1, ApartIs DEF NoStale
  <2>4. \A m : IsStale(m)' <=> IsStale(m)
    BY ApartIs
  <2>5. FlushFirst(r, s) => FlushFirst(r, s)'
    BY <1>1, <2>1, <2>2, <2>3, <2>4 DEF FlushFirst, Given
  <2>6. EmptiesFirst(r, s) => EmptiesFirst(r, s)'
    BY <1>1, <2>1, <2>2 DEF EmptiesFirst, Given
  <2> QED
    BY <2>5, <2>6
<1>5. Settles'
  <2> SUFFICES ASSUME NEW r \in Players, NEW s \in Syncs, IsOpen(r)
               PROVE  /\ SyncCall("waitOrStop", s) \in Left => FlushFirst(r, s)'
                      /\ SyncCall("wait", s) \in Left /\ OwnCall("abort", r) \in Left =>
                           EmptiesFirst(r, s)'
    BY <1>1 DEF Settles
  <2>1. /\ SyncCall("waitOrStop", s) \in Left => FlushFirst(r, s) /\ Waits(s)
        /\ SyncCall("wait", s) \in Left /\ OwnCall("abort", r) \in Left =>
             EmptiesFirst(r, s) /\ Waits(s)
    BY DEF IInv, Settles, Waits
  <2> QED
    BY <1>4, <2>1
<1>6. HasSettled'
  <2>1. \A r \in Players : (Clean(r) => Clean(r)') /\ (Emptied(r) => Emptied(r)')
    BY ApartIs
  <2>2. waited' = waited /\ HasSettled
    BY DEF Apart, IInv
  <2> QED
    BY <1>1, <2>1, <2>2 DEF HasSettled
<1> QED
  BY <1>2, <1>3, <1>5, <1>6 DEF IInv

\* A step of a thread on its way that leaves its queue's list.
LEMMA ListSame ==
  ASSUME Hands, NEW q \in Players, NEW s \in Syncs, Apart(q), queue'[q].list = queue[q].list,
         q \in sync'[s].reached => q \in sync[s].reached \/ item[q].message = SyncMessage(s),
         item'[q].message = SyncMessage(s) => item[q].message = SyncMessage(s),
         Given(q, s) => Given(q, s)',
         IsFlush(item'[q]) => IsFlush(item[q]),
         IsFlush(item[q]) => IsFlush(item'[q]) \/ (NoStale(queue[q].list) => Clean(q)'),
         Clean(q) => Clean(q)', Emptied(q) => Emptied(q)'
  PROVE  /\ FlushFirst(q, s) => FlushFirst(q, s)'
         /\ EmptiesFirst(q, s) => EmptiesFirst(q, s)'
<1>1. /\ Left' = Left
      /\ Flushing(q)' <=> Flushing(q)
      /\ \A m : IsStale(m)' <=> IsStale(m)
  BY ApartIs
<1>2. NoStale(queue[q].list)' <=> NoStale(queue[q].list)
  BY <1>1 DEF NoStale
<1>3. Has(q, s)' => Has(q, s)
  BY DEF Has
<1>4. ASSUME FlushFirst(q, s)
      PROVE  FlushFirst(q, s)'
  <2>1. Given(q, s)' /\ Behind(queue'[q].list, SyncItems(s), FlushItems)
    BY <1>4 DEF FlushFirst
  <2>2. FlushPut(q) \in Left => ~Has(q, s)' /\ q \notin sync'[s].reached
    BY <1>3, <1>4 DEF FlushFirst, Has
  <2>3. item'[q].message = SyncMessage(s) \/ q \in sync'[s].reached => Clean(q)'
    BY <1>4 DEF FlushFirst
  <2>4. ASSUME ~Flushing(q)
        PROVE  /\ \A x \in Elements(queue'[q].list) : IsStale(x.message)' => x.priority >= 10
               /\ FlushPut(q) \in Left \/ HasFlush(queue'[q].list) \/ IsFlush(item'[q]) \/ Clean(q)'
               /\ IsFlush(item'[q]) => NoStale(queue[q].list)'
    BY <1>1, <1>2, <1>4, <2>4 DEF FlushFirst
  <2> QED
    BY <1>1, <2>1, <2>2, <2>3, <2>4 DEF FlushFirst
<1>5. ASSUME EmptiesFirst(q, s)
      PROVE  EmptiesFirst(q, s)'
  BY <1>1, <1>5 DEF EmptiesFirst
<1> QED
  BY <1>4, <1>5

\* A step of a thread that only moves it, and perhaps marks its arrival.
LEMMA PlaceKeeps ==
  ASSUME IInv, Types', Sized', Hands', Meetings', NEW q \in Players, Apart(q),
         queue'[q].list = queue[q].list, item'[q] = item[q], m_packets'[q] = m_packets[q],
         \A s \in Syncs : \/ sync'[s].reached = sync[s].reached
                          \/ /\ sync'[s].reached = sync[s].reached \cup {q}
                             /\ item[q].message = SyncMessage(s)
  PROVE  IInv'
<1>1. /\ \A m : IsStale(m)' <=> IsStale(m)
      /\ \A s \in Syncs : Puts(q, s)' <=> Puts(q, s)
  BY ApartIs
<1>2. (Clean(q)' <=> Clean(q)) /\ (Emptied(q)' <=> Emptied(q))
  BY <1>1 DEF Clean, NoStale, Emptied
<1>3. \A s \in Syncs : Given(q, s) => Given(q, s)'
  BY <1>1 DEF Given, Has
<1>4. \A s \in Syncs : /\ FlushFirst(q, s) => FlushFirst(q, s)'
                       /\ EmptiesFirst(q, s) => EmptiesFirst(q, s)'
  BY <1>2, <1>3, ListSame DEF IInv
<1> QED
  BY <1>2, <1>4, ThreadKeeps

\* The messages stay where they are, or one of them goes from the queue to the hand.
LEMMA ThreadMeets ==
  ASSUME Types, Types', Handlers, Meetings, NEW q \in Players, Apart(q), sync' = sync,
         \A s \in Syncs : /\ Count(q, s)' = Count(q, s)
                          /\ pc'[q] = "release" /\ InList(queue[q].list, s) =>
                               InList(queue[q].list, s)'
                          /\ Goes(q, s)
  PROVE  Meetings'
<1>1. /\ Left' = Left /\ todo' = todo
      /\ \A r \in Players : IsOpen(r)' <=> IsOpen(r)
      /\ \A s : (Waits(s)' <=> Waits(s)) /\ Owned(s)' = Owned(s)
      /\ \A r \in Players, s \in Syncs : Puts(r, s)' <=> Puts(r, s)
      /\ \A r \in Players \ {q} : \A s : Count(r, s)' = Count(r, s)
      /\ \A r \in Players : Flushing(r)' <=> Flushing(r)
  BY ApartIs DEF Apart
<1>2. Handlers'
  BY <1>1 DEF Handlers
<1>3. ASSUME NEW s \in Syncs
      PROVE  Meets(s)'
  <2>1. ASSUME NEW r \in Players \ {q}
        PROVE  /\ pc'[r] = "release" /\ InList(queue[r].list, s) => InList(queue[r].list, s)'
               /\ Goes(r, s)
    BY DEF Apart, Goes
  <2>2. sync'[s] = sync[s] /\ Meets(s)
    BY DEF Meetings
  <2>3. \A r \in Players :
           /\ Count(r, s)' = Count(r, s)
           /\ Puts(r, s)' => Puts(r, s)
           /\ IsOpen(r)' /\ Puts(r, s)' => IsOpen(r)
           /\ pc'[r] = "release" /\ InList(queue[r].list, s) => InList(queue[r].list, s)'
           /\ Goes(r, s)
    BY <1>1, <2>1
  <2> QED
    BY <1>1, <1>2, <2>2, <2>3, SameKeeps
<1> QED
  BY <1>3 DEF Meetings

\* Get that finds no item, times out, or finds that it is to abort.
LEMMA GetKeeps ==
  ASSUME IInv, NEW q \in Players,
         (\E p \in {0, 1} : WaitForItem(q, p)) \/ GetTimesOut(q) \/ GetAborted(q)
  PROVE  IInv'
<1>1. Types /\ Sized /\ Hands /\ Handlers /\ Meetings
  BY DEF IInv
<1>2. PICK place \in {"loop", "wait", "ended"}, p \in {0, 1} :
        /\ pc' = [pc EXCEPT ![q] = place] /\ ask' = [ask EXCEPT ![q] = p]
        /\ \/ queue' = queue
           \/ queue' = [queue EXCEPT ![q] = PrepareWait(queue[q])]
  BY DEF WaitForItem, GetTimesOut, GetAborted, LeavesGet
<1>3. /\ pc[q] \in {"loop", "wait"}
      /\ UNCHANGED <<sync, item, m_packets, todo, m_bStop, waited, counters>>
  BY DEF WaitForItem, GetTimesOut, GetAborted, InGet
<1>4. /\ queue' \in [Players -> QueueSet] /\ Sized' /\ queue'[q].list = queue[q].list
      /\ \A r \in Players : Sorted(queue'[r].list)
      /\ \A r \in Players \ {q} : queue'[r] = queue[r]
      /\ IsOpen(q)' <=> IsOpen(q)
  <2>1. CASE queue' = queue
    BY <1>1, <2>1, TypeFacts DEF Types, Sized, IsOpen
  <2>2. CASE queue' = [queue EXCEPT ![q] = PrepareWait(queue[q])]
    <3> DEFINE new == PrepareWait(queue[q])
    <3>1. GoodQueue(new) /\ new.list = queue[q].list /\ new.m_bInitialized = queue[q].m_bInitialized
      BY <1>1, QueuesGood, QueueOperations
    <3>2. queue' = [queue EXCEPT ![q] = new]
      BY <2>2
    <3> HIDE DEF new
    <3> QED
      BY <1>1, <3>1, <3>2, QueueChanges DEF IsOpen
  <2> QED
    BY <1>2, <2>1, <2>2
<1>5. /\ pc \in [Players -> Positions] /\ pc' \in [Players -> Positions]
      /\ pc'[q] = place /\ \A r \in Players \ {q} : pc'[r] = pc[r]
  BY <1>1, <1>2 DEF Types, Positions
<1>6. Types'
  BY <1>1, <1>2, <1>3, <1>4, <1>5 DEF Types, counters
<1>7. Apart(q)
  BY <1>3, <1>4, <1>5 DEF Apart, counters
<1>8. item[q] = Nothing /\ Hands'
  BY <1>1, <1>3, <1>5 DEF Hands
<1>9. \A s \in Syncs : Count(q, s)' = Count(q, s) /\ Goes(q, s)
  BY <1>3, <1>4, <1>5, CountSame DEF Goes
<1>10. Meetings'
  BY <1>1, <1>3, <1>5, <1>6, <1>7, <1>9, ThreadMeets
<1> QED
  BY <1>3, <1>4, <1>6, <1>7, <1>8, <1>10, PlaceKeeps

\* A thread that moves from place to place in Wait, or past it.
LEMMA WaitStep ==
  ASSUME IInv, NEW q \in Players, NotMeant(q) \/ MeetRetry(q) \/ Arrive(q) \/ Meet(q) \/ MeetLate(q)
  PROVE  IInv'
<1>1. Types /\ Sized /\ Hands /\ Handlers /\ Meetings
  BY DEF IInv
<1>2. PICK s \in Syncs : /\ s = SyncOf(item[q]) /\ item[q].message = SyncMessage(s)
                         /\ IsSync(item[q].message)
  BY <1>1, HandIs DEF NotMeant, MeetRetry, Arrive, Meet, MeetLate
<1>3. PICK place \in {"meet", "putBack", "release"} : pc' = [pc EXCEPT ![q] = place]
  <2>1. CASE Arrive(q)
    <3> DEFINE all == Cardinality(sync[SyncOf(item[q])].reached \cup {q}) >= sync[SyncOf(item[q])].refs
    <3>1. pc' = [pc EXCEPT ![q] = IF all THEN "release" ELSE "meet"]
      BY <2>1 DEF Arrive
    <3> HIDE DEF all
    <3> QED
      BY <3>1
  <2> QED
    BY <2>1 DEF NotMeant, MeetRetry, Meet, MeetLate
<1>4. /\ pc[q] \in {"handle", "meet"}
      /\ UNCHANGED <<queue, item, ask, m_packets, todo, m_bStop, waited, counters>>
  BY DEF NotMeant, MeetRetry, Arrive, Meet, MeetLate, Handles
<1>5. /\ pc \in [Players -> Positions] /\ pc' \in [Players -> Positions]
      /\ pc'[q] = place /\ \A r \in Players \ {q} : pc'[r] = pc[r]
  BY <1>1, <1>3 DEF Types, Positions
<1>6. /\ sync' \in [Syncs -> SyncSet]
      /\ \A m \in Syncs : \/ sync'[m].reached = sync[m].reached
                          \/ m = s /\ sync'[m].reached = sync[m].reached \cup {q}
  <2>1. sync \in [Syncs -> SyncSet]
    BY <1>1 DEF Types
  <2>2. CASE sync' = sync
    BY <2>1, <2>2
  <2>3. CASE sync' = [sync EXCEPT ![s].passed = TRUE]
    BY <2>1, <2>3 DEF SyncSet
  <2>5. CASE sync' = [sync EXCEPT ![s].late = TRUE]
    BY <2>1, <2>5 DEF SyncSet
  <2>4. CASE Arrive(q)
    <3>1. PICK all \in BOOLEAN :
            sync' = [sync EXCEPT ![s].reached = @ \cup {q}, ![s].passed = @ \/ all]
      BY <1>2, <2>4 DEF Arrive
    <3>2. PICK m : m = sync[s]
      OBVIOUS
    <3>3. PICK new : new = [m EXCEPT !.reached = @ \cup {q}, !.passed = @ \/ all]
      OBVIOUS
    <3>4. m \in SyncSet
      BY <2>1, <3>2
    <3>5. new \in SyncSet /\ new.reached = m.reached \cup {q}
      BY <3>3, <3>4 DEF SyncSet, Everyone
    <3>6. sync' = [sync EXCEPT ![s] = new]
      BY <2>1, <3>1, <3>2, <3>3
    <3> QED
      BY <2>1, <3>2, <3>5, <3>6
  <2> QED
    BY <1>2, <2>2, <2>3, <2>4, <2>5 DEF NotMeant, MeetRetry, Meet, MeetLate
<1>7. Types'
  BY <1>1, <1>4, <1>5, <1>6 DEF Types, counters
<1>8. Apart(q) /\ Sized' /\ Hands'
  <2>1. Apart(q)
    BY <1>4, <1>5 DEF Apart, counters, IsOpen
  <2>2. Sized'
    BY <1>1, <1>4 DEF Sized
  <2>3. Hands'
    BY <1>1, <1>2, <1>4, <1>5 DEF Hands
  <2> QED
    BY <2>1, <2>2, <2>3
<1>9. Handlers'
  <2>1. todo' = todo
    BY <1>4
  <2>2. /\ Left' = Left
        /\ \A r \in Players : (Flushing(r)' <=> Flushing(r)) /\ \A m \in Syncs : Puts(r, m)' <=> Puts(r, m)
    BY <1>8, ApartIs
  <2> QED
    BY <1>1, <2>1, <2>2 DEF Handlers
<1>10. Meetings'
  <2>1. CASE Arrive(q)
    BY <1>1, <1>7, <1>9, <2>1, ArriveMeets
  <2>2. CASE Meet(q) \/ MeetLate(q)
    BY <1>1, <1>7, <1>9, <2>2, MeetMeets
  <2>3. CASE NotMeant(q) \/ MeetRetry(q)
    <3>1. sync' = sync
      BY <2>3 DEF NotMeant, MeetRetry
    <3>2. \/ pc[q] = "meet" /\ pc'[q] = "putBack"
          \/ pc'[q] = "release" /\ q \notin sync[s].sources
      BY <1>1, <1>2, <2>3 DEF NotMeant, MeetRetry, Types
    <3>3. \A m \in Syncs : Count(q, m)' = Count(q, m) /\ Goes(q, m)
      BY <1>2, <1>4, <3>2, CountSame, MessagesAre DEF Goes
    <3>4. \A m \in Syncs : InList(queue[q].list, m) => InList(queue[q].list, m)'
      BY <1>4 DEF InList
    <3> QED
      BY <1>1, <1>7, <1>8, <3>1, <3>3, <3>4, ThreadMeets
  <2> QED
    BY <2>1, <2>2, <2>3
<1> QED
  BY <1>2, <1>4, <1>6, <1>7, <1>8, <1>10, PlaceKeeps

\* What a thread keeps for its decoder are packets, and it has had them all in its hands.
LEMMA KeepIs ==
  ASSUME Types, NEW q \in Players, IsPacket(item[q])
  PROVE  /\ Keep(q) \in Seq(Packets) /\ Len(Keep(q)) <= MaxConverge
         /\ \A i \in 1 .. Len(Keep(q)) :
              \/ Keep(q)[i] = item[q].message
              \/ \E j \in 1 .. Len(m_packets[q]) : Keep(q)[i] = m_packets[q][j]
<1> DEFINE old == m_packets[q]
           kept == Append(old, item[q].message)
<1>1. old \in Seq(Packets) /\ Len(old) <= MaxConverge /\ item[q].message \in Packets
  BY TypeFacts, ItemFields DEF IsPacket, Packets
<1>2. MaxConverge \in Nat
  BY PlayerAssumption
<1>3. PICK n \in Nat : n = Len(old)
  BY <1>1, LenProperties
<1>4. Keep(q) = IF q # Video \/ MaxConverge = 0 THEN old
                ELSE IF Len(kept) > MaxConverge THEN Tail(kept) ELSE kept
  BY DEF Keep
<1> HIDE DEF old
<1>5. /\ kept \in Seq(Packets) /\ Len(kept) = n + 1 /\ kept[n + 1] = item[q].message
      /\ \A i \in 1 .. n : kept[i] = old[i]
  BY <1>1, <1>3, AppendProperties
<1> HIDE DEF kept
<1>6. \A i \in 1 .. (n + 1) : \/ kept[i] = item[q].message
                              \/ \E j \in 1 .. n : kept[i] = old[j]
  BY <1>5
<1>7. kept # <<>>
  BY <1>5, EmptySeq
<1>8. /\ Tail(kept) \in Seq(Packets) /\ Len(Tail(kept)) = n
      /\ \A i \in 1 .. n : Tail(kept)[i] = kept[i + 1]
  BY <1>5, <1>7, HeadTailProperties
<1>9. \A i \in 1 .. n : \/ Tail(kept)[i] = item[q].message
                        \/ \E j \in 1 .. n : Tail(kept)[i] = old[j]
  <2> SUFFICES ASSUME NEW i \in 1 .. n
               PROVE  \/ Tail(kept)[i] = item[q].message
                      \/ \E j \in 1 .. n : Tail(kept)[i] = old[j]
    OBVIOUS
  <2>1. i + 1 \in 1 .. (n + 1) /\ Tail(kept)[i] = kept[i + 1]
    BY <1>8
  <2> QED
    BY <1>6, <2>1
<1>10. CASE q # Video \/ MaxConverge = 0
  <2>1. Keep(q) = old
    BY <1>4, <1>10
  <2> QED
    BY <1>1, <2>1 DEF old
<1>11. CASE ~(q # Video \/ MaxConverge = 0) /\ n + 1 > MaxConverge
  <2>1. Keep(q) = Tail(kept)
    BY <1>4, <1>5, <1>11
  <2>2. n <= MaxConverge
    BY <1>1, <1>3
  <2> QED
    BY <1>3, <1>8, <1>9, <2>1, <2>2 DEF old
<1>12. CASE ~(q # Video \/ MaxConverge = 0) /\ ~(n + 1 > MaxConverge)
  <2>1. Keep(q) = kept
    BY <1>4, <1>5, <1>12
  <2>2. n + 1 <= MaxConverge
    BY <1>2, <1>12
  <2> QED
    BY <1>3, <1>5, <1>6, <2>1, <2>2 DEF old
<1> QED
  BY <1>10, <1>11, <1>12

\* A thread handles what is no synchronize message.
HandStep(q) ==
  \/ HandleFlush(q) \/ HandleSpeed(q) \/ Decode(q) \/ DecoderFlushed(q) \/ Recovered(q)

LEMMA NothingIs ==
  /\ Nothing \in Items /\ ~IsPacket(Nothing) /\ ~IsFlush(Nothing) /\ ~IsStale(Nothing.message)
  /\ \A s : Nothing.message # SyncMessage(s)
BY DEF Nothing, Item, Items, Message, Messages, IsPacket, IsFlush, IsStale, SyncMessage

LEMMA HandKeeps ==
  ASSUME IInv, NEW q \in Players, HandStep(q)
  PROVE  IInv'
<1>1. Types /\ Sized /\ Hands /\ Handlers /\ Meetings
  BY DEF IInv
<1>2. /\ pc[q] \in {"handle", "recover"}
      /\ UNCHANGED <<queue, sync, ask, todo, m_bStop, waited, now>>
      /\ \/ item' = [item EXCEPT ![q] = Nothing] /\ pc' = [pc EXCEPT ![q] = "loop"]
         \/ item' = item /\ pc' = [pc EXCEPT ![q] = "recover"] /\ IsPacket(item[q])
  BY DEF HandStep, HandleFlush, HandleSpeed, Decode, DecoderFlushed, Recovered, Handles, Done,
         counters, IsPacket
<1>3. /\ \A s : item[q].message # SyncMessage(s)
      /\ IsFlush(item[q]) => m_packets' = [m_packets EXCEPT ![q] = <<>>]
      /\ \/ m_packets' = [m_packets EXCEPT ![q] = <<>>]
         \/ m_packets' = m_packets
         \/ m_packets' = [m_packets EXCEPT ![q] = Keep(q)] /\ IsPacket(item[q])
  BY <1>1 DEF HandStep, HandleFlush, HandleSpeed, Decode, DecoderFlushed, Recovered, Handles,
              IsPacket, IsFlush, SyncMessage, Message, Hands
<1>4. /\ m_packets' \in [Players -> Seq(Packets)] /\ Len(m_packets'[q]) <= MaxConverge
      /\ \A r \in Players \ {q} : m_packets'[r] = m_packets[r]
      /\ \A i \in 1 .. Len(m_packets'[q]) :
           \/ m_packets'[q][i] = item[q].message
           \/ \E j \in 1 .. Len(m_packets[q]) : m_packets'[q][i] = m_packets[q][j]
      /\ IsFlush(item[q]) => m_packets'[q] = <<>>
  <2>1. m_packets \in [Players -> Seq(Packets)] /\ Len(m_packets[q]) <= MaxConverge
    BY <1>1 DEF Types
  <2>2. CASE m_packets' = [m_packets EXCEPT ![q] = <<>>]
    <3>1. <<>> \in Seq(Packets) /\ Len(<<>>) = 0 /\ MaxConverge \in Nat
      BY EmptySeq, PlayerAssumption
    <3> DEFINE none == <<>>
    <3>2. m_packets' = [m_packets EXCEPT ![q] = none]
      BY <2>2
    <3>3. none \in Seq(Packets) /\ Len(none) = 0
      BY <3>1
    <3> HIDE DEF none
    <3>4. m_packets' \in [Players -> Seq(Packets)] /\ m_packets'[q] = none
          /\ \A r \in Players \ {q} : m_packets'[r] = m_packets[r]
      BY <2>1, <3>2, <3>3
    <3> QED
      BY <3>1, <3>3, <3>4 DEF none
  <2>3. CASE m_packets' = m_packets /\ ~IsFlush(item[q])
    BY <2>1, <2>3
  <2>4. CASE m_packets' = [m_packets EXCEPT ![q] = Keep(q)] /\ IsPacket(item[q])
    <3>1. m_packets'[q] = Keep(q) /\ ~IsFlush(item[q])
      BY <2>1, <2>4 DEF IsFlush, IsPacket
    <3>2. Keep(q) \in Seq(Packets)
      BY <1>1, <2>4, KeepIs
    <3>3. m_packets' \in [Players -> Seq(Packets)] /\ \A r \in Players \ {q} : m_packets'[r] = m_packets[r]
      BY <2>1, <2>4, <3>2
    <3> QED
      BY <1>1, <2>4, <3>1, <3>3, KeepIs
  <2> QED
    BY <1>3, <2>2, <2>3, <2>4
<1>5. /\ pc \in [Players -> Positions] /\ pc' \in [Players -> Positions]
      /\ pc'[q] \in {"loop", "recover"} /\ \A r \in Players \ {q} : pc'[r] = pc[r]
  BY <1>1, <1>2 DEF Types, Positions
<1>6. /\ item' \in [Players -> Items] /\ \A r \in Players \ {q} : item'[r] = item[r]
      /\ \/ item'[q] = Nothing /\ pc'[q] = "loop"
         \/ item'[q] = item[q] /\ pc'[q] = "recover" /\ IsPacket(item[q])
  BY <1>1, <1>2, <1>5, NothingIs DEF Types
<1>7. Types'
  <2>1. \A r \in Players : Len(m_packets'[r]) <= MaxConverge
    BY <1>1, <1>4, TypeFacts
  <2>2. /\ \A r \in Players : Sorted(queue'[r].list)
        /\ queue' \in [Players -> QueueSet] /\ sync' \in [Syncs -> SyncSet]
        /\ ask' \in [Players -> {0, 1}] /\ todo' \in Seq(PlayerCalls)
        /\ m_bStop' \in BOOLEAN /\ waited' \in {"no", "emptied", "flushed"} /\ now' \in Nat
    BY <1>1, <1>2 DEF Types
  <2> QED
    BY <1>4, <1>5, <1>6, <2>1, <2>2 DEF Types
<1>8. Apart(q) /\ Sized' /\ Hands'
  <2>1. Apart(q)
    BY <1>2, <1>4, <1>5, <1>6 DEF Apart, IsOpen
  <2>2. Sized'
    BY <1>1, <1>2 DEF Sized
  <2>3. Hands'
    BY <1>1, <1>5, <1>6 DEF Hands
  <2> QED
    BY <2>1, <2>2, <2>3
<1>9. /\ \A s : item'[q].message # SyncMessage(s)
      /\ ~IsFlush(item'[q])
  BY <1>3, <1>6, NothingIs DEF IsPacket, IsFlush
<1>10. \A s \in Syncs : /\ Count(q, s)' = Count(q, s) /\ Goes(q, s)
                        /\ Has(q, s)' <=> Has(q, s)
  BY <1>2, <1>3, <1>9 DEF Count, Held, Goes, Has
<1>11. Meetings'
  BY <1>1, <1>2, <1>5, <1>7, <1>8, <1>10, ThreadMeets
<1>12. /\ \A m : IsStale(m)' <=> IsStale(m)
       /\ \A s \in Syncs : Puts(q, s)' <=> Puts(q, s)
  BY <1>8, ApartIs
<1>13. \/ item'[q] = Nothing /\ ~IsStale(item[q].message)' /\ ~IsPacket(item'[q])
       \/ item'[q] = item[q] /\ (IsStale(item[q].message)' <=> IsStale(item[q].message))
  <2>1. \A m : m # Nothing.message \/ ~IsStale(m)'
    BY <1>12, NothingIs
  <2>2. item'[q] = Nothing => ~IsStale(item[q].message)'
    BY <2>1
  <2>3. item'[q] = item[q] => (IsStale(item[q].message)' <=> IsStale(item[q].message))
    BY <1>12
  <2> QED
    BY <1>6, <2>2, <2>3, NothingIs
<1>14. /\ Clean(q) => Clean(q)'
       /\ Emptied(q) => Emptied(q)'
       /\ IsFlush(item[q]) /\ NoStale(queue[q].list) => Clean(q)'
  <2>1. NoStale(queue[q].list) => NoStale(queue[q].list)'
    BY <1>2, <1>12 DEF NoStale
  <2>2. ASSUME Clean(q)
        PROVE  Clean(q)'
    <3>1. \A i \in 1 .. Len(m_packets'[q]) : ~IsStale(m_packets[q][i])'
      BY <1>4, <1>12, <2>2 DEF Clean
    <3>2. ~IsStale(item[q].message)'
      BY <1>13, <2>2 DEF Clean
    <3> QED
      BY <2>1, <2>2, <3>1, <3>2 DEF Clean
  <2>3. Emptied(q) => Emptied(q)'
    BY <1>2, <1>13 DEF Emptied
  <2>4. ASSUME IsFlush(item[q]), NoStale(queue[q].list)
        PROVE  Clean(q)'
    <3>1. Len(m_packets'[q]) = 0
      BY <1>4, <2>4, EmptySeq
    <3>2. ~IsStale(item[q].message)'
      BY <1>6, <1>13, <2>4, NothingIs DEF IsFlush, IsPacket
    <3> QED
      BY <2>1, <2>4, <3>1, <3>2 DEF Clean
  <2> QED
    BY <2>2, <2>3, <2>4
<1>15. \A s \in Syncs : Given(q, s) => Given(q, s)'
  BY <1>2, <1>10, <1>12 DEF Given
<1>16. \A s \in Syncs : /\ FlushFirst(q, s) => FlushFirst(q, s)'
                        /\ EmptiesFirst(q, s) => EmptiesFirst(q, s)'
  BY <1>1, <1>2, <1>8, <1>9, <1>14, <1>15, ListSame
<1> QED
  BY <1>2, <1>7, <1>8, <1>11, <1>14, <1>16, ThreadKeeps

\* A thread takes the last item of its list.
LEMMA TakeKeeps ==
  ASSUME IInv, NEW q \in Players, NEW p \in {0, 1}, Take(q, p)
  PROVE  IInv'
<1>1. Types /\ Sized /\ Hands /\ Handlers /\ Meetings
  BY DEF IInv
<1> DEFINE list == queue[q].list
           x == Last(list)
           new == TakeItem(queue[q])
<1>2. /\ pc[q] \in {"loop", "wait"} /\ list # <<>>
      /\ item' = [item EXCEPT ![q] = x] /\ queue' = [queue EXCEPT ![q] = new]
      /\ pc' = [pc EXCEPT ![q] = "handle"] /\ ask' = [ask EXCEPT ![q] = 0]
      /\ UNCHANGED <<sync, m_packets, todo, m_bStop, waited, now>>
  BY DEF Take, InGet, HasItem, LeavesGet, counters
<1>3. item[q] = Nothing
  BY <1>1, <1>2 DEF Hands
<1>4. /\ list \in Seq(Items) /\ Sorted(list) /\ Front(list) \in Seq(Items) /\ x \in Items
      /\ Elements(list) = Elements(Front(list)) \cup {x}
      /\ \A y \in Elements(list) : y \in Items /\ y.priority <= x.priority
      /\ \A S, T : Behind(list, S, T) =>
           Behind(Front(list), S, T) /\ (x \in S => Elements(list) \cap T = {})
      /\ \A S : Cardinality(Places(list, S)) =
                  Cardinality(Places(Front(list), S)) + IF x \in S THEN 1 ELSE 0
  BY <1>1, <1>2, TypeFacts, FrontElements, FrontCount, ElementsAre
<1>5. /\ GoodQueue(new) /\ new.list = Front(list)
      /\ new.m_bInitialized = queue[q].m_bInitialized
  BY <1>1, <1>2, QueuesGood, QueueOperations
<1> HIDE DEF x, new
<1>6. /\ queue' \in [Players -> QueueSet] /\ Sized' /\ queue'[q].list = Front(list)
      /\ \A r \in Players : Sorted(queue'[r].list)
      /\ \A r \in Players \ {q} : queue'[r] = queue[r]
      /\ IsOpen(q)' <=> IsOpen(q)
  BY <1>1, <1>2, <1>5, QueueChanges DEF IsOpen
<1> HIDE DEF list
<1>7. /\ pc \in [Players -> Positions] /\ pc' \in [Players -> Positions]
      /\ pc'[q] = "handle" /\ \A r \in Players \ {q} : pc'[r] = pc[r]
      /\ item' \in [Players -> Items] /\ item'[q] = x
      /\ \A r \in Players \ {q} : item'[r] = item[r]
  BY <1>1, <1>2, <1>4 DEF Types, Positions
<1>8. Types'
  BY <1>1, <1>2, <1>6, <1>7 DEF Types
<1>9. Apart(q) /\ Hands'
  <2>1. Apart(q)
    BY <1>2, <1>6, <1>7 DEF Apart
  <2>2. Hands'
    BY <1>1, <1>7 DEF Hands
  <2> QED
    BY <2>1, <2>2
<1>10. ASSUME NEW s \in Syncs
       PROVE  Count(q, s)' = Count(q, s) /\ Goes(q, s)
  <2>1. Entries(queue[q], SyncMessage(s)) = Cardinality(Places(list, SyncItems(s)))
    BY <1>4, EntriesAre DEF list
  <2>2. /\ Entries(queue'[q], SyncMessage(s)) = Cardinality(Places(Front(list), SyncItems(s)))
        /\ Cardinality(Places(Front(list), SyncItems(s))) \in Nat
    BY <1>4, <1>6, EntriesAre, PlacesFinite
  <2>3. x \in SyncItems(s) <=> x.message = SyncMessage(s)
    BY <1>4 DEF SyncItems
  <2>4. Held(q, s) = 0 /\ Held(q, s)' = IF x \in SyncItems(s) THEN 1 ELSE 0
    BY <1>3, <1>7, <2>3, NothingIs DEF Held
  <2>5. Cardinality(Places(list, SyncItems(s))) =
          Cardinality(Places(Front(list), SyncItems(s))) + IF x \in SyncItems(s) THEN 1 ELSE 0
    BY <1>4
  <2>6. Count(q, s)' = Count(q, s)
    BY <2>1, <2>2, <2>4, <2>5 DEF Count
  <2> QED
    BY <1>7, <2>6 DEF Goes
<1>11. Meetings'
  BY <1>1, <1>2, <1>7, <1>8, <1>9, <1>10, ThreadMeets
<1>12. /\ \A m : IsStale(m)' <=> IsStale(m)
       /\ \A s \in Syncs : Puts(q, s)' <=> Puts(q, s)
       /\ Left' = Left /\ (Flushing(q)' <=> Flushing(q))
  BY <1>9, ApartIs
<1>13. \A s \in Syncs : Has(q, s)' <=> Has(q, s)
  BY <1>1, <1>8, <1>10, CountFacts, NextCountFacts
<1>14. /\ Clean(q) => Clean(q)'
       /\ Emptied(q) => Emptied(q)'
  <2>1. \A y \in Elements(Front(list)) : y \in Elements(list)
    BY <1>4
  <2>2. x \in Elements(list)
    BY <1>4
  <2>3. queue'[q].list = Front(list) /\ item'[q] = x /\ m_packets'[q] = m_packets[q]
    BY <1>2, <1>6, <1>7
  <2>4. ASSUME Clean(q)
        PROVE  Clean(q)'
    <3>1. NoStale(queue[q].list)'
      BY <1>12, <2>1, <2>3, <2>4 DEF Clean, NoStale, list
    <3>2. ~IsStale(item[q].message)'
      BY <1>12, <2>2, <2>3, <2>4 DEF Clean, NoStale, list
    <3> QED
      BY <1>12, <2>3, <2>4, <3>1, <3>2 DEF Clean
  <2>5. ASSUME Emptied(q)
        PROVE  Emptied(q)'
    BY <2>1, <2>2, <2>3, <2>5 DEF Emptied, NoPacket, list
  <2> QED
    BY <2>4, <2>5
<1>15. ASSUME NEW s \in Syncs
       PROVE  Given(q, s) => Given(q, s)'
  BY <1>2, <1>12, <1>13 DEF Given
<1>16. ASSUME NEW s \in Syncs, FlushFirst(q, s)
       PROVE  FlushFirst(q, s)'
  <2>1. /\ FlushPut(q) \in Left => ~Has(q, s) /\ q \notin sync[s].reached
        /\ Behind(list, SyncItems(s), FlushItems)
        /\ q \in sync[s].reached => Clean(q)
        /\ Given(q, s)
    BY <1>16 DEF FlushFirst, list
  <2>2. FlushPut(q) \in Left => ~Has(q, s)' /\ q \notin sync'[s].reached
    BY <1>2, <1>13, <2>1
  <2>3. Behind(queue'[q].list, SyncItems(s), FlushItems)
    BY <1>4, <1>6, <2>1
  <2>4. Flushing(q) => FlushPut(q) \in Left
    BY <1>1 DEF Handlers
  <2>5. ASSUME ~Flushing(q)
        PROVE  /\ \A y \in Elements(queue'[q].list) : IsStale(y.message)' => y.priority >= 10
               /\ FlushPut(q) \in Left \/ HasFlush(queue'[q].list) \/ IsFlush(item'[q]) \/ Clean(q)'
               /\ IsFlush(item'[q]) => NoStale(queue[q].list)'
    <3>1. /\ \A y \in Elements(list) : IsStale(y.message) => y.priority >= 10
          /\ FlushPut(q) \in Left \/ HasFlush(list) \/ IsFlush(item[q]) \/ Clean(q)
      BY <1>16, <2>5 DEF FlushFirst, list
    <3>2. \A y \in Elements(queue'[q].list) : IsStale(y.message)' => y.priority >= 10
      BY <1>4, <1>6, <1>12, <3>1
    <3>3. HasFlush(list) => HasFlush(queue'[q].list) \/ IsFlush(item'[q])
      BY <1>4, <1>6, <1>7 DEF HasFlush
    <3>4. ~IsFlush(item[q])
      BY <1>3, NothingIs
    <3>5. ASSUME IsFlush(x)
          PROVE  NoStale(queue[q].list)'
      <4>1. x.priority = 1
        BY <1>4, <3>5, ItemFields DEF IsFlush
      <4>2. \A y \in Elements(Front(list)) : y.priority \in Nat /\ y.priority <= 1
        BY <1>4, <4>1, ItemFields
      <4>3. \A y \in Elements(Front(list)) : ~IsStale(y.message)'
        BY <1>6, <3>2, <4>2
      <4> QED
        BY <1>6, <4>3 DEF NoStale
    <3> QED
      BY <1>7, <1>14, <3>1, <3>2, <3>3, <3>4, <3>5
  <2>6. ASSUME item'[q].message = SyncMessage(s)
        PROVE  Clean(q)
    <3>1. Has(q, s)
      BY <1>13, <2>6 DEF Has
    <3>2. FlushPut(q) \notin Left /\ ~Flushing(q)
      BY <2>1, <2>4, <3>1
    <3>3. x \in SyncItems(s)
      BY <1>4, <1>7, <2>6 DEF SyncItems
    <3>4. Elements(list) \cap FlushItems = {}
      BY <1>4, <2>1, <3>3
    <3>5. ~HasFlush(list)
      BY <1>4, <3>4 DEF HasFlush, FlushItems, IsFlush
    <3> QED
      BY <1>3, <1>16, <3>2, <3>5, NothingIs DEF FlushFirst, list
  <2>7. item'[q].message = SyncMessage(s) \/ q \in sync'[s].reached => Clean(q)'
    BY <1>2, <1>14, <2>1, <2>6
  <2> QED
    BY <1>12, <1>15, <2>1, <2>2, <2>3, <2>5, <2>7 DEF FlushFirst
<1>17. ASSUME NEW s \in Syncs, EmptiesFirst(q, s)
       PROVE  EmptiesFirst(q, s)'
  <2>1. /\ Given(q, s) /\ PutCall(q, SyncMessage(s), 1) \notin Left
        /\ Behind(list, SyncItems(s), PacketItems)
        /\ q \in sync[s].reached => Emptied(q)
    BY <1>17 DEF EmptiesFirst, list
  <2>2. Behind(queue'[q].list, SyncItems(s), PacketItems)
    BY <1>4, <1>6, <2>1
  <2>3. ASSUME item'[q].message = SyncMessage(s)
        PROVE  Emptied(q)
    <3>1. x \in SyncItems(s)
      BY <1>4, <1>7, <2>3 DEF SyncItems
    <3>2. Elements(list) \cap PacketItems = {}
      BY <1>4, <2>1, <3>1
    <3>3. NoPacket(list)
      BY <1>4, <3>2 DEF NoPacket, PacketItems
    <3> QED
      BY <1>3, <3>3, NothingIs DEF Emptied, list
  <2>4. item'[q].message = SyncMessage(s) \/ q \in sync'[s].reached => Emptied(q)'
    BY <1>2, <1>14, <2>1, <2>3
  <2> QED
    BY <1>12, <1>15, <2>1, <2>2, <2>4 DEF EmptiesFirst
<1> QED
  BY <1>2, <1>6, <1>8, <1>9, <1>11, <1>14, <1>16, <1>17, ThreadKeeps

\* A thread puts a packet back that its decoder asks for again.
LEMMA RecoverKeeps ==
  ASSUME IInv, NEW q \in Players, Recover(q)
  PROVE  IInv'
<1>1. Types /\ Sized /\ Hands /\ Handlers /\ Meetings
  BY DEF IInv
<1> DEFINE list == queue[q].list
           it == Item(Head(m_packets[q]), item[q].priority + 10)
           new == Put(queue[q], it)
           left == Tail(m_packets[q])
<1>2. /\ pc[q] = "recover" /\ m_packets[q] # <<>>
      /\ queue' = [queue EXCEPT ![q] = new] /\ m_packets' = [m_packets EXCEPT ![q] = left]
      /\ UNCHANGED <<sync, pc, item, ask, todo, m_bStop, waited, now>>
  BY DEF Recover, counters
<1>3. IsPacket(item[q]) /\ item[q] \in Items /\ item[q].priority \in Nat
  BY <1>1, <1>2, ItemFields DEF Hands, Types
<1>4. /\ m_packets[q] \in Seq(Packets) /\ Len(m_packets[q]) <= MaxConverge
      /\ Len(m_packets[q]) \in Nat \ {0}
      /\ Head(m_packets[q]) \in Packets /\ Head(m_packets[q]) = m_packets[q][1]
      /\ left \in Seq(Packets) /\ Len(left) = Len(m_packets[q]) - 1
      /\ \A i \in 1 .. Len(left) : left[i] = m_packets[q][i + 1]
  <2>1. m_packets[q] \in Seq(Packets) /\ Len(m_packets[q]) <= MaxConverge
    BY <1>1, TypeFacts
  <2> QED
    BY <1>2, <2>1, HeadTailProperties, EmptySeq, LenProperties, ElementOfSeq
<1>5. /\ it \in Items /\ IsPacket(it) /\ it.message = m_packets[q][1] /\ it.priority >= 10
      /\ it.priority \in Nat /\ \A s : it.message # SyncMessage(s)
  BY <1>3, <1>4 DEF Items, Item, IsPacket, Packets, SyncMessage, Message
<1> HIDE DEF it
<1>6. /\ GoodQueue(new) /\ new.list = Insert(list, it)
      /\ new.m_bInitialized = queue[q].m_bInitialized
  BY <1>1, <1>5, PutIs
<1>7. /\ list \in Seq(Items) /\ Sorted(list)
      /\ Insert(list, it) \in Seq(Items)
      /\ Elements(Insert(list, it)) = Elements(list) \cup {it}
      /\ \A S : Cardinality(Places(Insert(list, it), S)) =
                  Cardinality(Places(list, S)) + IF it \in S THEN 1 ELSE 0
  BY <1>1, <1>5, TypeFacts, InsertElements
<1> HIDE DEF new, left
<1>8. /\ queue' \in [Players -> QueueSet] /\ Sized' /\ queue'[q].list = Insert(list, it)
      /\ \A r \in Players : Sorted(queue'[r].list)
      /\ \A r \in Players \ {q} : queue'[r] = queue[r]
      /\ IsOpen(q)' <=> IsOpen(q)
  BY <1>1, <1>2, <1>6, QueueChanges DEF IsOpen
<1> HIDE DEF list
<1>9. /\ m_packets' \in [Players -> Seq(Packets)] /\ m_packets'[q] = left
      /\ \A r \in Players \ {q} : m_packets'[r] = m_packets[r]
  BY <1>1, <1>2, <1>4 DEF Types
<1>10. Types'
  <2>1. \A r \in Players : Len(m_packets'[r]) <= MaxConverge
    <3>1. Len(left) <= MaxConverge
      BY <1>4, PlayerAssumption
    <3> QED
      BY <1>1, <1>9, <3>1, TypeFacts
  <2> QED
    BY <1>1, <1>2, <1>8, <1>9, <2>1 DEF Types
<1>11. Apart(q) /\ Hands'
  <2>1. Apart(q)
    BY <1>2, <1>8, <1>9 DEF Apart
  <2>2. Hands'
    BY <1>1, <1>2 DEF Hands
  <2> QED
    BY <2>1, <2>2
<1>12. ASSUME NEW s \in Syncs
       PROVE  /\ InList(queue[q].list, s)' <=> InList(queue[q].list, s)
              /\ Count(q, s)' = Count(q, s) /\ Goes(q, s) /\ item[q].message # SyncMessage(s)
  <2>1. Entries(queue[q], SyncMessage(s)) = Cardinality(Places(list, SyncItems(s)))
    BY <1>7, EntriesAre DEF list
  <2>2. Entries(queue'[q], SyncMessage(s)) = Cardinality(Places(Insert(list, it), SyncItems(s)))
    BY <1>7, <1>8, EntriesAre
  <2>3. it \notin SyncItems(s)
    BY <1>5 DEF SyncItems
  <2>4. Cardinality(Places(Insert(list, it), SyncItems(s))) = Cardinality(Places(list, SyncItems(s)))
    BY <1>7, <2>3, PlacesFinite
  <2>5. Count(q, s)' = Count(q, s)
    BY <1>2, <2>1, <2>2, <2>4 DEF Count, Held
  <2>6. InList(queue[q].list, s)' <=> InList(queue[q].list, s)
    BY <1>5, <1>7, <1>8 DEF InList, list
  <2>7. item[q].message # SyncMessage(s)
    BY <1>3 DEF IsPacket, SyncMessage, Message
  <2> QED
    BY <1>2, <2>5, <2>6, <2>7 DEF Goes
<1>13. Meetings'
  BY <1>1, <1>2, <1>10, <1>11, <1>12, ThreadMeets
<1>14. /\ \A m : IsStale(m)' <=> IsStale(m)
       /\ \A s \in Syncs : Puts(q, s)' <=> Puts(q, s)
       /\ Left' = Left /\ (Flushing(q)' <=> Flushing(q))
  BY <1>11, ApartIs
<1>15. ASSUME Clean(q)
       PROVE  Clean(q)'
  <2>2. NoStale(queue[q].list)'
    <3>1. \A m : m = it.message => ~IsStale(m)'
      BY <1>4, <1>5, <1>14, <1>15 DEF Clean
    <3>2. \A x \in Elements(list) : ~IsStale(x.message)'
      BY <1>14, <1>15 DEF Clean, NoStale, list
    <3>3. \A x \in Elements(list) \cup {it} : ~IsStale(x.message)'
      BY <3>1, <3>2
    <3> QED
      BY <1>7, <1>8, <3>3 DEF NoStale
  <2>3. \A i \in 1 .. Len(left) : \A m : m = left[i] => ~IsStale(m)'
    <3>1. \A i \in 1 .. Len(left) : i + 1 \in 1 .. Len(m_packets[q]) /\ left[i] = m_packets[q][i + 1]
      BY <1>4
    <3>2. \A i \in 1 .. Len(m_packets[q]) : \A m : m = m_packets[q][i] => ~IsStale(m)'
      BY <1>14, <1>15 DEF Clean
    <3> QED
      BY <3>1, <3>2
  <2>4. ~IsStale(item[q].message)'
    BY <1>2, <1>14, <1>15 DEF Clean
  <2> QED
    BY <1>9, <2>2, <2>3, <2>4 DEF Clean
<1>16. ~Emptied(q)
  BY <1>3 DEF Emptied
<1>17. ASSUME NEW s \in Syncs
       PROVE  Given(q, s) => Given(q, s)'
  BY <1>2, <1>12, <1>14 DEF Given, Has
<1>18. ASSUME NEW s \in Syncs, FlushFirst(q, s)
       PROVE  FlushFirst(q, s)'
  <2>1. /\ FlushPut(q) \in Left => ~Has(q, s)' /\ q \notin sync'[s].reached
        /\ Given(q, s)'
        /\ item'[q].message = SyncMessage(s) \/ q \in sync'[s].reached => Clean(q)'
    BY <1>2, <1>12, <1>15, <1>17, <1>18 DEF FlushFirst, Has
  <2>2. Behind(queue'[q].list, SyncItems(s), FlushItems)
    <3>1. it \notin SyncItems(s) /\ it \notin FlushItems
      BY <1>5 DEF SyncItems, FlushItems, IsPacket
    <3>2. Behind(list, SyncItems(s), FlushItems)
      BY <1>18 DEF FlushFirst, list
    <3> QED
      BY <1>5, <1>7, <1>8, <3>1, <3>2, InsertBehind
  <2>3. ASSUME ~Flushing(q)
        PROVE  /\ \A y \in Elements(queue'[q].list) : IsStale(y.message)' => y.priority >= 10
               /\ FlushPut(q) \in Left \/ HasFlush(queue'[q].list) \/ IsFlush(item'[q]) \/ Clean(q)'
               /\ ~IsFlush(item'[q])
    <3>1. /\ \A y \in Elements(list) : IsStale(y.message) => y.priority >= 10
          /\ FlushPut(q) \in Left \/ HasFlush(list) \/ IsFlush(item[q]) \/ Clean(q)
      BY <1>18, <2>3 DEF FlushFirst, list
    <3>2. \A y \in Elements(queue'[q].list) : IsStale(y.message)' => y.priority >= 10
      BY <1>5, <1>7, <1>8, <1>14, <3>1
    <3>3. HasFlush(list) => HasFlush(queue'[q].list)
      BY <1>7, <1>8 DEF HasFlush
    <3>4. ~IsFlush(item[q])
      BY <1>3 DEF IsFlush, IsPacket
    <3> QED
      BY <1>2, <1>15, <3>1, <3>2, <3>3, <3>4
  <2> QED
    BY <1>14, <2>1, <2>2, <2>3 DEF FlushFirst
<1>19. ASSUME NEW s \in Syncs, EmptiesFirst(q, s)
       PROVE  EmptiesFirst(q, s)'
  <2>1. /\ Given(q, s)' /\ PutCall(q, SyncMessage(s), 1) \notin Left
        /\ ~(item'[q].message = SyncMessage(s) \/ q \in sync'[s].reached)
    BY <1>2, <1>16, <1>17, <1>19 DEF EmptiesFirst
  <2>2. Behind(queue'[q].list, SyncItems(s), PacketItems)
    <3>1. it \notin SyncItems(s)
      BY <1>5 DEF SyncItems
    <3>2. \A x \in Elements(list) \cap SyncItems(s) : x.priority < it.priority
      BY <1>5, ItemFields, MessagesAre DEF SyncItems, IsSync
    <3>3. Behind(list, SyncItems(s), PacketItems)
      BY <1>19 DEF EmptiesFirst, list
    <3> QED
      BY <1>5, <1>7, <1>8, <3>1, <3>2, <3>3, InsertBehind
  <2> QED
    BY <1>14, <2>1, <2>2 DEF EmptiesFirst
<1> QED
  BY <1>2, <1>8, <1>10, <1>11, <1>13, <1>15, <1>16, <1>18, <1>19, ThreadKeeps

\* A thread puts the synchronize message back, with a reference of its own.
LEMMA PutBackKeeps ==
  ASSUME IInv, NEW q \in Players, PutBack(q)
  PROVE  IInv'
<1>1. Types /\ Sized /\ Hands /\ Handlers /\ Meetings
  BY DEF IInv
<1>2. PICK s \in Syncs : /\ s = SyncOf(item[q]) /\ item[q].message = SyncMessage(s)
                         /\ IsSync(item[q].message) /\ Has(q, s)
  BY <1>1, HandIs DEF PutBack
<1> DEFINE list == queue[q].list
           it == Item(SyncMessage(s), 1)
           new == Put(queue[q], it)
<1>3. /\ pc[q] = "putBack"
      /\ queue' = [queue EXCEPT ![q] = new]
      /\ sync' = [sync EXCEPT ![s].refs = @ + 1]
      /\ pc' = [pc EXCEPT ![q] = "release"]
      /\ UNCHANGED <<item, ask, m_packets, todo, m_bStop, waited, now>>
  BY <1>2 DEF PutBack, counters
<1>4. /\ it.priority = 1 /\ it.message = SyncMessage(s)
      /\ ~IsPacket(it) /\ ~IsFlush(it) /\ \A m : IsStale(m)' => m # it.message
      /\ \A m : it.message = SyncMessage(m) <=> m = s
  BY <1>2 DEF Items, Item, IsPacket, IsFlush, IsStale, SyncMessage, Message, Messages
<1>4a. it \in Items
  BY <1>2 DEF Items, Item, SyncMessage, Message, Messages
<1> HIDE DEF it
<1>5. /\ GoodQueue(new) /\ new.list = Insert(list, it)
      /\ new.m_bInitialized = queue[q].m_bInitialized
  BY <1>1, <1>4a, PutIs
<1>6. /\ list \in Seq(Items) /\ Sorted(list)
      /\ Insert(list, it) \in Seq(Items)
      /\ Elements(Insert(list, it)) = Elements(list) \cup {it}
      /\ \A S : Cardinality(Places(Insert(list, it), S)) =
                  Cardinality(Places(list, S)) + IF it \in S THEN 1 ELSE 0
  BY <1>1, <1>4a, TypeFacts, InsertElements
<1> HIDE DEF new
<1>7. /\ queue' \in [Players -> QueueSet] /\ Sized' /\ queue'[q].list = Insert(list, it)
      /\ \A r \in Players : Sorted(queue'[r].list)
      /\ \A r \in Players \ {q} : queue'[r] = queue[r]
      /\ IsOpen(q)' <=> IsOpen(q)
  BY <1>1, <1>3, <1>5, QueueChanges DEF IsOpen
<1> HIDE DEF list
<1>8. /\ pc \in [Players -> Positions] /\ pc' \in [Players -> Positions]
      /\ pc'[q] = "release" /\ \A r \in Players \ {q} : pc'[r] = pc[r]
  BY <1>1, <1>3 DEF Types, Positions
<1>9. /\ sync' \in [Syncs -> SyncSet] /\ SameMarks(s) /\ sync'[s].refs = sync[s].refs + 1
      /\ \A m \in Syncs \ {s} : sync'[m] = sync[m]
  <2>1. sync \in [Syncs -> SyncSet]
    BY <1>1 DEF Types
  <2> QED
    BY <1>3, <2>1 DEF SyncSet, SameMarks
<1>10. \A m \in Syncs : sync'[m].reached = sync[m].reached
  BY <1>9 DEF SameMarks
<1>11. Types'
  BY <1>1, <1>3, <1>7, <1>8, <1>9 DEF Types
<1>12. Apart(q) /\ Hands'
  <2>1. Apart(q)
    BY <1>3, <1>7, <1>8 DEF Apart
  <2>2. Hands'
    BY <1>1, <1>2, <1>3, <1>8 DEF Hands
  <2> QED
    BY <2>1, <2>2
<1>13. /\ \A m : IsStale(m)' <=> IsStale(m)
       /\ Left' = Left /\ (Flushing(q)' <=> Flushing(q)) /\ todo' = todo
       /\ \A r \in Players : IsOpen(r)' <=> IsOpen(r)
       /\ \A m : (Waits(m)' <=> Waits(m)) /\ Owned(m)' = Owned(m)
       /\ \A r \in Players, m \in Syncs : Puts(r, m)' <=> Puts(r, m)
       /\ \A r \in Players : Flushing(r)' <=> Flushing(r)
       /\ \A r \in Players \ {q} : \A m : Count(r, m)' = Count(r, m) /\ (Has(r, m)' <=> Has(r, m))
  BY <1>12, ApartIs DEF Apart
<1>14. Handlers'
  BY <1>1, <1>13 DEF Handlers
<1>15. ASSUME NEW m \in Syncs
       PROVE  /\ Count(q, m)' = Count(q, m) + IF m = s THEN 1 ELSE 0
              /\ InList(queue[q].list, m)' <=> m = s \/ InList(queue[q].list, m)
              /\ Has(q, m)' <=> Has(q, m)
              /\ Count(q, m) \in Nat
  <2>1. Entries(queue[q], SyncMessage(m)) = Cardinality(Places(list, SyncItems(m)))
    BY <1>6, EntriesAre DEF list
  <2>2. Entries(queue'[q], SyncMessage(m)) = Cardinality(Places(Insert(list, it), SyncItems(m)))
    BY <1>6, <1>7, EntriesAre
  <2>3. it \in SyncItems(m) <=> m = s
    BY <1>4, <1>4a DEF SyncItems
  <2>4. /\ Cardinality(Places(Insert(list, it), SyncItems(m))) =
             Cardinality(Places(list, SyncItems(m))) + IF m = s THEN 1 ELSE 0
        /\ Cardinality(Places(list, SyncItems(m))) \in Nat
    BY <1>6, <2>3, PlacesFinite
  <2>5. Held(q, m)' = Held(q, m) /\ Held(q, m) \in {0, 1}
    BY <1>3 DEF Held
  <2>6. Count(q, m)' = Count(q, m) + IF m = s THEN 1 ELSE 0
    BY <2>1, <2>2, <2>4, <2>5 DEF Count
  <2>7. InList(queue[q].list, m)' <=> m = s \/ InList(queue[q].list, m)
    BY <1>4, <1>6, <1>7 DEF InList, list
  <2>8. Has(q, m)' <=> Has(q, m)
    BY <1>2, <1>3, <2>7 DEF Has
  <2> QED
    BY <1>1, <2>6, <2>7, <2>8, CountFacts
<1>16. ASSUME NEW m \in Syncs \ {s}
       PROVE  Meets(m)'
  <2>1. ASSUME NEW r \in Players
        PROVE  /\ Count(r, m)' = Count(r, m)
               /\ Puts(r, m)' => Puts(r, m)
               /\ IsOpen(r)' /\ Puts(r, m)' => IsOpen(r)
               /\ pc'[r] = "release" /\ InList(queue[r].list, m) => InList(queue[r].list, m)'
               /\ Goes(r, m)
    <3>1. CASE r = q
      <4>1. Count(r, m)' = Count(r, m) /\ (InList(queue[r].list, m)' <=> InList(queue[r].list, m))
        BY <1>15, <3>1
      <4>2. Goes(r, m)
        <5>1. item'[r].message.id = s /\ SyncMessage(m).id = m
          BY <1>2, <1>3, <3>1 DEF SyncMessage, Message
        <5> QED
          BY <5>1 DEF Goes
      <4> QED
        BY <1>13, <4>1, <4>2
    <3>2. CASE r # q
      <4>1. queue'[r] = queue[r] /\ Goes(r, m)
        BY <1>3, <1>7, <1>8, <3>2 DEF Goes
      <4> QED
        BY <1>13, <3>2, <4>1
    <3> QED
      BY <3>1, <3>2
  <2>2. sync'[m] = sync[m] /\ Meets(m) /\ Owned(m)' = Owned(m) /\ (Waits(m)' <=> Waits(m))
    BY <1>1, <1>9, <1>13 DEF Meetings
  <2> QED
    BY <1>1, <1>11, <1>14, <2>1, <2>2, SameKeeps
<1>17. Meets(s)'
  <2>1. Meets(s) /\ sync[s].refs = Total(s) /\ sync[s].refs \in Nat
    BY <1>1, TypeFacts DEF Meetings, Meets, CountsFor
  <2>2. Total(s)' = sync'[s].refs /\ sync'[s].refs # 0
    <3>1. Audio \in Players /\ Video \in Players /\ Audio # Video
      BY PlayerAssumption DEF Players
    <3>2. /\ q = Audio => Count(Audio, s)' = Count(Audio, s) + 1 /\ Count(Video, s)' = Count(Video, s)
          /\ q = Video => Count(Video, s)' = Count(Video, s) + 1 /\ Count(Audio, s)' = Count(Audio, s)
      BY <1>13, <1>15, <3>1
    <3>3. /\ Count(Audio, s) \in Nat /\ Count(Video, s) \in Nat
          /\ Owned(s)' = Owned(s) /\ Owned(s) \in {0, 1}
      BY <1>1, <1>13, <3>1, CountFacts
    <3>4. q = Audio \/ q = Video
      BY DEF Players
    <3>5. Total(s)' = Total(s) + 1
      BY <3>2, <3>3, <3>4 DEF Total
    <3> QED
      BY <1>9, <2>1, <3>5
  <2>3. ASSUME NEW r \in Players
        PROVE  /\ Puts(r, s)' => Puts(r, s)
               /\ Involved(r, s)' => Involved(r, s)
               /\ Has(r, s) => Has(r, s)'
               /\ InList(queue[r].list, s) => InList(queue[r].list, s)'
               /\ Goes(r, s)
    <3>1. Has(r, s)' <=> Has(r, s)
      BY <1>13, <1>15
    <3>2. Involved(r, s)' => Involved(r, s)
      BY <1>13, <3>1 DEF Involved
    <3>3. CASE r = q
      BY <1>2, <1>3, <1>8, <1>13, <1>15, <3>1, <3>2, <3>3 DEF Goes
    <3>4. CASE r # q
      BY <1>3, <1>7, <1>8, <1>13, <3>1, <3>2, <3>4 DEF Goes
    <3> QED
      BY <3>3, <3>4
  <2>4. Neutral(s)
    BY <1>9, <1>13, <2>2, <2>3 DEF Neutral
  <2> QED
    BY <1>11, <1>14, <2>1, <2>4, NeutralKeeps
<1>18. Meetings'
  BY <1>16, <1>17 DEF Meetings
<1>19. ASSUME Clean(q)
       PROVE  Clean(q)'
  <2>1. \A x \in Elements(list) \cup {it} : ~IsStale(x.message)'
    BY <1>4, <1>13, <1>19 DEF Clean, NoStale, list
  <2> QED
    BY <1>3, <1>6, <1>7, <1>13, <1>19, <2>1 DEF Clean, NoStale
<1>20. ASSUME Emptied(q)
       PROVE  Emptied(q)'
  BY <1>3, <1>4, <1>6, <1>7, <1>20 DEF Emptied, NoPacket, list
<1>21. ASSUME NEW m \in Syncs
       PROVE  Given(q, m) => Given(q, m)'
  BY <1>10, <1>13, <1>15 DEF Given
<1>22. ASSUME NEW m \in Syncs, FlushFirst(q, m)
       PROVE  FlushFirst(q, m)'
  <2>1. /\ FlushPut(q) \in Left => ~Has(q, m)' /\ q \notin sync'[m].reached
        /\ Given(q, m)'
        /\ item'[q].message = SyncMessage(m) \/ q \in sync'[m].reached => Clean(q)'
    BY <1>3, <1>10, <1>15, <1>19, <1>21, <1>22 DEF FlushFirst
  <2>2. Behind(queue'[q].list, SyncItems(m), FlushItems)
    <3>1. it \notin FlushItems /\ \A x \in FlushItems : it.priority <= x.priority
      BY <1>4, ItemFields DEF FlushItems, IsFlush
    <3>2. Behind(list, SyncItems(m), FlushItems)
      BY <1>22 DEF FlushFirst, list
    <3> QED
      BY <1>4, <1>6, <1>7, <1>4a, <3>1, <3>2, InsertBehind
  <2>3. ASSUME ~Flushing(q)
        PROVE  /\ \A y \in Elements(queue'[q].list) : IsStale(y.message)' => y.priority >= 10
               /\ FlushPut(q) \in Left \/ HasFlush(queue'[q].list) \/ IsFlush(item'[q]) \/ Clean(q)'
               /\ ~IsFlush(item'[q])
    <3>1. /\ \A y \in Elements(list) : IsStale(y.message) => y.priority >= 10
          /\ FlushPut(q) \in Left \/ HasFlush(list) \/ IsFlush(item[q]) \/ Clean(q)
      BY <1>22, <2>3 DEF FlushFirst, list
    <3>2. \A y \in Elements(queue'[q].list) : IsStale(y.message)' => y.priority >= 10
      BY <1>4, <1>6, <1>7, <1>13, <3>1
    <3>3. HasFlush(list) => HasFlush(queue'[q].list)
      BY <1>6, <1>7 DEF HasFlush
    <3>4. ~IsFlush(item[q])
      BY <1>2 DEF IsFlush, IsSync
    <3> QED
      BY <1>3, <1>19, <3>1, <3>2, <3>3, <3>4
  <2> QED
    BY <1>13, <2>1, <2>2, <2>3 DEF FlushFirst
<1>23. ASSUME NEW m \in Syncs, EmptiesFirst(q, m)
       PROVE  EmptiesFirst(q, m)'
  <2>1. /\ Given(q, m)' /\ PutCall(q, SyncMessage(m), 1) \notin Left
        /\ item'[q].message = SyncMessage(m) \/ q \in sync'[m].reached => Emptied(q)'
    BY <1>3, <1>10, <1>20, <1>21, <1>23 DEF EmptiesFirst
  <2>2. Behind(queue'[q].list, SyncItems(m), PacketItems)
    <3>1. it \notin PacketItems
      BY <1>4 DEF PacketItems
    <3>2. it \in SyncItems(m) => Elements(list) \cap PacketItems = {}
      <4>1. ASSUME it \in SyncItems(m)
            PROVE  Emptied(q)
        BY <1>2, <1>4, <1>23, <4>1 DEF EmptiesFirst, SyncItems
      <4> QED
        BY <4>1 DEF Emptied, NoPacket, PacketItems, list
    <3>3. Behind(list, SyncItems(m), PacketItems)
      BY <1>23 DEF EmptiesFirst, list
    <3> QED
      BY <1>4, <1>6, <1>7, <1>4a, <3>1, <3>2, <3>3, InsertBehind
  <2> QED
    BY <1>13, <2>1, <2>2 DEF EmptiesFirst
<1> QED
  BY <1>7, <1>10, <1>11, <1>12, <1>18, <1>19, <1>20, <1>22, <1>23, ThreadKeeps

\* A thread releases the synchronize message it has.
LEMMA ReleaseKeeps ==
  ASSUME IInv, NEW q \in Players, Release(q)
  PROVE  IInv'
<1>1. Types /\ Sized /\ Hands /\ Handlers /\ Meetings
  BY DEF IInv
<1>2. PICK s \in Syncs : /\ s = SyncOf(item[q]) /\ item[q].message = SyncMessage(s)
                         /\ IsSync(item[q].message) /\ Has(q, s)
  BY <1>1, HandIs DEF Release
<1>3. /\ pc[q] = "release"
      /\ sync' = [sync EXCEPT ![s] = Drop(@, 1)]
      /\ item' = [item EXCEPT ![q] = Nothing]
      /\ pc' = [pc EXCEPT ![q] = "loop"]
      /\ UNCHANGED <<queue, ask, m_packets, todo, m_bStop, waited, now>>
  BY <1>2 DEF Release, Done, counters
<1>4. /\ pc \in [Players -> Positions] /\ pc' \in [Players -> Positions]
      /\ pc'[q] = "loop" /\ \A r \in Players \ {q} : pc'[r] = pc[r]
      /\ item' \in [Players -> Items] /\ item'[q] = Nothing
      /\ \A r \in Players \ {q} : item'[r] = item[r]
  BY <1>1, <1>3, NothingIs DEF Types, Positions
<1>5. Total(s) \in Nat \ {0} /\ sync[s].refs = Total(s) /\ sync[s] \in SyncSet
  BY <1>1, <1>2, TypeFacts, CountFacts DEF Meetings, Meets, CountsFor
<1>6. /\ sync'[s] = Drop(sync[s], 1) /\ Drop(sync[s], 1) \in SyncSet
      /\ \A m \in Syncs \ {s} : sync'[m] = sync[m]
  <2>1. sync \in [Syncs -> SyncSet]
    BY <1>1 DEF Types
  <2>2. Drop(sync[s], 1) \in SyncSet
    <3>1. Gone \in SyncSet
      BY DEF Gone, NewSync, SyncSet, Everyone
    <3>2. sync[s].refs - 1 \in Nat
      BY <1>5
    <3> QED
      BY <1>5, <3>1, <3>2 DEF Drop, SyncSet
  <2> QED
    BY <1>3, <2>1, <2>2
<1>7. Types'
  <2>1. sync' \in [Syncs -> SyncSet]
    BY <1>1, <1>3, <1>6 DEF Types
  <2> QED
    BY <1>1, <1>3, <1>4, <2>1 DEF Types
<1>8. Apart(q) /\ Hands' /\ Sized'
  <2>1. Apart(q)
    BY <1>3, <1>4 DEF Apart, IsOpen
  <2>2. Hands'
    BY <1>1, <1>4 DEF Hands
  <2>3. Sized'
    BY <1>1, <1>3 DEF Sized
  <2> QED
    BY <2>1, <2>2, <2>3
<1>9. /\ \A m : IsStale(m)' <=> IsStale(m)
      /\ Left' = Left /\ todo' = todo
      /\ \A r \in Players : IsOpen(r)' <=> IsOpen(r)
      /\ \A m : (Waits(m)' <=> Waits(m)) /\ Owned(m)' = Owned(m)
      /\ \A r \in Players, m \in Syncs : Puts(r, m)' <=> Puts(r, m)
      /\ \A r \in Players : Flushing(r)' <=> Flushing(r)
      /\ \A r \in Players \ {q} : \A m : Count(r, m)' = Count(r, m) /\ (Has(r, m)' <=> Has(r, m))
  BY <1>8, ApartIs DEF Apart
<1>10. Handlers'
  BY <1>1, <1>9 DEF Handlers
<1>11. \A m : item'[q].message # SyncMessage(m) /\ (item[q].message = SyncMessage(m) <=> m = s)
  BY <1>2, <1>4, NothingIs, MessagesAre
<1>12. ASSUME NEW m \in Syncs
       PROVE  /\ Count(q, m) = Count(q, m)' + IF m = s THEN 1 ELSE 0
              /\ Count(q, m)' \in Nat
              /\ InList(queue[q].list, m)' <=> InList(queue[q].list, m)
  <2>1. Held(q, m) = (IF m = s THEN 1 ELSE 0) /\ Held(q, m)' = 0
    BY <1>11 DEF Held
  <2>2. Entries(queue[q], SyncMessage(m))' = Entries(queue[q], SyncMessage(m))
    BY <1>3
  <2>3. Entries(queue[q], SyncMessage(m)) \in Nat
    BY <1>1, TypeFacts, EntriesAre
  <2>4. Count(q, m) = Count(q, m)' + IF m = s THEN 1 ELSE 0
    BY <2>1, <2>2, <2>3 DEF Count
  <2>5. InList(queue[q].list, m)' <=> InList(queue[q].list, m)
    BY <1>3
  <2> QED
    BY <1>7, <2>4, <2>5, NextCountFacts
<1>13. ASSUME NEW m \in Syncs \ {s}
       PROVE  Meets(m)'
  <2>1. ASSUME NEW r \in Players
        PROVE  /\ Count(r, m)' = Count(r, m)
               /\ Puts(r, m)' => Puts(r, m)
               /\ IsOpen(r)' /\ Puts(r, m)' => IsOpen(r)
               /\ pc'[r] = "release" /\ InList(queue[r].list, m) => InList(queue[r].list, m)'
               /\ Goes(r, m)
    <3>1. CASE r = q
      <4>1. Count(r, m)' = Count(r, m)
        BY <1>12, <3>1
      <4> QED
        BY <1>4, <1>9, <3>1, <4>1 DEF Goes
    <3>2. CASE r # q
      <4>1. queue'[r] = queue[r] /\ Goes(r, m)
        BY <1>3, <1>4, <3>2 DEF Goes
      <4> QED
        BY <1>9, <3>2, <4>1
    <3> QED
      BY <3>1, <3>2
  <2>2. sync'[m] = sync[m] /\ Meets(m) /\ Owned(m)' = Owned(m) /\ (Waits(m)' <=> Waits(m))
    BY <1>1, <1>6, <1>9 DEF Meetings
  <2> QED
    BY <1>1, <1>7, <1>10, <2>1, <2>2, SameKeeps
<1>14. /\ (SameMarks(s) /\ sync'[s].refs # 0) \/ sync'[s] = Gone
       /\ Total(s)' = sync'[s].refs
  <2>1. Audio \in Players /\ Video \in Players /\ Audio # Video /\ (q = Audio \/ q = Video)
    BY PlayerAssumption DEF Players
  <2>2. /\ q = Audio => Count(Audio, s) = Count(Audio, s)' + 1 /\ Count(Video, s)' = Count(Video, s)
        /\ q = Video => Count(Video, s) = Count(Video, s)' + 1 /\ Count(Audio, s)' = Count(Audio, s)
    BY <1>9, <1>12, <2>1
  <2>3. /\ Count(Audio, s)' \in Nat /\ Count(Video, s)' \in Nat
        /\ Owned(s)' = Owned(s) /\ Owned(s) \in {0, 1}
    BY <1>1, <1>7, <1>9, <2>1, CountFacts, NextCountFacts
  <2>4. Total(s)' = Total(s) - 1
    BY <2>1, <2>2, <2>3 DEF Total
  <2>5. Meets(s)
    BY <1>1 DEF Meetings
  <2> QED
    BY <1>1, <1>6, <1>7, <2>4, <2>5, DropIs
<1>15. Meets(s)'
  <2>1. ASSUME NEW r \in Players
        PROVE  /\ Puts(r, s)' => Puts(r, s)
               /\ Involved(r, s)' => Involved(r, s)
               /\ Has(r, s) => \/ Has(r, s)'
                               \/ /\ pc[r] = "release" /\ item[r].message = SyncMessage(s)
                                  /\ ~InList(queue[r].list, s)
               /\ pc'[r] = "release" /\ InList(queue[r].list, s) => InList(queue[r].list, s)'
               /\ Goes(r, s)
    <3>1. CASE r = q
      <4>1. Has(r, s)' => Has(r, s)
        BY <1>2, <3>1
      <4>2. Involved(r, s)' => Involved(r, s)
        BY <1>9, <4>1 DEF Involved
      <4>3. Has(r, s)' <=> InList(queue[r].list, s)
        BY <1>11, <1>12, <3>1 DEF Has
      <4> QED
        BY <1>2, <1>3, <1>4, <1>9, <3>1, <4>2, <4>3 DEF Goes
    <3>2. CASE r # q
      <4>1. queue'[r] = queue[r] /\ Goes(r, s)
        BY <1>3, <1>4, <3>2 DEF Goes
      <4>2. Involved(r, s)' <=> Involved(r, s)
        BY <1>9, <3>2 DEF Involved
      <4> QED
        BY <1>9, <3>2, <4>1, <4>2
    <3> QED
      BY <3>1, <3>2
  <2>2. Neutral(s)
    BY <1>9, <1>14, <2>1 DEF Neutral
  <2>3. Meets(s)
    BY <1>1 DEF Meetings
  <2> QED
    BY <1>7, <1>10, <2>2, <2>3, NeutralKeeps
<1>16. Meetings'
  BY <1>13, <1>15 DEF Meetings
<1>17. ASSUME NEW m \in Syncs, Waits(m)
       PROVE  sync'[m].reached = sync[m].reached
  <2>1. CASE m = s
    <3>1. SyncCall("release", s) \in Left'
      BY <1>1, <1>9, <1>17, <2>1, CallFields, MessagesAre DEF Waits, Handlers
    <3>2. Total(s)' # 0
      BY <1>7, <3>1, NextCountFacts
    <3> QED
      BY <1>14, <2>1, <3>2 DEF Gone, NewSync, SameMarks
  <2> QED
    BY <1>6, <2>1
<1>18. /\ Clean(q) => Clean(q)'
       /\ Emptied(q) => Emptied(q)'
       /\ ~IsFlush(item[q]) /\ ~IsFlush(item'[q])
  <2>1. ~IsStale(Nothing.message)'
    BY <1>9, NothingIs
  <2>2. NoStale(queue[q].list) => NoStale(queue[q].list)'
    BY <1>3, <1>9 DEF NoStale
  <2>3. Clean(q) => Clean(q)'
    BY <1>3, <1>4, <1>9, <2>1, <2>2 DEF Clean
  <2>4. Emptied(q) => Emptied(q)'
    BY <1>3, <1>4, NothingIs DEF Emptied
  <2>5. ~IsFlush(item[q])
    BY <1>2 DEF IsFlush, IsSync
  <2> QED
    BY <1>4, <2>3, <2>4, <2>5, NothingIs
<1>19. ASSUME NEW m \in Syncs, Waits(m), Given(q, m)
       PROVE  Given(q, m)'
  <2>1. CASE m = s
    <3>1. Meets(s)
      BY <1>1 DEF Meetings
    <3>2. q \in sync[s].sources
      BY <1>19, <2>1, <3>1 DEF Meets, ReachesFor, Everyone
    <3>3. q \in sync[s].reached
      BY <1>2, <1>3, <3>1, <3>2 DEF Meets, ReachesFor
    <3> QED
      BY <1>17, <1>19, <2>1, <3>3 DEF Given
  <2>2. CASE m # s
    <3>1. Has(q, m) => Has(q, m)'
      BY <1>11, <1>12, <2>2 DEF Has
    <3> QED
      BY <1>9, <1>17, <1>19, <3>1 DEF Given
  <2> QED
    BY <2>1, <2>2
<1>20. ASSUME NEW m \in Syncs, Waits(m)
       PROVE  /\ FlushFirst(q, m) => FlushFirst(q, m)'
              /\ EmptiesFirst(q, m) => EmptiesFirst(q, m)'
  <2>1. CASE Given(q, m)
    <3>1. /\ queue'[q].list = queue[q].list
          /\ q \in sync'[m].reached => q \in sync[m].reached \/ item[q].message = SyncMessage(m)
          /\ item'[q].message = SyncMessage(m) => item[q].message = SyncMessage(m)
          /\ Given(q, m) => Given(q, m)'
      BY <1>3, <1>11, <1>17, <1>19, <1>20
    <3> QED
      BY <1>1, <1>8, <1>18, <3>1, ListSame
  <2> QED
    BY <2>1 DEF FlushFirst, EmptiesFirst
<1> QED
  BY <1>7, <1>8, <1>16, <1>17, <1>18, <1>20, ThreadKeeps

LEMMA ThreadStepKeeps ==
  ASSUME IInv, NEW q \in Players, ThreadStep(q) \/ GetTimesOut(q) \/ MeetLate(q)
  PROVE  IInv'
<1>1. CASE \E p \in {0, 1} : Take(q, p)
  BY <1>1, TakeKeeps
<1>2. CASE (\E p \in {0, 1} : WaitForItem(q, p)) \/ GetTimesOut(q) \/ GetAborted(q)
  BY <1>2, GetKeeps
<1>3. CASE HandStep(q)
  BY <1>3, HandKeeps
<1>4. CASE NotMeant(q) \/ MeetRetry(q) \/ Arrive(q) \/ Meet(q) \/ MeetLate(q)
  BY <1>4, WaitStep
<1>5. CASE Recover(q) \/ PutBack(q) \/ Release(q)
  BY <1>5, RecoverKeeps, PutBackKeeps, ReleaseKeeps
<1> QED
  BY <1>1, <1>2, <1>3, <1>4, <1>5 DEF ThreadStep, HandStep

-------------------------------------------------------------------------------
(* The calls of the player's thread *)

\* A call that is no call on a synchronize message itself, and leaves the counts.
LEMMA CallMeets ==
  ASSUME Types, Types', Handlers, Meetings, todo # <<>>, Return,
         Head(todo).call \notin {"wait", "waitOrStop", "release"}, sync' = sync,
         \A q \in Players :
           /\ item'[q] = item[q]
           /\ pc'[q] = pc[q] \/ pc'[q] \in {"loop", "none"}
           /\ IsOpen(q)' => IsOpen(q) \/ Rank(Head(todo)) >= 9
           /\ \A s \in Syncs : /\ Count(q, s)' = Count(q, s)
                               /\ InList(queue[q].list, s) => InList(queue[q].list, s)'
  PROVE  Meetings'
<1>1. /\ Handlers' /\ Head(todo) \in Left /\ Head(todo) \in PlayerCalls
      /\ Left' = Left \ {Head(todo)} /\ Left \subseteq PlayerCalls
      /\ \A c \in Left' : Rank(Head(todo)) < Rank(c)
      /\ Rank(Head(todo)) \in 1 .. 12
  BY Returned, RankIs
<1> SUFFICES ASSUME NEW s \in Syncs
             PROVE  Meets(s)'
  BY DEF Meetings
<1>2. Owned(s)' = Owned(s) /\ (Waits(s)' <=> Waits(s))
  BY <1>1, CallFields DEF Owned, Waits
<1>3. ASSUME NEW q \in Players
      PROVE  /\ Puts(q, s)' => Puts(q, s)
             /\ IsOpen(q)' /\ Puts(q, s)' => IsOpen(q)
             /\ Goes(q, s)
  <2>1. Puts(q, s)' => Puts(q, s)
    BY <1>1 DEF Puts
  <2>2. Puts(q, s)' => Rank(Head(todo)) < 6
    <3> SUFFICES ASSUME NEW p \in {0, 1}, PutCall(q, SyncMessage(s), p) \in Left'
                 PROVE  Rank(Head(todo)) < 6
      BY DEF Puts
    <3>1. Rank(PutCall(q, SyncMessage(s), p)) \in {5, 6}
      BY NamedCalls
    <3> QED
      BY <1>1, <3>1
  <2>3. Goes(q, s)
    BY DEF Goes
  <2> QED
    BY <1>1, <2>1, <2>2, <2>3
<1>4. Meets(s) /\ sync'[s] = sync[s]
  BY DEF Meetings
<1> QED
  BY <1>1, <1>2, <1>3, <1>4, SameKeeps

\* The calls that come after those for a Wait of the player.
LEMMA LateCall ==
  ASSUME IInv, todo # <<>>, Return, Rank(Head(todo)) >= 8, waited' = waited,
         Head(todo).call = "release" => UNCHANGED <<queue, item, m_packets, now>>
  PROVE  /\ Settles' /\ HasSettled' /\ Handlers' /\ todo' \in Seq(PlayerCalls)
         /\ \A s \in Syncs : /\ ~Waits(s) /\ ~Waits(s)'
                             /\ \A q \in Players : ~Puts(q, s) /\ ~Puts(q, s)'
         /\ Head(todo) \in Left /\ Left' = Left \ {Head(todo)}
         /\ \A c \in Left' : Rank(Head(todo)) < Rank(c)
<1>1. Types /\ Handlers /\ HasSettled
  BY DEF IInv
<1>2. /\ Handlers' /\ Head(todo) \in Left /\ Head(todo) \in PlayerCalls /\ todo' \in Seq(PlayerCalls)
      /\ Left' = Left \ {Head(todo)} /\ Left \subseteq PlayerCalls
      /\ \A c \in Left' : Rank(Head(todo)) < Rank(c)
      /\ Rank(Head(todo)) \in 1 .. 12
  BY <1>1, Returned, RankIs
<1>3. \A c \in Left : Rank(c) \in 1 .. 12 /\ Rank(c) >= 8
  BY <1>2, RankIs
<1>4. ASSUME NEW s \in Syncs
      PROVE  /\ ~Waits(s) /\ ~Waits(s)'
             /\ \A q \in Players : ~Puts(q, s) /\ ~Puts(q, s)'
  <2>1. ~Waits(s) /\ ~Waits(s)'
    BY <1>2, <1>3, NamedCalls DEF Waits
  <2>2. ASSUME NEW q \in Players
        PROVE  ~Puts(q, s) /\ ~Puts(q, s)'
    <3>1. \A p \in {0, 1} : Rank(PutCall(q, SyncMessage(s), p)) \in {5, 6}
      BY NamedCalls
    <3>2. \A p \in {0, 1} : PutCall(q, SyncMessage(s), p) \notin Left
      BY <1>3, <3>1
    <3> QED
      BY <1>2, <3>2 DEF Puts
  <2> QED
    BY <2>1, <2>2
<1>5. Settles'
  BY <1>4 DEF Settles, Waits
<1>6. HasSettled'
  <2>1. CASE Head(todo).call = "release"
    <3>1. queue' = queue /\ item' = item /\ m_packets' = m_packets /\ now' = now
      BY <2>1
    <3>2. \A q \in Players : /\ Clean(q)' <=> Clean(q)
                             /\ Emptied(q)' <=> Emptied(q)
                             /\ IsOpen(q)' <=> IsOpen(q)
      BY <3>1 DEF Clean, NoStale, IsStale, Emptied, IsOpen
    <3> QED
      BY <1>1, <1>2, <3>2 DEF HasSettled
  <2>2. CASE Head(todo).call # "release"
    <3>1. waited # "flushed"
      BY <1>1, <1>2, <2>2 DEF HasSettled
    <3>2. Rank(Head(todo)) >= 9
      BY <1>2, <2>2, CallIs, RankIs DEF ThreadCalls
    <3>3. \A q \in Players : OwnCall("abort", q) \notin Left'
      BY <1>2, <3>2, NamedCalls
    <3> QED
      BY <3>1, <3>3 DEF HasSettled
  <2> QED
    BY <2>1, <2>2
<1> QED
  BY <1>2, <1>4, <1>5, <1>6

LEMMA DropGood ==
  ASSUME NEW m \in SyncSet, NEW n \in Nat, n <= m.refs
  PROVE  Drop(m, n) \in SyncSet
<1>1. Gone \in SyncSet
  BY DEF Gone, NewSync, SyncSet, Everyone
<1>2. m.refs - n \in Nat
  BY DEF SyncSet
<1> QED
  BY <1>1, <1>2 DEF Drop, SyncSet

LEMMA DoReleaseKeeps ==
  ASSUME IInv, DoRelease
  PROVE  IInv'
<1>1. Types /\ Sized /\ Hands /\ Handlers /\ Lives /\ Meetings
  BY DEF IInv
<1>2. /\ todo # <<>> /\ Head(todo).call = "release" /\ Return
      /\ sync' = [sync EXCEPT ![Head(todo).message.id] = Drop(@, 1)]
      /\ UNCHANGED <<queue, pc, item, ask, m_packets, m_bStop, waited, now>>
  BY DEF DoRelease, Calls, threadVars, counters
<1>3. Rank(Head(todo)) = 8 /\ Head(todo) \in PlayerCalls /\ Head(todo) \in Left
  BY <1>1, <1>2, HeadIs, RankIs
<1>4. PICK s \in Syncs : /\ s = Head(todo).message.id /\ Head(todo) = SyncCall("release", s)
                         /\ Head(todo).message = SyncMessage(s)
  BY <1>2, <1>3, CallIs
<1>5. /\ Settles' /\ HasSettled' /\ Handlers' /\ todo' \in Seq(PlayerCalls)
      /\ \A m \in Syncs : /\ ~Waits(m) /\ ~Waits(m)'
                          /\ \A q \in Players : ~Puts(q, m) /\ ~Puts(q, m)'
      /\ Left' = Left \ {SyncCall("release", s)}
  BY <1>2, <1>3, <1>4, LateCall
<1>6. \A m \in Syncs \ {s} : SyncCall("release", m) \notin Left
  BY <1>1, <1>3, <1>4, OneMessage
<1>7. /\ Total(s) \in Nat \ {0} /\ sync[s].refs = Total(s) /\ sync[s] \in SyncSet
      /\ Owned(s) = 1 /\ Owned(s)' = 0
  <2>1. Owned(s) = 1 /\ Owned(s)' = 0
    BY <1>3, <1>4, <1>5 DEF Owned
  <2> QED
    BY <1>1, <1>3, <1>4, <2>1, TypeFacts, CountFacts DEF Meetings, Meets, CountsFor
<1>8. /\ sync' \in [Syncs -> SyncSet] /\ sync'[s] = Drop(sync[s], 1)
      /\ \A m \in Syncs \ {s} : sync'[m] = sync[m]
  <2>1. sync \in [Syncs -> SyncSet]
    BY <1>1 DEF Types
  <2>2. Drop(sync[s], 1) \in SyncSet
    <3>1. 1 <= sync[s].refs
      BY <1>7
    <3> QED
      BY <1>7, <3>1, DropGood
  <2> QED
    BY <1>2, <1>4, <2>1, <2>2
<1>9. Types' /\ Sized' /\ Hands'
  <2>1. Types'
    BY <1>1, <1>2, <1>5, <1>8 DEF Types
  <2> QED
    BY <1>1, <1>2, <2>1 DEF Sized, Hands
<1>10. Lives'
  <2>1. \A c \in Left : c.call # "release" => c \in Left'
    BY <1>4, <1>5, CallFields
  <2>2. \A r \in Players : IsOpen(r)' <=> IsOpen(r)
    BY <1>2 DEF IsOpen
  <2> QED
    BY <1>1, <1>2, <1>5, <2>1, <2>2, CallFields DEF Lives
<1>11. \A r \in Players, m \in Syncs :
          /\ Count(r, m)' = Count(r, m)
          /\ InList(queue[r].list, m)' <=> InList(queue[r].list, m)
          /\ Has(r, m)' <=> Has(r, m)
          /\ Goes(r, m)
  BY <1>2, CountSame DEF Goes
<1>12. ASSUME NEW m \in Syncs \ {s}
       PROVE  Meets(m)'
  <2>1. Owned(m)' = Owned(m) /\ sync'[m] = sync[m] /\ Meets(m) /\ (Waits(m)' <=> Waits(m))
    BY <1>1, <1>5, <1>6, <1>8 DEF Owned, Meetings
  <2>2. \A q \in Players :
          /\ Count(q, m)' = Count(q, m)
          /\ Puts(q, m)' => Puts(q, m)
          /\ IsOpen(q)' /\ Puts(q, m)' => IsOpen(q)
          /\ pc'[q] = "release" /\ InList(queue[q].list, m) => InList(queue[q].list, m)'
          /\ Goes(q, m)
    BY <1>5, <1>11
  <2> QED
    BY <1>1, <1>5, <1>9, <2>1, <2>2, SameKeeps
<1>13. Meets(s)'
  <2>1. Meets(s)
    BY <1>1 DEF Meetings
  <2>2. Total(s)' = Total(s) - 1
    <3>1. Audio \in Players /\ Video \in Players
      BY DEF Players
    <3>2. /\ Count(Audio, s)' = Count(Audio, s) /\ Count(Video, s)' = Count(Video, s)
          /\ Count(Audio, s) \in Nat /\ Count(Video, s) \in Nat
      BY <1>1, <1>11, <3>1, CountFacts
    <3> QED
      BY <1>7, <3>2 DEF Total
  <2>3. /\ (SameMarks(s) /\ sync'[s].refs # 0) \/ sync'[s] = Gone
        /\ Total(s)' = sync'[s].refs
    BY <1>1, <1>8, <1>9, <2>1, <2>2, DropIs
  <2>4. Neutral(s)
    BY <1>5, <1>11, <2>3 DEF Neutral, Involved
  <2> QED
    BY <1>5, <1>9, <2>1, <2>4, NeutralKeeps
<1> QED
  BY <1>5, <1>9, <1>10, <1>12, <1>13 DEF IInv, Meetings

\* End releases every message that is left in the list.
LEMMA DoEndKeeps ==
  ASSUME IInv, DoEnd
  PROVE  IInv'
<1>1. Types /\ Sized /\ Hands /\ Handlers /\ Lives /\ Meetings
  BY DEF IInv
<1>2. PICK q \in Players :
        /\ todo # <<>> /\ Head(todo) = OwnCall("end", q) /\ Return
        /\ Rank(Head(todo)) = 11 /\ Head(todo) \in Left
        /\ sync' = [s \in Syncs |-> Drop(sync[s], Entries(queue[q], SyncMessage(s)))]
        /\ queue' = [queue EXCEPT ![q] = End(queue[q])]
  <2>1. todo # <<>> /\ Head(todo).call = "end" /\ Return
    BY DEF DoEnd, Calls
  <2>2. Head(todo) \in PlayerCalls /\ Head(todo) \in Left
    BY <1>1, <2>1, HeadIs
  <2>3. PICK q \in Players : q = Head(todo).q /\ Head(todo) = OwnCall("end", q)
    BY <2>1, <2>2, CallIs DEF ThreadCalls
  <2>4. Rank(Head(todo)) = 11
    BY <2>1, <2>2, RankIs
  <2> QED
    BY <2>1, <2>2, <2>3, <2>4 DEF DoEnd, SyncMessage
<1>3. UNCHANGED <<pc, item, ask, m_packets, m_bStop, waited, now>>
  BY DEF DoEnd, threadVars, counters
<1>4. /\ Settles' /\ HasSettled' /\ Handlers' /\ todo' \in Seq(PlayerCalls)
      /\ \A m \in Syncs : /\ ~Waits(m) /\ ~Waits(m)'
                          /\ \A r \in Players : ~Puts(r, m) /\ ~Puts(r, m)'
      /\ Left' = Left \ {OwnCall("end", q)}
      /\ \A c \in Left : c = OwnCall("end", q) \/ 11 < Rank(c)
  <2>1. Rank(Head(todo)) >= 8 /\ waited' = waited /\ Head(todo).call # "release"
    BY <1>2, <1>3, CallFields
  <2> QED
    BY <1>1, <1>2, <2>1, LateCall, HeadIs
<1>5. /\ \A r \in Players : /\ OwnCall("join", r) \notin Left /\ OwnCall("init", r) \notin Left
                            /\ OwnCall("create", r) \notin Left /\ OwnCall("end", r) \notin Left'
      /\ \A s \in Syncs : SyncCall("release", s) \notin Left
  <2>1. \A r \in Players : /\ OwnCall("join", r) \notin Left /\ OwnCall("init", r) \notin Left
                           /\ OwnCall("create", r) \notin Left
    BY <1>4, NamedCalls, CallFields
  <2>2. \A r \in Players : OwnCall("end", r) \notin Left'
    BY <1>4, NamedCalls
  <2>3. \A s \in Syncs : SyncCall("release", s) \notin Left
    BY <1>4, NamedCalls, CallFields
  <2> QED
    BY <2>1, <2>2, <2>3
<1>6. pc[q] = "none" /\ item[q] = Nothing
  BY <1>1, <1>2, <1>5 DEF Lives, Hands
<1> DEFINE new == End(queue[q])
<1>7. GoodQueue(new) /\ new.list = <<>> /\ ~new.m_bInitialized
  BY <1>1, QueuesGood, QueueOperations
<1>8. queue' = [queue EXCEPT ![q] = new]
  BY <1>2
<1> HIDE DEF new
<1>9. /\ queue' \in [Players -> QueueSet] /\ Sized' /\ queue'[q] = new
      /\ \A r \in Players : Sorted(queue'[r].list)
      /\ \A r \in Players \ {q} : queue'[r] = queue[r]
  BY <1>1, <1>7, <1>8, QueueChanges
<1>10. ASSUME NEW s \in Syncs
       PROVE  /\ Count(q, s)' = 0 /\ ~Has(q, s)'
              /\ Count(q, s) = Entries(queue[q], SyncMessage(s)) /\ Count(q, s) \in Nat
              /\ \A r \in Players \ {q} : Count(r, s)' = Count(r, s) /\ (Has(r, s)' <=> Has(r, s))
              /\ \A r \in Players : Goes(r, s)
  <2>1. item'[q].message # SyncMessage(s) /\ item[q].message # SyncMessage(s)
    BY <1>3, <1>6, NothingIs
  <2>2. ~InList(queue'[q].list, s)
    BY <1>7, <1>9, EmptyList DEF InList
  <2>3. Entries(queue'[q], SyncMessage(s)) = 0
    <3>1. queue'[q].list \in Seq(Items)
      BY <1>7, <1>9, EmptyList
    <3> QED
      BY <2>2, <3>1, EntriesAre
  <2>4. Count(q, s)' = 0 /\ ~Has(q, s)'
    BY <2>1, <2>2, <2>3 DEF Count, Held, Has
  <2>5. Entries(queue[q], SyncMessage(s)) \in Nat
    BY <1>1, TypeFacts, EntriesAre
  <2>6. Count(q, s) = Entries(queue[q], SyncMessage(s)) /\ Count(q, s) \in Nat
    BY <2>1, <2>5 DEF Count, Held
  <2>7. \A r \in Players \ {q} : Count(r, s)' = Count(r, s) /\ (Has(r, s)' <=> Has(r, s))
    BY <1>3, <1>9, CountSame
  <2>8. \A r \in Players : Goes(r, s)
    BY <1>3 DEF Goes
  <2> QED
    BY <2>4, <2>6, <2>7, <2>8
<1>11. ASSUME NEW s \in Syncs
       PROVE  /\ sync[s] \in SyncSet /\ Meets(s) /\ sync[s].refs = Total(s)
              /\ Total(s)' = Total(s) - Count(q, s) /\ Count(q, s) <= Total(s)
              /\ sync'[s] = Drop(sync[s], Count(q, s)) /\ sync'[s] \in SyncSet
  <2>1. Audio \in Players /\ Video \in Players /\ Audio # Video /\ (q = Audio \/ q = Video)
    BY PlayerAssumption DEF Players
  <2>2. /\ Count(Audio, s) \in Nat /\ Count(Video, s) \in Nat /\ Owned(s) \in {0, 1}
        /\ q = Audio => Count(Audio, s)' = 0 /\ Count(Video, s)' = Count(Video, s)
        /\ q = Video => Count(Video, s)' = 0 /\ Count(Audio, s)' = Count(Audio, s)
    BY <1>1, <1>10, <2>1, CountFacts
  <2>3. Owned(s)' = Owned(s)
    BY <1>4, <1>5 DEF Owned
  <2>4. Total(s)' = Total(s) - Count(q, s) /\ Count(q, s) <= Total(s)
    BY <2>1, <2>2, <2>3 DEF Total
  <2>5. sync[s] \in SyncSet /\ Meets(s) /\ sync[s].refs = Total(s)
    BY <1>1, TypeFacts DEF Meetings, Meets, CountsFor
  <2>6. sync'[s] = Drop(sync[s], Count(q, s))
    BY <1>2, <1>10
  <2> QED
    BY <1>10, <2>4, <2>5, <2>6, DropGood
<1>12. Types' /\ Hands'
  <2>1. sync' \in [Syncs -> SyncSet]
    BY <1>2, <1>11
  <2>2. Types'
    BY <1>1, <1>3, <1>4, <1>9, <2>1 DEF Types
  <2> QED
    BY <1>1, <1>3, <2>2 DEF Hands
<1>13. \A r \in Players : (IsOpen(r)' => IsOpen(r)) /\ (r # q => (IsOpen(r)' <=> IsOpen(r)))
  BY <1>7, <1>9 DEF IsOpen
<1>14. Lives'
  <2>1. \A r \in Players : pc'[r] = pc[r]
    BY <1>3
  <2>2. /\ queue'[q].list = <<>>
        /\ \A r \in Players \ {q} : queue'[r] = queue[r]
    BY <1>7, <1>9
  <2> QED
    BY <1>1, <1>4, <1>5, <1>6, <1>13, <2>1, <2>2 DEF Lives
<1>15. ASSUME NEW s \in Syncs
       PROVE  Meets(s)'
  <2>1. /\ (SameMarks(s) /\ sync'[s].refs # 0) \/ sync'[s] = Gone
        /\ Total(s)' = sync'[s].refs
    BY <1>1, <1>10, <1>11, <1>12, DropIs
  <2>2. Neutral(s)
    BY <1>4, <1>10, <1>13, <2>1 DEF Neutral, Involved
  <2> QED
    BY <1>4, <1>11, <1>12, <2>2, NeutralKeeps
<1> QED
  BY <1>4, <1>9, <1>12, <1>14, <1>15 DEF IInv, Meetings

\* The calls that start and end a queue and its thread, but for End.
LEMMA LifeKeeps ==
  ASSUME IInv, DoInit \/ DoAbort \/ DoCreate \/ DoJoin \/ ClockKept
  PROVE  IInv'
<1>1. Types /\ Sized /\ Hands /\ Handlers /\ Lives /\ Meetings
  BY DEF IInv
<1>2. /\ todo # <<>> /\ Head(todo).call \in {"init", "abort", "create", "join", "clock"} /\ Return
      /\ UNCHANGED <<sync, item, ask, m_bStop, waited, now>>
  BY DEF DoInit, DoAbort, DoCreate, DoJoin, ClockKept, Calls, threadVars, counters
<1>3. /\ Head(todo) \in PlayerCalls /\ Rank(Head(todo)) \in Nat
      /\ Rank(Head(todo)) = CASE Head(todo).call \in {"init", "abort"} -> 9
                              [] Head(todo).call \in {"create", "join"} -> 10
                              [] OTHER -> 12
  BY <1>1, <1>2, HeadIs, RankIs
<1>4. /\ Settles' /\ HasSettled' /\ Handlers' /\ todo' \in Seq(PlayerCalls)
      /\ Head(todo) \in Left /\ Left' = Left \ {Head(todo)}
      /\ \A c \in Left' : Rank(Head(todo)) < Rank(c)
  <2>1. Rank(Head(todo)) >= 8 /\ Head(todo).call # "release"
    BY <1>2, <1>3
  <2> QED
    BY <1>2, <2>1, LateCall
<1>5. Head(todo).call # "clock" =>
        Head(todo).q \in Players /\ Head(todo) = OwnCall(Head(todo).call, Head(todo).q)
  BY <1>2, <1>3, CallIs DEF ThreadCalls
<1>6. /\ queue' \in [Players -> QueueSet] /\ Sized'
      /\ \A r \in Players : /\ Sorted(queue'[r].list) /\ queue'[r].list = queue[r].list
                            /\ IsOpen(r)' <=> IsOpen(r) \/ Head(todo) = OwnCall("init", r)
  <2>1. CASE DoInit
    <3>1. PICK q \in Players : /\ q = Head(todo).q /\ Head(todo) = OwnCall("init", q)
      BY <1>5, <2>1 DEF DoInit, Calls
    <3> DEFINE new == QueueInit(queue[q])
    <3>2. queue' = [queue EXCEPT ![q] = new]
      BY <2>1, <3>1 DEF DoInit
    <3>3. queue[q].list = <<>>
      BY <1>1, <1>4, <3>1 DEF Lives
    <3>4. GoodQueue(new) /\ new.list = queue[q].list /\ new.m_bInitialized
      BY <1>1, <3>3, QueuesGood, QueueOperations
    <3> HIDE DEF new
    <3>5. /\ queue' \in [Players -> QueueSet] /\ Sized' /\ queue'[q] = new
          /\ \A r \in Players : Sorted(queue'[r].list)
          /\ \A r \in Players \ {q} : queue'[r] = queue[r]
      BY <1>1, <3>2, <3>4, QueueChanges
    <3>6. \A r \in Players : Head(todo) = OwnCall("init", r) <=> r = q
      BY <3>1, CallFields
    <3> QED
      BY <3>4, <3>5, <3>6 DEF IsOpen
  <2>2. CASE DoAbort
    <3>1. PICK q \in Players : /\ q = Head(todo).q /\ Head(todo) = OwnCall("abort", q)
      BY <1>5, <2>2 DEF DoAbort, Calls
    <3> DEFINE new == Abort(queue[q])
    <3>2. queue' = [queue EXCEPT ![q] = new]
      BY <2>2, <3>1 DEF DoAbort
    <3>3. /\ GoodQueue(new) /\ new.list = queue[q].list
          /\ new.m_bInitialized = queue[q].m_bInitialized
      BY <1>1, QueuesGood, QueueOperations
    <3> HIDE DEF new
    <3>4. /\ queue' \in [Players -> QueueSet] /\ Sized' /\ queue'[q] = new
          /\ \A r \in Players : Sorted(queue'[r].list)
          /\ \A r \in Players \ {q} : queue'[r] = queue[r]
      BY <1>1, <3>2, <3>3, QueueChanges
    <3>5. \A r \in Players : Head(todo) # OwnCall("init", r)
      BY <3>1, CallFields
    <3> QED
      BY <3>3, <3>4, <3>5 DEF IsOpen
  <2>3. CASE DoCreate \/ DoJoin \/ ClockKept
    <3>1. queue' = queue /\ \A r \in Players : Head(todo) # OwnCall("init", r)
      BY <2>3, CallFields DEF DoCreate, DoJoin, ClockKept, Calls
    <3> QED
      BY <1>1, <3>1, TypeFacts DEF Types, Sized, IsOpen
  <2> QED
    BY <2>1, <2>2, <2>3
<1>7. /\ pc' \in [Players -> Positions]
      /\ m_packets' \in [Players -> Seq(Packets)]
      /\ \A r \in Players : Len(m_packets'[r]) <= MaxConverge
      /\ \A r \in Players :
           \/ pc'[r] = pc[r] /\ Head(todo) \notin {OwnCall("create", r), OwnCall("join", r)}
           \/ pc'[r] = "loop" /\ Head(todo) = OwnCall("create", r)
           \/ pc'[r] = "none" /\ pc[r] = "ended" /\ Head(todo) = OwnCall("join", r)
  <2>1. /\ pc \in [Players -> Positions]
        /\ m_packets \in [Players -> Seq(Packets)]
        /\ \A r \in Players : Len(m_packets[r]) <= MaxConverge
    BY <1>1 DEF Types
  <2>2. CASE DoCreate
    <3>1. PICK q \in Players : /\ q = Head(todo).q /\ Head(todo) = OwnCall("create", q)
      BY <1>5, <2>2 DEF DoCreate, Calls
    <3> DEFINE none == <<>>
    <3>2. none \in Seq(Packets) /\ Len(none) <= MaxConverge
      BY EmptySeq, PlayerAssumption
    <3>3. pc' = [pc EXCEPT ![q] = "loop"] /\ m_packets' = [m_packets EXCEPT ![q] = none]
      BY <2>2, <3>1 DEF DoCreate
    <3> HIDE DEF none
    <3>4. /\ m_packets' \in [Players -> Seq(Packets)]
          /\ \A r \in Players : Len(m_packets'[r]) <= MaxConverge
      BY <2>1, <3>2, <3>3
    <3>5. /\ pc' \in [Players -> Positions] /\ pc'[q] = "loop"
          /\ \A r \in Players \ {q} : pc'[r] = pc[r]
      BY <2>1, <3>3 DEF Positions
    <3>6. \A r \in Players \ {q} : Head(todo) \notin {OwnCall("create", r), OwnCall("join", r)}
      BY <3>1, CallFields
    <3> QED
      BY <3>1, <3>4, <3>5, <3>6
  <2>3. CASE DoJoin
    <3>1. PICK q \in Players : /\ q = Head(todo).q /\ Head(todo) = OwnCall("join", q)
      BY <1>5, <2>3 DEF DoJoin, Calls
    <3>2. pc' = [pc EXCEPT ![q] = "none"] /\ pc[q] = "ended" /\ m_packets' = m_packets
      BY <2>3, <3>1 DEF DoJoin
    <3>3. /\ pc' \in [Players -> Positions] /\ pc'[q] = "none"
          /\ \A r \in Players \ {q} : pc'[r] = pc[r]
      BY <2>1, <3>2 DEF Positions
    <3>4. \A r \in Players \ {q} : Head(todo) \notin {OwnCall("create", r), OwnCall("join", r)}
      BY <3>1, CallFields
    <3> QED
      BY <2>1, <3>1, <3>2, <3>3, <3>4
  <2>4. CASE DoInit \/ DoAbort \/ ClockKept
    <3>1. pc' = pc /\ m_packets' = m_packets
      BY <2>4 DEF DoInit, DoAbort, ClockKept, threadVars
    <3>2. \A r \in Players : Head(todo) \notin {OwnCall("create", r), OwnCall("join", r)}
      BY <2>4, CallFields DEF DoInit, DoAbort, ClockKept, Calls
    <3> QED
      BY <2>1, <3>1, <3>2
  <2> QED
    BY <2>2, <2>3, <2>4
<1>8. Types'
  BY <1>1, <1>2, <1>4, <1>6, <1>7 DEF Types
<1>9. ASSUME NEW r \in Players
      PROVE  /\ pc'[r] \in {"none", "loop", "wait", "ended"} => item'[r] = Nothing
             /\ pc'[r] = "recover" => IsPacket(item'[r])
             /\ pc'[r] \in {"meet", "putBack", "release"} => IsSync(item'[r].message)
  <2>1. CASE pc'[r] = pc[r]
    BY <1>1, <1>2, <2>1 DEF Hands
  <2>2. CASE pc'[r] = "loop" /\ Head(todo) = OwnCall("create", r)
    BY <1>1, <1>2, <1>4, <2>2 DEF Hands, Lives
  <2>3. CASE pc'[r] = "none" /\ pc[r] = "ended"
    BY <1>1, <1>2, <2>3 DEF Hands
  <2> QED
    BY <1>7, <2>1, <2>2, <2>3
<1>10. Hands'
  BY <1>9 DEF Hands
<1>11. Meetings'
  <2>1. \A r \in Players :
          /\ item'[r] = item[r]
          /\ pc'[r] = pc[r] \/ pc'[r] \in {"loop", "none"}
          /\ \A s \in Syncs : /\ Count(r, s)' = Count(r, s)
                              /\ InList(queue[r].list, s) => InList(queue[r].list, s)'
    BY <1>2, <1>6, <1>7, CountSame
  <2>2. \A r \in Players : IsOpen(r)' => IsOpen(r) \/ Rank(Head(todo)) >= 9
    BY <1>3, <1>6
  <2>3. Head(todo).call \notin {"wait", "waitOrStop", "release"} /\ sync' = sync
    BY <1>2
  <2> QED
    BY <1>1, <1>2, <1>8, <2>1, <2>2, <2>3, CallMeets
<1>12. ASSUME NEW r \in Players
       PROVE  /\ ~IsOpen(r)' => queue'[r].list = <<>> /\ pc'[r] = "none"
              /\ OwnCall("init", r) \in Left' => ~IsOpen(r)'
              /\ OwnCall("create", r) \in Left' =>
                   /\ pc'[r] = "none" /\ (OwnCall("init", r) \in Left' \/ IsOpen(r)')
                   /\ OwnCall("end", r) \notin Left'
              /\ OwnCall("end", r) \in Left' => OwnCall("join", r) \in Left' \/ pc'[r] = "none"
  <2>1. ~IsOpen(r)' => queue'[r].list = <<>> /\ pc'[r] = "none"
    <3>1. ASSUME ~IsOpen(r)'
          PROVE  queue'[r].list = <<>> /\ pc[r] = "none" /\ ~IsOpen(r)
      BY <1>1, <1>6, <3>1 DEF Lives
    <3>2. ASSUME ~IsOpen(r), Head(todo) = OwnCall("create", r)
          PROVE  FALSE
      <4>1. OwnCall("init", r) \in Left /\ OwnCall("init", r) # Head(todo)
        BY <1>1, <1>4, <3>2, CallFields DEF Lives
      <4>2. Rank(OwnCall("init", r)) = 9 /\ Rank(OwnCall("create", r)) = 10
        BY NamedCalls
      <4> QED
        BY <1>4, <3>2, <4>1, <4>2
    <3> QED
      BY <1>7, <3>1, <3>2
  <2>2. OwnCall("init", r) \in Left' => ~IsOpen(r)'
    BY <1>1, <1>4, <1>6 DEF Lives
  <2>3. ASSUME OwnCall("create", r) \in Left'
        PROVE  /\ pc'[r] = "none" /\ (OwnCall("init", r) \in Left' \/ IsOpen(r)')
               /\ OwnCall("end", r) \notin Left'
    <3>1. /\ pc[r] = "none" /\ (OwnCall("init", r) \in Left \/ IsOpen(r))
          /\ OwnCall("end", r) \notin Left /\ Head(todo) # OwnCall("create", r)
      BY <1>1, <1>4, <2>3 DEF Lives
    <3> QED
      BY <1>4, <1>6, <1>7, <3>1
  <2>4. ASSUME OwnCall("end", r) \in Left'
        PROVE  OwnCall("join", r) \in Left' \/ pc'[r] = "none"
    <3>1. OwnCall("end", r) \in Left /\ Head(todo) # OwnCall("create", r)
      BY <1>1, <1>4, <2>4 DEF Lives
    <3>2. OwnCall("join", r) \in Left \/ pc[r] = "none"
      BY <1>1, <3>1 DEF Lives
    <3> QED
      BY <1>4, <1>7, <3>1, <3>2
  <2> QED
    BY <2>1, <2>2, <2>3, <2>4
<1>13. Lives'
  BY <1>12 DEF Lives
<1> QED
  BY <1>4, <1>6, <1>8, <1>10, <1>11, <1>13 DEF IInv

\* What is left to show of a call that puts something in the queue of q, or flushes it.
LEMMA QueueCall ==
  ASSUME IInv, Types', Sized', Meetings', todo # <<>>, Return,
         NEW q \in Players, Head(todo).call \in {"put", "flush"}, Head(todo).q = q,
         UNCHANGED <<pc, item, m_packets, waited, now>>,
         \A r \in Players \ {q} : queue'[r] = queue[r],
         IsOpen(q)' <=> IsOpen(q), ~IsOpen(q) => queue'[q].list = <<>>,
         \A s \in Syncs : sync'[s].reached = sync[s].reached,
         Emptied(q) => Emptied(q)',
         \A s \in Syncs :
           IsOpen(q) =>
             /\ SyncCall("waitOrStop", s) \in Left /\ FlushFirst(q, s) => FlushFirst(q, s)'
             /\ SyncCall("wait", s) \in Left /\ EmptiesFirst(q, s) => EmptiesFirst(q, s)'
  PROVE  IInv'
<1>1. Types /\ Sized /\ Hands /\ Handlers /\ Lives /\ Meetings /\ Settles /\ HasSettled
  BY DEF IInv
<1>2. /\ Handlers' /\ Head(todo) \in Left /\ Left' = Left \ {Head(todo)}
  BY <1>1, Returned
<1>3. \A c \in Left : c.call \notin {"put", "flush"} \/ c.q # q => c \in Left'
  BY <1>2
<1>4. /\ \A r \in Players : IsOpen(r)' <=> IsOpen(r)
      /\ \A m : IsStale(m)' <=> IsStale(m)
      /\ Hands'
  BY <1>1 DEF IsOpen, IsStale, Hands
<1>5. \A r \in Players : /\ queue'[r].list = <<>> \/ IsOpen(r)
                         /\ pc'[r] = pc[r]
                         /\ \A name \in ThreadCalls : OwnCall(name, r) \in Left' <=> OwnCall(name, r) \in Left
  <2>1. \A r \in Players, name \in ThreadCalls : OwnCall(name, r) \in Left' <=> OwnCall(name, r) \in Left
    BY <1>2, <1>3, CallFields DEF ThreadCalls
  <2> QED
    BY <1>1, <2>1 DEF Lives
<1>6. Lives'
  BY <1>1, <1>4, <1>5 DEF Lives, ThreadCalls
<1>7. ASSUME NEW r \in Players \ {q}, NEW s \in Syncs
      PROVE  /\ FlushFirst(r, s) => FlushFirst(r, s)'
             /\ EmptiesFirst(r, s) => EmptiesFirst(r, s)'
             /\ Emptied(r) => Emptied(r)'
  <2>1. /\ queue'[r].list = queue[r].list /\ item'[r] = item[r] /\ m_packets'[r] = m_packets[r]
        /\ sync'[s].reached = sync[s].reached
    OBVIOUS
  <2>2. /\ Puts(r, s)' <=> Puts(r, s)
        /\ FlushPut(r) \in Left' <=> FlushPut(r) \in Left
        /\ Flushing(r)' <=> Flushing(r)
        /\ PutCall(r, SyncMessage(s), 1) \in Left' <=> PutCall(r, SyncMessage(s), 1) \in Left
    BY <1>2, <1>3, CallFields DEF Puts, Flushing
  <2>3. /\ Clean(r)' <=> Clean(r)
        /\ Emptied(r)' <=> Emptied(r)
        /\ Has(r, s)' <=> Has(r, s)
        /\ NoStale(queue[r].list)' <=> NoStale(queue[r].list)
    BY <1>4, <2>1 DEF Clean, NoStale, Emptied, Has
  <2>4. Given(r, s)' <=> Given(r, s)
    BY <2>1, <2>2, <2>3 DEF Given
  <2>5. FlushFirst(r, s) => FlushFirst(r, s)'
    BY <1>4, <2>1, <2>2, <2>3, <2>4 DEF FlushFirst
  <2>6. EmptiesFirst(r, s) => EmptiesFirst(r, s)'
    BY <2>1, <2>2, <2>3, <2>4 DEF EmptiesFirst
  <2> QED
    BY <2>3, <2>5, <2>6
<1>8. Settles'
  <2> SUFFICES ASSUME NEW r \in Players, NEW s \in Syncs, IsOpen(r)
               PROVE  /\ SyncCall("waitOrStop", s) \in Left' => FlushFirst(r, s)'
                      /\ SyncCall("wait", s) \in Left' /\ OwnCall("abort", r) \in Left' =>
                           EmptiesFirst(r, s)'
    BY <1>4 DEF Settles
  <2>1. /\ SyncCall("waitOrStop", s) \in Left => FlushFirst(r, s)
        /\ SyncCall("wait", s) \in Left /\ OwnCall("abort", r) \in Left => EmptiesFirst(r, s)
    BY <1>1 DEF Settles
  <2> QED
    BY <1>2, <1>7, <2>1
<1>9. HasSettled'
  <2>1. waited # "flushed" /\ waited' = waited
    BY <1>1, <1>2 DEF HasSettled
  <2>2. \A r \in Players : OwnCall("abort", r) \in Left' => OwnCall("abort", r) \in Left
    BY <1>2
  <2>3. \A r \in Players : Emptied(r) => Emptied(r)'
    <3>1. ASSUME NEW r \in Players \ {q}
          PROVE  Emptied(r) => Emptied(r)'
      BY DEF Emptied
    <3> QED
      BY <3>1
  <2> QED
    BY <1>1, <2>1, <2>2, <2>3 DEF HasSettled
<1> QED
  BY <1>2, <1>4, <1>6, <1>8, <1>9 DEF IInv

LEMMA DoFlushKeeps ==
  ASSUME IInv, DoFlush
  PROVE  IInv'
<1>1. Types /\ Sized /\ Hands /\ Handlers /\ Lives /\ Meetings
  BY DEF IInv
<1>2. PICK q \in Players :
        /\ todo # <<>> /\ Head(todo).call = "flush" /\ Return
        /\ q = Head(todo).q /\ Head(todo) = OwnCall("flush", q) /\ Head(todo) \in Left
        /\ queue' = [queue EXCEPT ![q] = FlushPackets(queue[q])]
  BY <1>1, HeadIs, CallIs DEF DoFlush, Calls
<1>3. UNCHANGED <<sync, pc, item, ask, m_packets, m_bStop, waited, now>>
  BY DEF DoFlush, threadVars, counters
<1>4. /\ Handlers' /\ todo' \in Seq(PlayerCalls) /\ Left' = Left \ {OwnCall("flush", q)}
  BY <1>1, <1>2, Returned
<1> DEFINE list == queue[q].list
           new == FlushPackets(queue[q])
<1>5. /\ GoodQueue(new) /\ new.list = Others(list)
      /\ new.m_bInitialized = queue[q].m_bInitialized
  BY <1>1, QueuesGood, QueueOperations
<1>6. /\ list \in Seq(Items) /\ Others(list) \in Seq(Items)
      /\ Elements(Others(list)) = {x \in Elements(list) : ~IsPacket(x)}
      /\ \A S, T : Behind(list, S, T) => Behind(Others(list), S, T)
      /\ \A S : (\A x \in S : ~IsPacket(x)) =>
           Cardinality(Places(Others(list), S)) = Cardinality(Places(list, S))
  BY <1>1, TypeFacts, OthersElements
<1>7. queue' = [queue EXCEPT ![q] = new]
  BY <1>2
<1> HIDE DEF new
<1>8. /\ queue' \in [Players -> QueueSet] /\ Sized' /\ queue'[q].list = Others(list)
      /\ \A r \in Players : Sorted(queue'[r].list)
      /\ \A r \in Players \ {q} : queue'[r] = queue[r]
      /\ \A r \in Players : IsOpen(r)' <=> IsOpen(r)
  BY <1>1, <1>5, <1>7, QueueChanges DEF IsOpen
<1> HIDE DEF list
<1>9. Types'
  BY <1>1, <1>3, <1>4, <1>8 DEF Types
<1>10. ASSUME NEW s \in Syncs
       PROVE  /\ Count(q, s)' = Count(q, s)
              /\ InList(queue[q].list, s)' <=> InList(queue[q].list, s)
              /\ Has(q, s)' <=> Has(q, s)
  <2>1. \A x \in SyncItems(s) : ~IsPacket(x)
    BY MessagesAre DEF SyncItems, IsPacket, IsSync
  <2>2. Entries(queue[q], SyncMessage(s)) = Cardinality(Places(list, SyncItems(s)))
    BY <1>6, EntriesAre DEF list
  <2>3. Entries(queue'[q], SyncMessage(s)) = Cardinality(Places(Others(list), SyncItems(s)))
    BY <1>6, <1>8, EntriesAre
  <2>4. Count(q, s)' = Count(q, s)
    BY <1>3, <1>6, <2>1, <2>2, <2>3 DEF Count, Held
  <2>5. \A x : x.message = SyncMessage(s) => ~IsPacket(x)
    BY MessagesAre DEF IsPacket, IsSync
  <2>6. InList(queue[q].list, s)' <=> InList(queue[q].list, s)
    BY <1>6, <1>8, <2>5 DEF InList, list
  <2> QED
    BY <1>3, <2>4, <2>6 DEF Has
<1>11. Meetings'
  <2>1. ASSUME NEW r \in Players \ {q}, NEW s \in Syncs
        PROVE  Count(r, s)' = Count(r, s) /\ (InList(queue[r].list, s)' <=> InList(queue[r].list, s))
    BY <1>3, <1>8, CountSame
  <2>2. Head(todo).call \notin {"wait", "waitOrStop", "release"} /\ sync' = sync
    BY <1>2, <1>3
  <2>3. \A r \in Players :
          /\ item'[r] = item[r]
          /\ pc'[r] = pc[r] \/ pc'[r] \in {"loop", "none"}
          /\ IsOpen(r)' => IsOpen(r) \/ Rank(Head(todo)) >= 9
          /\ \A s \in Syncs : /\ Count(r, s)' = Count(r, s)
                              /\ InList(queue[r].list, s) => InList(queue[r].list, s)'
    BY <1>3, <1>8, <1>10, <2>1
  <2> QED
    BY <1>1, <1>2, <1>9, <2>2, <2>3, CallMeets
<1>12. ~IsOpen(q) => queue'[q].list = <<>>
  <2> SUFFICES ASSUME ~IsOpen(q)
               PROVE  queue'[q].list = <<>>
    OBVIOUS
  <2>1. Elements(Others(list)) = {}
    BY <1>1, <1>6, EmptyList DEF Lives, list
  <2>2. \A i \in 1 .. Len(Others(list)) : FALSE
    BY <2>1 DEF Elements
  <2>3. Len(Others(list)) \in Nat
    BY <1>6, LenProperties
  <2>4. Len(Others(list)) = 0
    BY <2>2, <2>3
  <2> QED
    BY <1>6, <1>8, <2>4, EmptySeq
<1>13. /\ NoPacket(queue'[q].list)
       /\ Emptied(q) => Emptied(q)'
       /\ \A x \in Elements(queue'[q].list) : ~IsStale(x.message)'
  BY <1>3, <1>6, <1>8 DEF NoPacket, Emptied, IsPacket, IsStale
<1>14. /\ \A s \in Syncs : Puts(q, s)' <=> Puts(q, s)
       /\ FlushPut(q) \in Left /\ FlushPut(q) \in Left'
       /\ \A s \in Syncs : PutCall(q, SyncMessage(s), 1) \in Left' => PutCall(q, SyncMessage(s), 1) \in Left
  BY <1>1, <1>2, <1>4, CallFields DEF Puts, Handlers, Flushing
<1>15. ASSUME NEW s \in Syncs, FlushFirst(q, s)
       PROVE  FlushFirst(q, s)'
  <2>1. /\ Given(q, s) /\ ~Has(q, s) /\ q \notin sync[s].reached
        /\ Behind(queue[q].list, SyncItems(s), FlushItems)
    BY <1>14, <1>15 DEF FlushFirst
  <2>2. Given(q, s)' /\ ~Has(q, s)' /\ q \notin sync'[s].reached
    BY <1>3, <1>10, <1>14, <2>1 DEF Given
  <2>3. Behind(queue'[q].list, SyncItems(s), FlushItems)
    BY <1>6, <1>8, <2>1 DEF list
  <2>4. NoStale(queue[q].list)'
    BY <1>13 DEF NoStale
  <2> QED
    BY <1>13, <1>14, <2>2, <2>3, <2>4 DEF FlushFirst, Has
<1>16. ASSUME NEW s \in Syncs, EmptiesFirst(q, s)
       PROVE  EmptiesFirst(q, s)'
  <2>1. Given(q, s)' /\ PutCall(q, SyncMessage(s), 1) \notin Left'
    BY <1>3, <1>10, <1>14, <1>16 DEF EmptiesFirst, Given
  <2>2. Behind(queue'[q].list, SyncItems(s), PacketItems)
    BY <1>6, <1>8, <1>16 DEF EmptiesFirst, list
  <2>3. item'[q].message = SyncMessage(s) \/ q \in sync'[s].reached => Emptied(q)'
    BY <1>3, <1>13, <1>16 DEF EmptiesFirst
  <2> QED
    BY <2>1, <2>2, <2>3 DEF EmptiesFirst
<1> QED
  BY <1>2, <1>3, <1>8, <1>9, <1>11, <1>12, <1>13, <1>15, <1>16, QueueCall

\* The message is sent to a player that is closed: nothing comes of it.
LEMMA PutClosed ==
  ASSUME IInv, DoPut, ~IsOpen(Head(todo).q)
  PROVE  IInv'
<1>1. Types /\ Sized /\ Handlers /\ Lives /\ Meetings
  BY DEF IInv
<1>2. PICK q \in Players : /\ todo # <<>> /\ Head(todo).call = "put" /\ Return /\ q = Head(todo).q
  BY <1>1, HeadIs, CallIs DEF DoPut, Calls
<1>3. UNCHANGED <<queue, sync, pc, item, ask, m_packets, m_bStop, waited, now>>
  BY DEF DoPut, threadVars, counters
<1>4. Types' /\ Sized'
  <2>1. todo' \in Seq(PlayerCalls)
    BY <1>1, <1>2, Returned
  <2> QED
    BY <1>1, <1>3, <2>1 DEF Types, Sized
<1>5. Meetings'
  <2>1. Head(todo).call \notin {"wait", "waitOrStop", "release"} /\ sync' = sync
    BY <1>2, <1>3
  <2>2. \A r \in Players :
          /\ item'[r] = item[r]
          /\ pc'[r] = pc[r] \/ pc'[r] \in {"loop", "none"}
          /\ IsOpen(r)' => IsOpen(r) \/ Rank(Head(todo)) >= 9
          /\ \A s \in Syncs : /\ Count(r, s)' = Count(r, s)
                              /\ InList(queue[r].list, s) => InList(queue[r].list, s)'
    BY <1>3, CountSame DEF IsOpen
  <2> QED
    BY <1>1, <1>2, <1>4, <2>1, <2>2, CallMeets
<1>6. queue'[q].list = <<>> /\ (IsOpen(q)' <=> IsOpen(q)) /\ ~IsOpen(q)
  BY <1>1, <1>2, <1>3 DEF Lives, IsOpen
<1>7. Emptied(q) => Emptied(q)'
  BY <1>3 DEF Emptied
<1> QED
  BY <1>2, <1>3, <1>4, <1>5, <1>6, <1>7, QueueCall

\* What the call puts in the queue of q.
Sending(q, it) ==
  /\ IsOpen(q) /\ it \in Items /\ ~IsPacket(it)
  /\ todo # <<>> /\ Return /\ Head(todo) = PutCall(q, it.message, it.priority) /\ Head(todo) \in Left
  /\ UNCHANGED <<pc, item, ask, m_packets, m_bStop, waited, now>>
  /\ queue' \in [Players -> QueueSet] /\ queue'[q].list = Insert(queue[q].list, it)
  /\ \A r \in Players : /\ Sorted(queue'[r].list)
                        /\ r # q => queue'[r] = queue[r]
                        /\ IsOpen(r)' <=> IsOpen(r)
  /\ sync' = IF IsSync(it.message) THEN [sync EXCEPT ![it.message.id].refs = @ + 1] ELSE sync

LEMMA SendingIs ==
  ASSUME IInv, DoPut, IsOpen(Head(todo).q)
  PROVE  Sized' /\ \E q \in Players, it \in Items : q = Head(todo).q /\ Sending(q, it)
<1>1. Types /\ Sized /\ Handlers
  BY DEF IInv
<1>2. /\ todo # <<>> /\ Head(todo).call = "put" /\ Return
      /\ queue' = [queue EXCEPT ![Head(todo).q] = Put(@, Item(Head(todo).message, Head(todo).priority))]
      /\ sync' = IF IsSync(Head(todo).message)
                 THEN [sync EXCEPT ![Head(todo).message.id].refs = @ + 1] ELSE sync
      /\ UNCHANGED <<pc, item, ask, m_packets, m_bStop, waited, now>>
  BY DEF DoPut, Calls, threadVars, counters
<1>3. /\ Head(todo) \in Left /\ Head(todo).q \in Players
      /\ Head(todo) = PutCall(Head(todo).q, Head(todo).message, Head(todo).priority)
      /\ Item(Head(todo).message, Head(todo).priority) \in Items
      /\ Head(todo).message.type # "packet"
  BY <1>1, <1>2, HeadIs, CallIs
<1>4. PICK q \in Players : q = Head(todo).q
  BY <1>3
<1>5. PICK it \in Items : it = Item(Head(todo).message, Head(todo).priority)
  BY <1>3
<1>6. /\ it.message = Head(todo).message /\ it.priority = Head(todo).priority /\ ~IsPacket(it)
  BY <1>3, <1>5 DEF Item, IsPacket
<1> DEFINE new == Put(queue[q], it)
<1>7. queue' = [queue EXCEPT ![q] = new]
  BY <1>2, <1>4, <1>5
<1>8. /\ GoodQueue(new) /\ new.list = Insert(queue[q].list, it)
      /\ new.m_bInitialized = queue[q].m_bInitialized
  BY <1>1, PutIs
<1> HIDE DEF new
<1>9. /\ queue' \in [Players -> QueueSet] /\ Sized' /\ queue'[q].list = Insert(queue[q].list, it)
      /\ \A r \in Players : /\ Sorted(queue'[r].list)
                            /\ r # q => queue'[r] = queue[r]
                            /\ IsOpen(r)' <=> IsOpen(r)
  BY <1>1, <1>7, <1>8, QueueChanges DEF IsOpen
<1>10. Head(todo) = PutCall(q, it.message, it.priority) /\ IsOpen(q)
  BY <1>3, <1>4, <1>6
<1>11. sync' = IF IsSync(it.message) THEN [sync EXCEPT ![it.message.id].refs = @ + 1] ELSE sync
  BY <1>2, <1>6
<1>12. Sending(q, it)
  BY <1>2, <1>3, <1>6, <1>9, <1>10, <1>11 DEF Sending
<1> QED
  BY <1>4, <1>9, <1>12

\* What a list is with an item that is no packet.
LEMMA SendingList ==
  ASSUME Types, Handlers, NEW q \in Players, NEW it, Sending(q, it)
  PROVE  /\ queue'[q].list \in Seq(Items)
         /\ Elements(queue'[q].list) = Elements(queue[q].list) \cup {it}
         /\ \A s \in Syncs :
              /\ Count(q, s)' = Count(q, s) + IF it.message = SyncMessage(s) THEN 1 ELSE 0
              /\ Count(q, s) \in Nat
              /\ InList(queue[q].list, s)' <=> InList(queue[q].list, s) \/ it.message = SyncMessage(s)
              /\ Has(q, s)' <=> Has(q, s) \/ it.message = SyncMessage(s)
<1> DEFINE list == queue[q].list
<1>1. /\ list \in Seq(Items) /\ Sorted(list) /\ it \in Items
      /\ queue'[q].list = Insert(list, it) /\ item' = item
  BY TypeFacts DEF Sending
<1> HIDE DEF list
<1>2. /\ Insert(list, it) \in Seq(Items)
      /\ Elements(Insert(list, it)) = Elements(list) \cup {it}
      /\ \A S : Cardinality(Places(Insert(list, it), S)) =
                  Cardinality(Places(list, S)) + IF it \in S THEN 1 ELSE 0
  BY <1>1, InsertElements
<1>3. ASSUME NEW s \in Syncs
      PROVE  /\ Count(q, s)' = Count(q, s) + IF it.message = SyncMessage(s) THEN 1 ELSE 0
             /\ Count(q, s) \in Nat
             /\ InList(queue[q].list, s)' <=> InList(queue[q].list, s) \/ it.message = SyncMessage(s)
             /\ Has(q, s)' <=> Has(q, s) \/ it.message = SyncMessage(s)
  <2>1. Entries(queue[q], SyncMessage(s)) = Cardinality(Places(list, SyncItems(s)))
    BY <1>1, EntriesAre DEF list
  <2>2. Entries(queue'[q], SyncMessage(s)) = Cardinality(Places(Insert(list, it), SyncItems(s)))
    BY <1>1, <1>2, EntriesAre
  <2>3. it \in SyncItems(s) <=> it.message = SyncMessage(s)
    BY <1>1 DEF SyncItems
  <2>4. /\ Cardinality(Places(Insert(list, it), SyncItems(s))) =
             Cardinality(Places(list, SyncItems(s))) + IF it.message = SyncMessage(s) THEN 1 ELSE 0
        /\ Cardinality(Places(list, SyncItems(s))) \in Nat
    BY <1>1, <1>2, <2>3, PlacesFinite
  <2>5. Held(q, s)' = Held(q, s) /\ Held(q, s) \in {0, 1}
    BY <1>1 DEF Held
  <2>6. Count(q, s)' = Count(q, s) + IF it.message = SyncMessage(s) THEN 1 ELSE 0
    BY <2>1, <2>2, <2>4, <2>5 DEF Count
  <2>7. InList(queue[q].list, s)' <=> InList(queue[q].list, s) \/ it.message = SyncMessage(s)
    BY <1>1, <1>2 DEF InList, list
  <2> QED
    BY <1>1, <2>6, <2>7, CountFacts DEF Has
<1> QED
  BY <1>1, <1>2, <1>3 DEF list

LEMMA SendingMeets ==
  ASSUME Types, Types', Handlers, Meetings, NEW q \in Players, NEW it, Sending(q, it)
  PROVE  Meetings'
<1>1. /\ Handlers' /\ Left' = Left \ {Head(todo)} /\ Head(todo) \in Left
      /\ Head(todo) = PutCall(q, it.message, it.priority) /\ it \in Items
      /\ queue' \in [Players -> QueueSet] /\ item' = item /\ pc' = pc
      /\ \A r \in Players : (IsOpen(r)' <=> IsOpen(r)) /\ (r # q => queue'[r] = queue[r])
  BY Returned DEF Sending
<1>2. ASSUME NEW r \in Players, NEW m \in Syncs
      PROVE  /\ Count(r, m)' = Count(r, m) + IF r = q /\ it.message = SyncMessage(m) THEN 1 ELSE 0
             /\ Count(r, m) \in Nat
             /\ InList(queue[r].list, m) => InList(queue[r].list, m)'
             /\ Has(r, m)' <=> Has(r, m) \/ (r = q /\ it.message = SyncMessage(m))
             /\ Puts(r, m)' => Puts(r, m)
             /\ Goes(r, m)
  <2>1. (Puts(r, m)' => Puts(r, m)) /\ Goes(r, m)
    BY <1>1 DEF Puts, Goes
  <2>2. CASE r = q
    BY <2>1, <2>2, SendingList
  <2>3. CASE r # q
    <3>1. queue'[r].list = queue[r].list /\ item'[r] = item[r]
      BY <1>1, <2>3
    <3>2. /\ Count(r, m)' = Count(r, m) /\ (Has(r, m)' <=> Has(r, m))
          /\ InList(queue[r].list, m)' <=> InList(queue[r].list, m)
      BY <3>1, CountSame
    <3>3. Count(r, m) \in Nat
      BY CountFacts
    <3> QED
      BY <2>1, <2>3, <3>2, <3>3
  <2> QED
    BY <2>2, <2>3
<1>3. ASSUME NEW m \in Syncs
      PROVE  Owned(m)' = Owned(m) /\ (Waits(m)' <=> Waits(m)) /\ Meets(m)
  BY <1>1, CallFields DEF Owned, Waits, Meetings
<1>4. ASSUME NEW m \in Syncs, it.message # SyncMessage(m)
      PROVE  Meets(m)'
  <2>1. sync'[m] = sync[m]
    <3>1. IsSync(it.message) => it.message = SyncMessage(it.message.id)
      BY <1>1, ItemFields, MessagesAre
    <3>2. sync \in [Syncs -> SyncSet]
      BY DEF Types
    <3> QED
      BY <1>4, <3>1, <3>2 DEF Sending
  <2>2. \A r \in Players :
          /\ Count(r, m)' = Count(r, m)
          /\ Puts(r, m)' => Puts(r, m)
          /\ IsOpen(r)' /\ Puts(r, m)' => IsOpen(r)
          /\ pc'[r] = "release" /\ InList(queue[r].list, m) => InList(queue[r].list, m)'
          /\ Goes(r, m)
    BY <1>1, <1>2, <1>4
  <2> QED
    BY <1>1, <1>3, <2>1, <2>2, SameKeeps
<1>5. ASSUME NEW s \in Syncs, it.message = SyncMessage(s)
      PROVE  Meets(s)'
  <2>1. IsSync(it.message) /\ it.message.id = s
    BY <1>5, MessagesAre
  <2>2. SameMarks(s) /\ sync'[s].refs = sync[s].refs + 1
    <3>1. sync \in [Syncs -> SyncSet]
      BY DEF Types
    <3>2. sync' = [sync EXCEPT ![s].refs = @ + 1]
      BY <2>1 DEF Sending
    <3> QED
      BY <3>1, <3>2 DEF SyncSet, SameMarks
  <2>3. Total(s)' = sync'[s].refs /\ sync'[s].refs # 0
    <3>1. Audio \in Players /\ Video \in Players /\ Audio # Video /\ (q = Audio \/ q = Video)
      BY PlayerAssumption DEF Players
    <3>2. /\ q = Audio => Count(Audio, s)' = Count(Audio, s) + 1 /\ Count(Video, s)' = Count(Video, s)
          /\ q = Video => Count(Video, s)' = Count(Video, s) + 1 /\ Count(Audio, s)' = Count(Audio, s)
          /\ Count(Audio, s) \in Nat /\ Count(Video, s) \in Nat
      BY <1>2, <1>5, <3>1
    <3>3. Owned(s)' = Owned(s) /\ Owned(s) \in {0, 1}
      BY <1>3, CountFacts
    <3>4. Total(s)' = Total(s) + 1 /\ Total(s) \in Nat
      BY <3>1, <3>2, <3>3 DEF Total
    <3>5. sync[s].refs = Total(s)
      BY <1>3 DEF Meets, CountsFor
    <3> QED
      BY <2>2, <3>4, <3>5
  <2>4. ASSUME NEW r \in Players
        PROVE  Involved(r, s)' => Involved(r, s)
    <3>1. CASE r = q
      <4>1. Puts(q, s)
        <5>1. it.priority \in {0, 1}
          BY <1>1, <1>5, ItemFields, MessagesAre DEF IsSync
        <5> QED
          BY <1>1, <1>5, <5>1 DEF Puts
      <4> QED
        BY <3>1, <4>1 DEF Involved, Sending
    <3>2. CASE r # q
      BY <1>1, <1>2, <3>2 DEF Involved
    <3> QED
      BY <3>1, <3>2
  <2>5. Neutral(s)
    BY <1>2, <1>3, <2>2, <2>3, <2>4 DEF Neutral
  <2> QED
    BY <1>1, <1>3, <2>5, NeutralKeeps
<1> QED
  BY <1>4, <1>5 DEF Meetings

LEMMA SendingFlush ==
  ASSUME Types, Handlers, NEW q \in Players, NEW it, Sending(q, it), NEW s \in Syncs,
         SyncCall("waitOrStop", s) \in Left, FlushFirst(q, s), sync'[s].reached = sync[s].reached
  PROVE  FlushFirst(q, s)'
<1>1. /\ todo # <<>> /\ Head(todo) = PutCall(q, it.message, it.priority)
      /\ it \in Items /\ ~IsPacket(it) /\ item' = item /\ m_packets' = m_packets /\ now' = now
      /\ queue'[q].list = Insert(queue[q].list, it)
  BY DEF Sending
<1>2. /\ Left' = Left \ {Head(todo)} /\ Head(todo) \in Left /\ Head(todo) \in PlayerCalls
      /\ \A c \in Left : c = Head(todo) \/ Rank(Head(todo)) < Rank(c)
      /\ Rank(Head(todo)) \in Nat
  BY <1>1, Returned, HeadIs DEF Sending
<1>3. /\ Head(todo).call = "put" /\ Head(todo).q = q /\ Head(todo).message = it.message
      /\ ~IsSync(it.message) => Rank(Head(todo)) = IF q = Audio THEN 2 ELSE 4
      /\ IsSync(it.message) => Rank(Head(todo)) = IF q = Audio THEN 5 ELSE 6
      /\ IsFlush(it) => Head(todo) = FlushPut(q)
  BY <1>1, <1>2, CallFields, CallIs, RankIs DEF IsFlush
<1>4. ~Flushing(q)
  <2>1. Rank(OwnCall("flush", q)) = (IF q = Audio THEN 1 ELSE 3) /\ OwnCall("flush", q) # Head(todo)
    BY <1>3, NamedCalls, CallFields
  <2> QED
    BY <1>2, <1>3, <2>1 DEF Flushing
<1>5. IsSync(it.message) => /\ it.message = SyncMessage(s) /\ it.priority <= 1 /\ it.priority \in Nat
                            /\ FlushPut(q) \notin Left
  <2> SUFFICES ASSUME IsSync(it.message)
               PROVE  /\ it.message = SyncMessage(s) /\ it.priority <= 1 /\ it.priority \in Nat
                      /\ FlushPut(q) \notin Left
    OBVIOUS
  <2>1. it.message = SyncMessage(s)
    BY <1>2, <1>3, CallFields, MessagesAre DEF Handlers
  <2>2. Rank(FlushPut(q)) = (IF q = Audio THEN 2 ELSE 4) /\ FlushPut(q) # Head(todo)
    BY <1>3, NamedCalls, CallFields
  <2>3. FlushPut(q) \notin Left
    BY <1>2, <1>3, <2>2
  <2> QED
    BY <1>1, <2>1, <2>3, ItemFields DEF IsSync
<1>6. /\ queue'[q].list \in Seq(Items)
      /\ Elements(queue'[q].list) = Elements(queue[q].list) \cup {it}
      /\ InList(queue[q].list, s)' <=> InList(queue[q].list, s) \/ it.message = SyncMessage(s)
      /\ Has(q, s)' <=> Has(q, s) \/ it.message = SyncMessage(s)
  BY SendingList
<1>7. /\ \A m : IsStale(m)' <=> IsStale(m)
      /\ \A m : m = it.message => ~IsStale(m)'
  BY <1>1 DEF IsStale, IsPacket
<1>8. it.message = SyncMessage(s) <=> IsSync(it.message)
  BY <1>5, MessagesAre
<1>9. NoStale(queue[q].list) => NoStale(queue[q].list)'
  BY <1>6, <1>7 DEF NoStale
<1>10. Clean(q) => Clean(q)'
  BY <1>1, <1>7, <1>9 DEF Clean
<1>11. ~IsSync(it.message) => (Puts(q, s)' <=> Puts(q, s))
  BY <1>2, <1>3, CallFields, MessagesAre DEF Puts
<1>12. Given(q, s)'
  BY <1>6, <1>8, <1>11 DEF FlushFirst, Given
<1>13. FlushPut(q) \in Left' => ~Has(q, s)' /\ q \notin sync'[s].reached
  BY <1>2, <1>5, <1>6, <1>8 DEF FlushFirst
<1>14. Behind(queue'[q].list, SyncItems(s), FlushItems)
  <2>1. /\ queue[q].list \in Seq(Items) /\ Sorted(queue[q].list)
        /\ Behind(queue[q].list, SyncItems(s), FlushItems)
    BY TypeFacts DEF FlushFirst
  <2>2. it \in FlushItems => /\ ~IsSync(it.message)
                             /\ Elements(queue[q].list) \cap SyncItems(s) = {}
    <3> SUFFICES ASSUME it \in FlushItems
                 PROVE  /\ ~IsSync(it.message)
                        /\ Elements(queue[q].list) \cap SyncItems(s) = {}
      OBVIOUS
    <3>1. FlushPut(q) \in Left
      BY <1>2, <1>3 DEF FlushItems, IsFlush
    <3>2. ~InList(queue[q].list, s)
      BY <3>1 DEF FlushFirst, Has
    <3> QED
      BY <3>2 DEF FlushItems, IsSync, InList, SyncItems
  <2>3. it \in SyncItems(s) => IsSync(it.message)
    BY MessagesAre DEF SyncItems
  <2>4. it \in SyncItems(s) => \A x \in Elements(queue[q].list) \cap FlushItems : it.priority <= x.priority
    <3>1. \A x \in FlushItems : x.priority = 1
      BY ItemFields DEF FlushItems
    <3> QED
      BY <1>5, <2>3, <3>1
  <2>5. it \in FlushItems =>
          \A x \in Elements(queue[q].list) \cap SyncItems(s) : x.priority < it.priority
    BY <2>2
  <2>6. it \notin SyncItems(s) \/ it \notin FlushItems
    BY <2>2, <2>3
  <2> QED
    BY <1>1, <2>1, <2>4, <2>5, <2>6, InsertBehind
<1>15. /\ \A x \in Elements(queue'[q].list) : IsStale(x.message)' => x.priority >= 10
       /\ FlushPut(q) \in Left' \/ HasFlush(queue'[q].list) \/ IsFlush(item'[q]) \/ Clean(q)'
       /\ IsFlush(item'[q]) => NoStale(queue[q].list)'
  <2>1. /\ \A x \in Elements(queue[q].list) : IsStale(x.message) => x.priority >= 10
        /\ FlushPut(q) \in Left \/ HasFlush(queue[q].list) \/ IsFlush(item[q]) \/ Clean(q)
        /\ IsFlush(item[q]) => NoStale(queue[q].list)
    BY <1>4 DEF FlushFirst
  <2>2. HasFlush(queue[q].list) => HasFlush(queue'[q].list)
    BY <1>6 DEF HasFlush
  <2>3. FlushPut(q) \in Left => FlushPut(q) \in Left' \/ HasFlush(queue'[q].list)
    <3>1. FlushPut(q) = Head(todo) => IsFlush(it)
      BY <1>3, CallFields DEF IsFlush
    <3> QED
      BY <1>2, <1>6, <3>1 DEF HasFlush
  <2>4. \A x \in Elements(queue'[q].list) : IsStale(x.message)' => x.priority >= 10
    BY <1>6, <1>7, <2>1
  <2> QED
    BY <1>1, <1>9, <1>10, <2>1, <2>2, <2>3, <2>4
<1>16. ASSUME item'[q].message = SyncMessage(s) \/ q \in sync'[s].reached
       PROVE  Clean(q)'
  BY <1>1, <1>10, <1>16 DEF FlushFirst
<1> QED
  BY <1>12, <1>13, <1>14, <1>15, <1>16 DEF FlushFirst

LEMMA SendingEmpties ==
  ASSUME Types, Handlers, NEW q \in Players, NEW it, Sending(q, it), NEW s \in Syncs,
         SyncCall("wait", s) \in Left, EmptiesFirst(q, s), sync'[s].reached = sync[s].reached
  PROVE  EmptiesFirst(q, s)'
<1>1. /\ todo # <<>> /\ Head(todo) = PutCall(q, it.message, it.priority)
      /\ it \in Items /\ ~IsPacket(it) /\ item' = item
      /\ queue'[q].list = Insert(queue[q].list, it)
      /\ Left' = Left \ {Head(todo)} /\ Head(todo) \in Left /\ Head(todo) \in PlayerCalls
  BY Returned DEF Sending
<1>2. IsSync(it.message) => it.message = SyncMessage(s) /\ it.priority = 0
  <2> SUFFICES ASSUME IsSync(it.message)
               PROVE  it.message = SyncMessage(s) /\ it.priority = 0
    OBVIOUS
  <2>1. it.message = SyncMessage(s)
    BY <1>1, CallFields, MessagesAre DEF Handlers
  <2>2. it.priority \in Nat /\ it.priority <= 1 /\ it.priority # 1
    BY <1>1, <2>1, ItemFields, MessagesAre DEF EmptiesFirst, IsSync
  <2> QED
    BY <2>1, <2>2
<1>3. /\ Elements(queue'[q].list) = Elements(queue[q].list) \cup {it}
      /\ Has(q, s)' <=> Has(q, s) \/ it.message = SyncMessage(s)
  BY SendingList
<1>4. ~IsSync(it.message) => (Puts(q, s)' <=> Puts(q, s))
  BY <1>1, CallFields, MessagesAre DEF Puts
<1>5. Given(q, s)' /\ PutCall(q, SyncMessage(s), 1) \notin Left'
  BY <1>1, <1>2, <1>3, <1>4 DEF EmptiesFirst, Given
<1>6. Behind(queue'[q].list, SyncItems(s), PacketItems)
  <2>1. /\ queue[q].list \in Seq(Items) /\ Sorted(queue[q].list)
        /\ Behind(queue[q].list, SyncItems(s), PacketItems)
    BY TypeFacts DEF EmptiesFirst
  <2>2. it \notin PacketItems
    BY <1>1 DEF PacketItems
  <2>3. it \in SyncItems(s) => \A x \in Elements(queue[q].list) \cap PacketItems : it.priority <= x.priority
    <3>1. \A x \in PacketItems : x.priority \in Nat
      BY ItemFields DEF PacketItems
    <3>2. it \in SyncItems(s) => it.priority = 0
      BY <1>2, MessagesAre DEF SyncItems
    <3> QED
      BY <3>1, <3>2
  <2> QED
    BY <1>1, <2>1, <2>2, <2>3, InsertBehind
<1>7. Emptied(q) => Emptied(q)'
  BY <1>1, <1>3 DEF Emptied, NoPacket
<1> QED
  BY <1>1, <1>5, <1>6, <1>7 DEF EmptiesFirst

LEMMA DoPutKeeps ==
  ASSUME IInv, DoPut
  PROVE  IInv'
<1>1. Types /\ Sized /\ Handlers /\ Lives /\ Meetings
  BY DEF IInv
<1> SUFFICES ASSUME IsOpen(Head(todo).q)
             PROVE  IInv'
  BY PutClosed
<1>2. Sized'
  BY SendingIs
<1>3. PICK q \in Players, it \in Items : q = Head(todo).q /\ Sending(q, it)
  BY SendingIs
<1>4. sync' \in [Syncs -> SyncSet] /\ \A s \in Syncs : sync'[s].reached = sync[s].reached
  <2>1. sync \in [Syncs -> SyncSet]
    BY <1>1 DEF Types
  <2>2. CASE IsSync(it.message)
    <3>1. PICK s \in Syncs : s = it.message.id
      BY <2>2, ItemFields DEF IsSync
    <3>2. sync' = [sync EXCEPT ![s].refs = @ + 1]
      BY <1>3, <2>2, <3>1 DEF Sending
    <3> QED
      BY <2>1, <3>2 DEF SyncSet
  <2>3. CASE ~IsSync(it.message)
    BY <1>3, <2>1, <2>3 DEF Sending
  <2> QED
    BY <2>2, <2>3
<1>5. Types'
  <2>1. todo' \in Seq(PlayerCalls)
    BY <1>1, <1>3, Returned DEF Sending
  <2> QED
    BY <1>1, <1>3, <1>4, <2>1 DEF Types, Sending
<1>6. Meetings'
  BY <1>1, <1>3, <1>5, SendingMeets
<1>7. Emptied(q) => Emptied(q)'
  <2>1. Elements(queue'[q].list) = Elements(queue[q].list) \cup {it}
    BY <1>1, <1>3, SendingList
  <2> QED
    BY <1>3, <2>1 DEF Emptied, NoPacket, Sending
<1>8. \A s \in Syncs :
         /\ SyncCall("waitOrStop", s) \in Left /\ FlushFirst(q, s) => FlushFirst(q, s)'
         /\ SyncCall("wait", s) \in Left /\ EmptiesFirst(q, s) => EmptiesFirst(q, s)'
  BY <1>1, <1>3, <1>4, SendingFlush, SendingEmpties
<1>9. /\ todo # <<>> /\ Return /\ Head(todo).call \in {"put", "flush"}
      /\ UNCHANGED <<pc, item, m_packets, waited, now>>
      /\ \A r \in Players \ {q} : queue'[r] = queue[r]
      /\ (IsOpen(q)' <=> IsOpen(q)) /\ IsOpen(q)
  BY <1>3, CallFields DEF Sending
<1> QED
  BY <1>2, <1>3, <1>4, <1>5, <1>6, <1>7, <1>8, <1>9, QueueCall

LEMMA OwnerArrivesKeeps ==
  ASSUME IInv, OwnerArrives
  PROVE  IInv'
<1>1. Types /\ Sized /\ Hands /\ Handlers /\ Lives /\ Meetings /\ Settles /\ HasSettled
  BY DEF IInv
<1>2. /\ UNCHANGED <<queue, pc, item, ask, m_packets, todo, m_bStop, waited, now>>
      /\ sync' = Reach(Head(todo).message.id, Owner)
  BY DEF OwnerArrives, threadVars, counters
<1>3. sync' \in [Syncs -> SyncSet] /\ \A s \in Syncs, q \in Players :
        q \in sync'[s].reached <=> q \in sync[s].reached
  <2>1. sync \in [Syncs -> SyncSet] /\ Owner \in Everyone /\ Owner \notin Players
    BY <1>1, PlayerAssumption DEF Types, Everyone
  <2>2. PICK s \in Syncs : s = Head(todo).message.id
    BY <1>1, WaitingIs DEF OwnerArrives
  <2>3. sync' = [sync EXCEPT ![s].reached = @ \cup {Owner}]
    BY <1>2, <2>2 DEF Reach
  <2> QED
    BY <2>1, <2>3 DEF SyncSet
<1>4. Types' /\ Sized' /\ Hands'
  <2>1. Types'
    BY <1>1, <1>2, <1>3 DEF Types
  <2> QED
    BY <1>1, <1>2, <2>1 DEF Sized, Hands
<1>5. /\ Left' = Left
      /\ \A q \in Players : /\ Clean(q)' <=> Clean(q)
                            /\ Emptied(q)' <=> Emptied(q)
                            /\ IsOpen(q)' <=> IsOpen(q)
                            /\ Flushing(q)' <=> Flushing(q)
                            /\ NoStale(queue[q].list)' <=> NoStale(queue[q].list)
      /\ \A m : IsStale(m)' <=> IsStale(m)
      /\ \A q \in Players, s \in Syncs : /\ Puts(q, s)' <=> Puts(q, s)
                                         /\ Has(q, s)' <=> Has(q, s)
  BY <1>2 DEF Left, Clean, NoStale, IsStale, Emptied, IsOpen, Flushing, Puts, Has
<1>6. Handlers' /\ Lives'
  <2>1. Handlers'
    BY <1>1, <1>2, <1>5 DEF Handlers
  <2>2. Lives'
    BY <1>1, <1>2, <1>5 DEF Lives
  <2> QED
    BY <2>1, <2>2
<1>7. ASSUME NEW q \in Players, NEW s \in Syncs
      PROVE  /\ FlushFirst(q, s) => FlushFirst(q, s)'
             /\ EmptiesFirst(q, s) => EmptiesFirst(q, s)'
  <2>1. queue'[q].list = queue[q].list /\ item'[q] = item[q]
    BY <1>2
  <2>2. Given(q, s)' <=> Given(q, s)
    BY <1>3, <1>5 DEF Given
  <2>3. FlushFirst(q, s) => FlushFirst(q, s)'
    BY <1>3, <1>5, <2>1, <2>2 DEF FlushFirst
  <2>4. EmptiesFirst(q, s) => EmptiesFirst(q, s)'
    BY <1>3, <1>5, <2>1, <2>2 DEF EmptiesFirst
  <2> QED
    BY <2>3, <2>4
<1>8. Settles'
  BY <1>1, <1>5, <1>7 DEF Settles
<1>9. HasSettled'
  BY <1>1, <1>2, <1>5 DEF HasSettled
<1>10. Meetings'
  BY <1>1, <1>4, <1>6, OwnerArrivesMeets
<1> QED
  BY <1>4, <1>6, <1>8, <1>9, <1>10 DEF IInv

\* When the player's Wait finds all there, so is each thread that was given the message.
LEMMA OwnerMeetsAll ==
  ASSUME IInv, OwnerMeets, NEW s \in Syncs, s = Head(todo).message.id, ~sync[s].late,
         NEW q \in Players, Given(q, s)
  PROVE  q \in sync[s].reached
<1>1. Types /\ Handlers /\ Meetings
  BY DEF IInv
<1>2. /\ Waits(s) /\ \A r \in Players : ~Puts(r, s)
  BY <1>1, WaitingIs DEF OwnerMeets
<1>3. Owner \in sync[s].reached /\ Cardinality(sync[s].reached) >= sync[s].refs
  BY DEF OwnerMeets, AllReached
<1>4. Meets(s) /\ sync[s].sources = Everyone /\ ~sync[s].stopped
  BY <1>1, <1>2 DEF Meetings, Meets, ReachesFor
<1> DEFINE there == sync[s].reached \cup {Owner}
<1>5. there = sync[s].reached
  BY <1>3
<1> HIDE DEF there
<1>6. Involved(q, s) /\ q \in sync[s].sources => q \in there
  <2>1. there = sync[s].reached \cup {Owner} /\ Cardinality(there) >= sync[s].refs
    BY <1>3, <1>5 DEF there
  <2> QED
    BY <1>1, <1>3, <1>4, <2>1, AllThere
<1> QED
  BY <1>2, <1>4, <1>5, <1>6 DEF Given, Involved, Everyone

LEMMA OwnerPassesKeeps ==
  ASSUME IInv, OwnerMeets \/ OwnerLate \/ OwnerStops
  PROVE  IInv'
<1>1. Types /\ Sized /\ Hands /\ Handlers /\ Lives /\ Meetings /\ Settles /\ HasSettled
  BY DEF IInv
<1>2. /\ UNCHANGED <<queue, pc, item, ask, m_packets, m_bStop, now>>
      /\ IsWaiting /\ todo # <<>> /\ Return
  BY DEF OwnerMeets, OwnerLate, OwnerStops, IsWaiting, Calls, threadVars, counters
<1>3. PICK s \in Syncs :
        /\ s = Head(todo).message.id /\ Head(todo) = SyncCall(Head(todo).call, s)
        /\ Head(todo) \in Left /\ Waits(s) /\ Rank(Head(todo)) = 7
        /\ \A q \in Players : ~Puts(q, s)
  BY <1>1, <1>2, WaitingIs
<1>4. /\ Left' = Left \ {Head(todo)} /\ todo' \in Seq(PlayerCalls) /\ Left \subseteq PlayerCalls
      /\ \A c \in Left' : 7 < Rank(c)
      /\ Head(todo).call \in {"wait", "waitOrStop"}
  <2>1. Head(todo).call \in {"wait", "waitOrStop"}
    BY <1>2 DEF IsWaiting, Calls
  <2> QED
    BY <1>1, <1>2, <1>3, <2>1, Returned
<1>5. sync' \in [Syncs -> SyncSet]
  <2>1. sync \in [Syncs -> SyncSet]
    BY <1>1 DEF Types
  <2>2. CASE OwnerMeets
    <3>1. sync' = [sync EXCEPT ![s].passed = TRUE]
      BY <1>3, <2>2 DEF OwnerMeets
    <3> QED
      BY <2>1, <3>1 DEF SyncSet
  <2>3. CASE OwnerLate
    <3>1. sync' = [sync EXCEPT ![s].late = TRUE]
      BY <1>3, <2>3 DEF OwnerLate
    <3> QED
      BY <2>1, <3>1 DEF SyncSet
  <2>4. CASE OwnerStops
    <3>1. sync' = [sync EXCEPT ![s].stopped = TRUE]
      BY <1>3, <2>4 DEF OwnerStops
    <3> QED
      BY <2>1, <3>1 DEF SyncSet
  <2> QED
    BY <2>2, <2>3, <2>4
<1>6. \/ waited' = waited
      \/ OwnerMeets /\ ~sync[s].late /\ Calls("wait") /\ waited' = "emptied"
      \/ OwnerMeets /\ ~sync[s].late /\ Calls("waitOrStop") /\ waited' = "flushed"
  <2>1. CASE OwnerMeets
    BY <1>2, <1>3, <2>1 DEF OwnerMeets, IsWaiting
  <2>2. CASE OwnerLate \/ OwnerStops
    BY <2>2 DEF OwnerLate, OwnerStops
  <2> QED
    BY <2>1, <2>2
<1>7. Types' /\ Sized' /\ Hands'
  <2>1. waited' \in {"no", "emptied", "flushed"}
    BY <1>1, <1>6 DEF Types
  <2>2. Types'
    BY <1>1, <1>2, <1>4, <1>5, <2>1 DEF Types
  <2> QED
    BY <1>1, <1>2, <2>2 DEF Sized, Hands
<1>8. Meetings' /\ Handlers' /\ \A m \in Syncs : ~Waits(m)'
  BY <1>1, <1>7, OwnerPassesMeets
<1>9. /\ \A q \in Players : /\ Clean(q)' <=> Clean(q)
                            /\ Emptied(q)' <=> Emptied(q)
                            /\ IsOpen(q)' <=> IsOpen(q)
  BY <1>2 DEF Clean, NoStale, IsStale, Emptied, IsOpen
<1>10. Lives'
  <2>1. \A c \in Left : c.call \in ThreadCalls => c \in Left'
    BY <1>4 DEF ThreadCalls
  <2>2. \A r \in Players, name \in ThreadCalls : OwnCall(name, r) \in Left' <=> OwnCall(name, r) \in Left
    BY <1>4, <2>1, CallFields
  <2> QED
    BY <1>1, <1>2, <1>9, <2>2 DEF Lives, ThreadCalls
<1>11. Settles'
  BY <1>8 DEF Settles, Waits
<1>12. HasSettled'
  <2>1. CASE waited' = waited
    <3>1. waited # "flushed"
      BY <1>1, <1>3, <1>4 DEF HasSettled
    <3> QED
      BY <1>1, <1>4, <1>9, <2>1, <3>1 DEF HasSettled
  <2>2. CASE OwnerMeets /\ ~sync[s].late /\ Calls("wait") /\ waited' = "emptied"
    <3>1. SyncCall("wait", s) \in Left
      BY <1>3, <2>2 DEF Calls
    <3>2. ASSUME NEW q \in Players, OwnCall("abort", q) \in Left'
          PROVE  Emptied(q)
      <4>1. CASE IsOpen(q)
        <5>1. EmptiesFirst(q, s)
          BY <1>1, <1>4, <3>1, <3>2, <4>1 DEF Settles
        <5>2. q \in sync[s].reached
          BY <1>3, <2>2, <5>1, OwnerMeetsAll DEF EmptiesFirst
        <5> QED
          BY <5>1, <5>2 DEF EmptiesFirst
      <4>2. CASE ~IsOpen(q)
        BY <1>1, <4>2, EmptyList, NothingIs DEF Lives, Hands, Emptied, NoPacket
      <4> QED
        BY <4>1, <4>2
    <3> QED
      BY <1>9, <2>2, <3>2 DEF HasSettled
  <2>3. CASE OwnerMeets /\ ~sync[s].late /\ Calls("waitOrStop") /\ waited' = "flushed"
    <3>1. SyncCall("waitOrStop", s) \in Left /\ SyncCall("waitOrStop", s).call = "waitOrStop"
      BY <1>3, <2>3, CallFields DEF Calls
    <3>2. ASSUME NEW c \in Left'
          PROVE  c.call = "release"
      <4>1. c.call \in {"flush", "put", "waitOrStop", "release"} /\ c \in PlayerCalls
        BY <1>1, <1>4, <3>1 DEF Handlers
      <4>2. 7 < Rank(c)
        BY <1>4
      <4>3. /\ c.call = "flush" => Rank(c) = IF c.q = Audio THEN 1 ELSE 3
            /\ c.call = "put" => Rank(c) = IF IsSync(c.message) THEN IF c.q = Audio THEN 5 ELSE 6
                                           ELSE IF c.q = Audio THEN 2 ELSE 4
            /\ c.call \in {"wait", "waitOrStop"} => Rank(c) = 7
        BY <4>1, RankIs
      <4> QED
        BY <4>1, <4>2, <4>3
    <3>3. ASSUME NEW q \in Players, IsOpen(q)
          PROVE  Clean(q)
      <4>1. FlushFirst(q, s)
        BY <1>1, <3>1, <3>3 DEF Settles
      <4>2. q \in sync[s].reached
        BY <1>3, <2>3, <4>1, OwnerMeetsAll DEF FlushFirst
      <4> QED
        BY <4>1, <4>2 DEF FlushFirst
    <3> QED
      BY <1>9, <2>3, <3>2, <3>3 DEF HasSettled
  <2> QED
    BY <1>6, <2>1, <2>2, <2>3
<1> QED
  BY <1>7, <1>8, <1>10, <1>11, <1>12 DEF IInv

-------------------------------------------------------------------------------
(* The handlers of the player's thread, and the clock's new master *)

\* None of the calls is about a synchronize message.
NoSyncs(calls) == \A c \in calls : ~IsSync(c.message)

LEMMA NoSyncsIs ==
  /\ NoSyncs(Left) => \A m : Owned(m) = 0 /\ ~Waits(m) /\ \A q : ~Puts(q, m)
  /\ NoSyncs(Left)' => \A m : Owned(m)' = 0 /\ ~Waits(m)' /\ \A q : ~Puts(q, m)'
<1>1. \A name, m : IsSync(SyncCall(name, m).message)
  BY CallFields, MessagesAre
<1>2. \A q, m, p : IsSync(PutCall(q, SyncMessage(m), p).message)
  BY CallFields, MessagesAre
<1>3. NoSyncs(Left) => \A m : Owned(m) = 0 /\ ~Waits(m) /\ \A q : ~Puts(q, m)
  BY <1>1, <1>2 DEF NoSyncs, Owned, Waits, Puts
<1>4. NoSyncs(Left)' => \A m : Owned(m)' = 0 /\ ~Waits(m)' /\ \A q : ~Puts(q, m)'
  BY <1>1, <1>2 DEF NoSyncs, Owned, Waits, Puts
<1> QED
  BY <1>3, <1>4

LEMMA IdleIs ==
  ASSUME todo = <<>>
  PROVE  Left = {} /\ NoSyncs(Left)
BY ShortCalls DEF Left, NoSyncs

\* Calls about no synchronize message.
LEMMA PlainBegins ==
  ASSUME Types, Types', Handlers', Meetings, NoSyncs(Left), NoSyncs(Left)', sync' = sync,
         \A q \in Players :
           /\ pc'[q] = pc[q] /\ item'[q] = item[q]
           /\ \A m \in Syncs : /\ Count(q, m)' = Count(q, m)
                               /\ InList(queue[q].list, m) => InList(queue[q].list, m)'
  PROVE  Meetings'
<1> SUFFICES ASSUME NEW m \in Syncs
             PROVE  Meets(m)'
  BY DEF Meetings
<1>1. /\ Owned(m)' = Owned(m) /\ (Waits(m)' <=> Waits(m)) /\ sync'[m] = sync[m] /\ Meets(m)
      /\ \A q : ~Puts(q, m)'
  BY NoSyncsIs DEF Meetings
<1>2. \A q \in Players :
        /\ Count(q, m)' = Count(q, m)
        /\ Puts(q, m)' => Puts(q, m)
        /\ IsOpen(q)' /\ Puts(q, m)' => IsOpen(q)
        /\ pc'[q] = "release" /\ InList(queue[q].list, m) => InList(queue[q].list, m)'
        /\ Goes(q, m)
  BY <1>1 DEF Goes
<1> QED
  BY <1>1, <1>2, SameKeeps

\* A new synchronize message is all there is to do with such messages.
LEMMA CreateBegins ==
  ASSUME Types, Types', Handlers', Meetings, NoSyncs(Left), NEW s \in Syncs, NEW sources,
         sources \subseteq Everyone, Create(s, sources), UNCHANGED <<queue, pc, item>>,
         \A c \in Left' : IsSync(c.message) => c.message = SyncMessage(s),
         SyncCall("release", s) \in Left', Waits(s)' => sources = Everyone
  PROVE  Meetings' /\ sync'[s].reached = {} /\ \A q \in Players : ~Has(q, s)'
<1>1. /\ Meets(s)' /\ sync'[s].reached = {}
      /\ \A q \in Players : ~Has(q, s)'
  <2>1. \A q \in Players : queue'[q].list = queue[q].list /\ item'[q] = item[q]
    OBVIOUS
  <2>2. Meets(s)
    BY DEF Meetings
  <2> QED
    BY <2>1, <2>2, CreateKeeps
<1>2. ASSUME NEW m \in Syncs \ {s}
      PROVE  Meets(m)'
  <2>1. \A c \in Left' : c.message # SyncMessage(m)
    BY MessagesAre
  <2>2. /\ Owned(m)' = Owned(m) /\ (Waits(m)' <=> Waits(m)) /\ \A q : ~Puts(q, m)'
    BY <2>1, NoSyncsIs, CallFields DEF Owned, Waits, Puts
  <2>3. sync'[m] = sync[m] /\ Meets(m)
    BY DEF Create, Types, Meetings
  <2>4. \A q \in Players :
          /\ Count(q, m)' = Count(q, m)
          /\ Puts(q, m)' => Puts(q, m)
          /\ IsOpen(q)' /\ Puts(q, m)' => IsOpen(q)
          /\ pc'[q] = "release" /\ InList(queue[q].list, m) => InList(queue[q].list, m)'
          /\ Goes(q, m)
    BY <2>2, CountSame DEF Goes
  <2> QED
    BY <2>2, <2>3, <2>4, SameKeeps
<1> QED
  BY <1>1, <1>2 DEF Meetings

LEMMA CreateGood ==
  ASSUME Types, NEW s, NEW sources, sources \subseteq Everyone, Create(s, sources)
  PROVE  sync' \in [Syncs -> SyncSet]
<1>1. NewSync(sources) \in SyncSet
  BY DEF NewSync, SyncSet, Everyone
<1> QED
  BY <1>1 DEF Create, Types

\* No thread is started or ended.
LEMMA NoThreadCalls ==
  ASSUME IInv, pc' = pc,
         \A q \in Players : /\ IsOpen(q)' <=> IsOpen(q)
                            /\ ~IsOpen(q) => queue'[q].list = queue[q].list,
         \A c \in Left' : c.call \notin {"init", "create", "end"}
  PROVE  Lives'
BY CallFields DEF IInv, Lives

\* What is left to show of a step that changes no queue and no thread.
LEMMA BeginKeeps ==
  ASSUME IInv, UNCHANGED <<queue, pc, item, ask, m_packets, m_bStop>>, now' \in Nat,
         waited' = "no" \/ (waited' = waited /\ waited # "flushed"
                              /\ \A q \in Players : OwnCall("abort", q) \notin Left'),
         todo' \in Seq(PlayerCalls), sync' \in [Syncs -> SyncSet], Handlers', Lives',
         Types' => Meetings' /\ Settles'
  PROVE  IInv'
<1>1. Types /\ Sized /\ Hands
  BY DEF IInv
<1>2. waited' \in {"no", "emptied", "flushed"}
  BY <1>1 DEF Types
<1>3. Types' /\ Sized' /\ Hands'
  <2>1. Types'
    BY <1>1, <1>2 DEF Types
  <2> QED
    BY <1>1, <2>1 DEF Sized, Hands
<1>4. HasSettled'
  BY DEF HasSettled
<1> QED
  BY <1>3, <1>4 DEF IInv

LEMMA ClockChangedKeeps ==
  ASSUME IInv, NEW s, ClockChanged(s)
  PROVE  IInv'
<1>1. Types /\ Handlers /\ HasSettled /\ Meetings
  BY DEF IInv
<1>2. /\ s \in Syncs /\ Create(s, {Audio}) /\ Calls("clock")
      /\ todo' = SynchronizeCalls(s, Open) \o Tail(todo)
      /\ UNCHANGED <<queue, pc, item, ask, m_packets, m_bStop, waited, now>>
  BY DEF ClockChanged, Create, threadVars, counters
<1>3. /\ todo' \in Seq(PlayerCalls) /\ Handlers' /\ Left = {Head(todo)}
      /\ Left' = Sends(s, Open) \cup {SyncCall("release", s)}
  BY <1>1, <1>2, ClockBegins
<1>4. NoSyncs(Left) /\ waited # "flushed"
  <2>1. Head(todo).call = "clock" /\ todo # <<>>
    BY <1>2 DEF Calls
  <2>2. Head(todo) \in PlayerCalls
    BY <1>1, <2>1, HeadIs
  <2> QED
    BY <1>1, <1>3, <2>1, <2>2, CallIs DEF NoSyncs, HasSettled
<1>5. \A c \in Left' : c.message = SyncMessage(s) /\ c.call \in {"put", "release"}
  BY <1>3, CallFields DEF Sends
<1>6. /\ \A q \in Players : OwnCall("abort", q) \notin Left'
      /\ \A m : ~Waits(m)'
  BY <1>5, CallFields DEF Waits
<1>7. {Audio} \subseteq Everyone
  BY DEF Everyone, Players
<1>8. Lives'
  BY <1>2, <1>5, NoThreadCalls DEF IsOpen
<1>9. Types' => Meetings'
  BY <1>1, <1>2, <1>3, <1>4, <1>5, <1>6, <1>7, CreateBegins
<1>10. Settles'
  BY <1>6 DEF Settles, Waits
<1> QED
  BY <1>1, <1>2, <1>3, <1>4, <1>6, <1>7, <1>8, <1>9, <1>10, CreateGood, BeginKeeps DEF Types

LEMMA OpenStreamKeeps ==
  ASSUME IInv, NEW q \in Players, OpenStream(q)
  PROVE  IInv'
<1>1. Types /\ Lives /\ Meetings
  BY DEF IInv
<1>2. /\ todo = <<>> /\ ~IsOpen(q) /\ waited' = "no"
      /\ todo' = <<OwnCall("init", q), OwnCall("create", q), OwnCall("clock", Owner)>>
      /\ UNCHANGED <<queue, sync, pc, item, ask, m_packets, m_bStop, now>>
  BY DEF OpenStream, Idle, Begin, threadVars
<1>3. /\ todo' \in Seq(PlayerCalls) /\ Handlers'
      /\ Left' = {OwnCall("init", q), OwnCall("create", q), OwnCall("clock", Owner)}
  BY <1>2, OpenBegins
<1>4. NoSyncs(Left) /\ NoSyncs(Left)'
  BY <1>2, <1>3, IdleIs, CallFields DEF NoSyncs
<1>5. Lives'
  <2>1. \A r \in Players : IsOpen(r)' <=> IsOpen(r)
    BY <1>2 DEF IsOpen
  <2>2. \A r \in Players : /\ OwnCall("init", r) \in Left' => r = q
                           /\ OwnCall("create", r) \in Left' => r = q
                           /\ OwnCall("end", r) \notin Left'
    BY <1>3, CallFields
  <2> QED
    BY <1>1, <1>2, <1>3, <2>1, <2>2 DEF Lives
<1>6. Types' => Meetings'
  <2>1. \A r \in Players :
          /\ pc'[r] = pc[r] /\ item'[r] = item[r]
          /\ \A m \in Syncs : /\ Count(r, m)' = Count(r, m)
                              /\ InList(queue[r].list, m) => InList(queue[r].list, m)'
    BY <1>2, CountSame
  <2> QED
    BY <1>1, <1>2, <1>3, <1>4, <2>1, PlainBegins
<1>7. Settles'
  BY <1>4, NoSyncsIs DEF Settles, Waits
<1> QED
  BY <1>1, <1>2, <1>3, <1>5, <1>6, <1>7, BeginKeeps DEF Types

LEMMA CloseStreamKeeps ==
  ASSUME IInv, NEW q \in Players, CloseStream(q)
  PROVE  IInv'
<1>1. Types /\ Lives /\ Meetings
  BY DEF IInv
<1>2. /\ todo = <<>> /\ waited' = "no" /\ todo' = CloseCalls(q)
      /\ UNCHANGED <<queue, sync, pc, item, ask, m_packets, m_bStop, now>>
  BY DEF CloseStream, Begin, threadVars
<1>3. /\ todo' \in Seq(PlayerCalls) /\ Handlers'
      /\ Left' = {OwnCall("abort", q), OwnCall("join", q), OwnCall("end", q),
                  OwnCall("clock", Owner)}
  BY <1>2, CloseBegins
<1>4. NoSyncs(Left) /\ NoSyncs(Left)'
  BY <1>2, <1>3, IdleIs, CallFields DEF NoSyncs
<1>5. Lives'
  <2>1. \A r \in Players : IsOpen(r)' <=> IsOpen(r)
    BY <1>2 DEF IsOpen
  <2>2. \A r \in Players : /\ OwnCall("init", r) \notin Left'
                           /\ OwnCall("create", r) \notin Left'
                           /\ OwnCall("end", r) \in Left' => r = q
    BY <1>3, CallFields
  <2> QED
    BY <1>1, <1>2, <1>3, <2>1, <2>2 DEF Lives
<1>6. Types' => Meetings'
  <2>1. \A r \in Players :
          /\ pc'[r] = pc[r] /\ item'[r] = item[r]
          /\ \A m \in Syncs : /\ Count(r, m)' = Count(r, m)
                              /\ InList(queue[r].list, m) => InList(queue[r].list, m)'
    BY <1>2, CountSame
  <2> QED
    BY <1>1, <1>2, <1>3, <1>4, <2>1, PlainBegins
<1>7. Settles'
  BY <1>4, NoSyncsIs DEF Settles, Waits
<1> QED
  BY <1>1, <1>2, <1>3, <1>5, <1>6, <1>7, BeginKeeps DEF Types

\* The handlers that put one message with the one call.
LEMMA PutOneKeeps ==
  ASSUME IInv, NEW q \in Players, ProcessPacket(q) \/ SetSpeed(q)
  PROVE  IInv'
<1>1. Types /\ Sized /\ Hands /\ Handlers /\ Lives /\ Meetings
  BY DEF IInv
<1>2. /\ todo = <<>> /\ waited' = "no" /\ todo' = <<>> /\ IsOpen(q)
      /\ UNCHANGED <<sync, pc, item, ask, m_packets, m_bStop, now>>
  BY DEF ProcessPacket, SetSpeed, Idle, Begin, threadVars
<1>3. PICK it \in Items : /\ queue' = [queue EXCEPT ![q] = Put(queue[q], it)]
                          /\ \A s : it.message # SyncMessage(s)
  <2>1. /\ Item(Message("packet", now), 0) \in Items /\ Item(Message("speed", 0), 1) \in Items
        /\ \A s : /\ Item(Message("packet", now), 0).message # SyncMessage(s)
                  /\ Item(Message("speed", 0), 1).message # SyncMessage(s)
    BY <1>1 DEF Types, Item, Items, Message, Messages, SyncMessage
  <2>2. CASE ProcessPacket(q)
    <3>1. queue' = [queue EXCEPT ![q] = Put(queue[q], Item(Message("packet", now), 0))]
      BY <2>2 DEF ProcessPacket
    <3> QED
      BY <2>1, <3>1
  <2>3. CASE SetSpeed(q)
    <3>1. queue' = [queue EXCEPT ![q] = Put(queue[q], Item(Message("speed", 0), 1))]
      BY <2>3 DEF SetSpeed
    <3> QED
      BY <2>1, <3>1
  <2> QED
    BY <2>2, <2>3
<1> DEFINE new == Put(queue[q], it)
<1>4. /\ GoodQueue(new) /\ new.list = Insert(queue[q].list, it)
      /\ new.m_bInitialized = queue[q].m_bInitialized
  BY <1>1, PutIs
<1>5. queue' = [queue EXCEPT ![q] = new]
  BY <1>3
<1> HIDE DEF new
<1>6. /\ queue' \in [Players -> QueueSet] /\ Sized' /\ queue'[q].list = Insert(queue[q].list, it)
      /\ \A r \in Players : Sorted(queue'[r].list)
      /\ \A r \in Players \ {q} : queue'[r] = queue[r]
      /\ \A r \in Players : IsOpen(r)' <=> IsOpen(r)
  BY <1>1, <1>4, <1>5, QueueChanges DEF IsOpen
<1>7. /\ Left' = {} /\ NoSyncs(Left) /\ NoSyncs(Left)' /\ todo' \in Seq(PlayerCalls) /\ Handlers'
  <2>1. Left = {} /\ NoSyncs(Left) /\ Left' = {}
    BY <1>2, IdleIs, ShortCalls DEF Left
  <2>2. Handlers'
    BY <1>1, <1>2, <2>1 DEF Handlers, Flushing
  <2> QED
    BY <1>1, <1>2, <2>1, <2>2 DEF NoSyncs, Types
<1>8. Types' /\ Hands'
  <2>1. Types'
    BY <1>1, <1>2, <1>6, <1>7 DEF Types
  <2> QED
    BY <1>1, <1>2, <2>1 DEF Hands
<1>9. Lives'
  <2>1. \A r \in Players : ~IsOpen(r) => queue'[r].list = queue[r].list
    BY <1>2, <1>6
  <2> QED
    BY <1>2, <1>6, <1>7, <2>1, NoThreadCalls
<1>10. ASSUME NEW m \in Syncs
       PROVE  /\ Count(q, m)' = Count(q, m)
              /\ InList(queue[q].list, m) => InList(queue[q].list, m)'
  <2>1. /\ queue[q].list \in Seq(Items) /\ Sorted(queue[q].list)
    BY <1>1, TypeFacts
  <2>2. /\ Insert(queue[q].list, it) \in Seq(Items)
        /\ Elements(Insert(queue[q].list, it)) = Elements(queue[q].list) \cup {it}
        /\ \A S : Cardinality(Places(Insert(queue[q].list, it), S)) =
                    Cardinality(Places(queue[q].list, S)) + IF it \in S THEN 1 ELSE 0
    BY <2>1, InsertElements
  <2>3. it \notin SyncItems(m)
    BY <1>3 DEF SyncItems
  <2>4. Cardinality(Places(Insert(queue[q].list, it), SyncItems(m))) =
          Cardinality(Places(queue[q].list, SyncItems(m)))
    BY <2>1, <2>2, <2>3, PlacesFinite
  <2>5. Entries(queue[q], SyncMessage(m)) = Cardinality(Places(queue[q].list, SyncItems(m)))
    BY <2>1, EntriesAre
  <2>6. Entries(queue'[q], SyncMessage(m)) = Cardinality(Places(queue'[q].list, SyncItems(m)))
    BY <1>6, <2>2, EntriesAre
  <2>7. Count(q, m)' = Count(q, m)
    BY <1>2, <1>6, <2>4, <2>5, <2>6 DEF Count, Held
  <2> QED
    BY <1>6, <2>2, <2>7 DEF InList
<1>11. Meetings'
  <2>1. ASSUME NEW r \in Players \ {q}, NEW m \in Syncs
        PROVE  Count(r, m)' = Count(r, m) /\ (InList(queue[r].list, m) => InList(queue[r].list, m)')
    BY <1>2, <1>6, CountSame
  <2>2. \A r \in Players :
          /\ pc'[r] = pc[r] /\ item'[r] = item[r]
          /\ \A m \in Syncs : /\ Count(r, m)' = Count(r, m)
                              /\ InList(queue[r].list, m) => InList(queue[r].list, m)'
    BY <1>2, <1>10, <2>1
  <2> QED
    BY <1>1, <1>2, <1>7, <1>8, <2>2, PlainBegins
<1>12. Settles' /\ HasSettled'
  BY <1>2, <1>7 DEF Settles, HasSettled
<1> QED
  BY <1>6, <1>7, <1>8, <1>9, <1>11, <1>12 DEF IInv

LEMMA FlushQueuedKeeps ==
  ASSUME IInv, NEW s, FlushQueued(s)
  PROVE  IInv'
<1>1. Types /\ Meetings
  BY DEF IInv
<1>2. /\ s \in Syncs /\ Create(s, Everyone) /\ todo = <<>> /\ waited' = "no"
      /\ todo' = <<PutCall(Audio, Message("reset", 0), 0), PutCall(Video, Message("reset", 0), 0)>>
                   \o SynchronizeCalls(s, Open)
      /\ UNCHANGED <<queue, pc, item, ask, m_packets, m_bStop, now>>
  BY DEF FlushQueued, Idle, Begin, Create, Both, Players, threadVars
<1>3. /\ todo' \in Seq(PlayerCalls) /\ Handlers'
      /\ Left' = {PutCall(q, Message("reset", 0), 0) : q \in Players}
                   \cup Sends(s, Open) \cup {SyncCall("release", s)}
  BY <1>2, FlushQueuedBegins
<1>4. \A c \in Left' : /\ c.call \in {"put", "release"}
                       /\ IsSync(c.message) => c.message = SyncMessage(s)
  BY <1>3, CallFields DEF Sends
<1>5. NoSyncs(Left) /\ \A m : ~Waits(m)'
  <2>1. NoSyncs(Left)
    BY <1>2, IdleIs
  <2>2. \A m : SyncCall("wait", m) \notin Left' /\ SyncCall("waitOrStop", m) \notin Left'
    BY <1>4, CallFields
  <2> QED
    BY <2>1, <2>2 DEF Waits
<1>6. Lives'
  BY <1>2, <1>4, NoThreadCalls DEF IsOpen
<1>7. Types' => Meetings'
  BY <1>1, <1>2, <1>3, <1>4, <1>5, CreateBegins
<1>8. Settles'
  BY <1>5 DEF Settles, Waits
<1> QED
  BY <1>1, <1>2, <1>3, <1>6, <1>7, <1>8, CreateGood, BeginKeeps DEF Types

\* A message that is new and that nobody has is not in a queue.
LEMMA NotThere ==
  ASSUME NEW q \in Players, NEW s \in Syncs, ~Has(q, s)'
  PROVE  \A T : Behind(queue'[q].list, SyncItems(s), T)
BY DEF Has, InList, Elements, Behind, SyncItems

\* FlushBuffers, when the player waits for the others.
LEMMA FlushNormalKeeps ==
  ASSUME IInv, NEW s, FlushBuffers(s, TRUE)
  PROVE  IInv'
<1>1. Types /\ Meetings
  BY DEF IInv
<1>2. /\ s \in Syncs /\ Create(s, Everyone) /\ todo = <<>> /\ waited' = "no"
      /\ todo' = <<OwnCall("flush", Audio), FlushPut(Audio)>>
                   \o <<OwnCall("flush", Video), FlushPut(Video)>>
                   \o <<PutCall(Audio, SyncMessage(s), 1), PutCall(Video, SyncMessage(s), 1)>>
                   \o <<SyncCall("waitOrStop", s), SyncCall("release", s)>>
      /\ UNCHANGED <<queue, pc, item, ask, m_packets, m_bStop>> /\ now' = now + 1
  BY DEF FlushBuffers, Idle, Begin, Create, Both, Players, FlushPut, SyncMessage, threadVars
<1>3. /\ todo' \in Seq(PlayerCalls) /\ Handlers'
      /\ Left' = Drops(Audio) \cup Drops(Video)
                   \cup {PutCall(Audio, SyncMessage(s), 1), PutCall(Video, SyncMessage(s), 1),
                         SyncCall("waitOrStop", s), SyncCall("release", s)}
  BY <1>2, FlushBegins
<1>4. \A c \in Left' : /\ c.call \in {"flush", "put", "waitOrStop", "release"}
                       /\ IsSync(c.message) => c.message = SyncMessage(s)
  BY <1>3, CallFields DEF Drops
<1>5. NoSyncs(Left) /\ now' \in Nat
  BY <1>1, <1>2, IdleIs DEF Types
<1>6. Lives'
  BY <1>2, <1>4, NoThreadCalls DEF IsOpen
<1>7. Types' => Meetings' /\ sync'[s].reached = {} /\ \A q \in Players : ~Has(q, s)'
  BY <1>1, <1>2, <1>3, <1>4, <1>5, CreateBegins
<1>8. ASSUME NEW q \in Players, ~Has(q, s)', sync'[s].reached = {}
      PROVE  FlushFirst(q, s)'
  <2>1. Given(q, s)' /\ Flushing(q)' /\ FlushPut(q) \in Left'
    BY <1>3 DEF Given, Puts, Flushing, Drops, Players
  <2>2. Behind(queue'[q].list, SyncItems(s), FlushItems)
    BY <1>2, <1>8, NotThere
  <2>3. item'[q].message # SyncMessage(s)
    BY <1>8 DEF Has
  <2> QED
    BY <1>8, <2>1, <2>2, <2>3 DEF FlushFirst
<1>9. Types' => Settles'
  <2> SUFFICES ASSUME Types', NEW q \in Players, NEW m \in Syncs
               PROVE  /\ SyncCall("waitOrStop", m) \in Left' => FlushFirst(q, m)'
                      /\ SyncCall("wait", m) \notin Left'
    BY DEF Settles
  <2>1. SyncCall("waitOrStop", m) \in Left' => m = s
    BY <1>4, CallFields, MessagesAre
  <2>2. SyncCall("wait", m) \notin Left'
    BY <1>4, CallFields
  <2>3. FlushFirst(q, s)'
    BY <1>7, <1>8
  <2> QED
    BY <2>1, <2>2, <2>3
<1> QED
  BY <1>1, <1>2, <1>3, <1>5, <1>6, <1>7, <1>9, CreateGood, BeginKeeps DEF Types

\* FlushBuffers, when it does not.
LEMMA FlushOtherKeeps ==
  ASSUME IInv, NEW s, FlushBuffers(s, FALSE)
  PROVE  IInv'
<1>1. Types /\ Meetings
  BY DEF IInv
<1>2. /\ todo = <<>> /\ waited' = "no"
      /\ todo' = <<OwnCall("flush", Audio), FlushPut(Audio)>>
                   \o <<OwnCall("flush", Video), FlushPut(Video)>>
      /\ UNCHANGED <<queue, sync, pc, item, ask, m_packets, m_bStop>> /\ now' = now + 1
  BY DEF FlushBuffers, Idle, Begin, FlushPut, threadVars
<1>3. /\ todo' \in Seq(PlayerCalls) /\ Handlers'
      /\ Left' = Drops(Audio) \cup Drops(Video)
  BY <1>2, DropBegins
<1>4. \A c \in Left' : c.call \in {"flush", "put"} /\ ~IsSync(c.message)
  BY <1>3, CallFields DEF Drops
<1>5. NoSyncs(Left) /\ NoSyncs(Left)' /\ now' \in Nat
  BY <1>1, <1>2, <1>4, IdleIs DEF Types, NoSyncs
<1>6. Lives'
  BY <1>2, <1>4, NoThreadCalls DEF IsOpen
<1>7. Types' => Meetings'
  <2>1. \A r \in Players :
          /\ pc'[r] = pc[r] /\ item'[r] = item[r]
          /\ \A m \in Syncs : /\ Count(r, m)' = Count(r, m)
                              /\ InList(queue[r].list, m) => InList(queue[r].list, m)'
    BY <1>2, CountSame
  <2> QED
    BY <1>1, <1>2, <1>3, <1>5, <2>1, PlainBegins
<1>8. Settles'
  BY <1>5, NoSyncsIs DEF Settles, Waits
<1> QED
  BY <1>1, <1>2, <1>3, <1>5, <1>6, <1>7, <1>8, BeginKeeps DEF Types

LEMMA CloseWhenEmptyKeeps ==
  ASSUME IInv, NEW q \in Players, NEW s, CloseStreamWhenEmpty(q, s)
  PROVE  IInv'
<1>1. Types /\ Lives /\ Meetings
  BY DEF IInv
<1>2. /\ s \in Syncs /\ Create(s, Everyone) /\ todo = <<>> /\ waited' = "no"
      /\ todo' = <<PutCall(q, SyncMessage(s), 0), SyncCall("wait", s), SyncCall("release", s)>>
                   \o CloseCalls(q)
      /\ UNCHANGED <<queue, pc, item, ask, m_packets, m_bStop, now>>
  BY DEF CloseStreamWhenEmpty, Idle, Begin, Create, SyncMessage, threadVars
<1>3. /\ todo' \in Seq(PlayerCalls) /\ Handlers'
      /\ Left' = {PutCall(q, SyncMessage(s), 0), SyncCall("wait", s), SyncCall("release", s),
                  OwnCall("abort", q), OwnCall("join", q), OwnCall("end", q),
                  OwnCall("clock", Owner)}
  BY <1>2, CloseWhenEmptyBegins
<1>4. /\ \A c \in Left' : IsSync(c.message) => c.message = SyncMessage(s)
      /\ NoSyncs(Left)
  BY <1>2, <1>3, IdleIs, CallFields
<1>5. Lives'
  <2>1. \A r \in Players : IsOpen(r)' <=> IsOpen(r)
    BY <1>2 DEF IsOpen
  <2>2. \A r \in Players : /\ OwnCall("init", r) \notin Left'
                           /\ OwnCall("create", r) \notin Left'
                           /\ OwnCall("end", r) \in Left' => r = q
    BY <1>3, CallFields
  <2> QED
    BY <1>1, <1>2, <1>3, <2>1, <2>2 DEF Lives
<1>6. Types' => Meetings' /\ sync'[s].reached = {} /\ \A r \in Players : ~Has(r, s)'
  BY <1>1, <1>2, <1>3, <1>4, CreateBegins
<1>7. ASSUME ~Has(q, s)', sync'[s].reached = {}
      PROVE  EmptiesFirst(q, s)'
  <2>1. Given(q, s)'
    BY <1>3 DEF Given, Puts
  <2>2. PutCall(q, SyncMessage(s), 1) \notin Left'
    BY <1>3, CallFields
  <2>3. Behind(queue'[q].list, SyncItems(s), PacketItems)
    BY <1>2, <1>7, NotThere
  <2>4. item'[q].message # SyncMessage(s)
    BY <1>7 DEF Has
  <2> QED
    BY <1>7, <2>1, <2>2, <2>3, <2>4 DEF EmptiesFirst
<1>8. Types' => Settles'
  <2> SUFFICES ASSUME Types', NEW r \in Players, NEW m \in Syncs
               PROVE  /\ SyncCall("waitOrStop", m) \notin Left'
                      /\ SyncCall("wait", m) \in Left' /\ OwnCall("abort", r) \in Left' =>
                           EmptiesFirst(r, m)'
    BY DEF Settles
  <2>1. SyncCall("waitOrStop", m) \notin Left'
    BY <1>3, CallFields
  <2>2. SyncCall("wait", m) \in Left' => m = s
    BY <1>4, CallFields, MessagesAre
  <2>3. OwnCall("abort", r) \in Left' => r = q
    BY <1>3, CallFields
  <2>4. EmptiesFirst(q, s)'
    BY <1>6, <1>7
  <2> QED
    BY <2>1, <2>2, <2>3, <2>4
<1> QED
  BY <1>1, <1>2, <1>3, <1>5, <1>6, <1>8, CreateGood, BeginKeeps DEF Types

\* Only m_bStop changes, or nothing does.
LEMMA StopKeeps ==
  ASSUME IInv, Stop \/ UNCHANGED vars
  PROVE  IInv'
<1>1. UNCHANGED <<queue, sync, pc, item, ask, m_packets, todo, waited, now>> /\ m_bStop' \in BOOLEAN
  BY DEF Stop, vars, threadVars, counters, IInv, Types
<1>2. Types' /\ Sized' /\ Hands' /\ Handlers' /\ Lives'
  BY <1>1 DEF IInv, Types, Sized, Hands, Handlers, Lives, Left, IsOpen, Puts, Flushing
<1>3. Meetings'
  BY <1>1 DEF IInv, Meetings, Meets, CountsFor, ReachesFor, PresentFor, TogetherFor, Total, Count,
              Held, Owned, Waits, Puts, Has, InList, Involved, IsOpen, Left
<1>4. Settles' /\ HasSettled'
  BY <1>1 DEF IInv, Settles, HasSettled, FlushFirst, EmptiesFirst, Given, Has, Puts, Flushing,
              Clean, Emptied, NoStale, IsStale, IsOpen, Left
<1> QED
  BY <1>2, <1>3, <1>4 DEF IInv


\* The loop is entered with nothing in the queues, in the hands of the threads or left to call.
LEMMA InitGood ==
  ASSUME Init
  PROVE  IInv
<1>1. PICK new : new = QueueInit(NewQueue)
  OBVIOUS
<1>2. GoodQueue(new) /\ new.list = <<>> /\ new.m_bInitialized
  <2>1. \A list : list = <<>> => Counted(list) = {}
    BY DEF Counted
  <2>2. NewQueue \in QueueSet /\ NewQueue.list = <<>> /\ NewQueue.m_iDataSize = 0
    BY EmptyList DEF NewQueue, QueueSet
  <2>3. GoodQueue(NewQueue)
    BY <2>1, <2>2, EmptyList, FS_EmptySet DEF GoodQueue
  <2> QED
    BY <1>1, <2>2, <2>3, QueueOperations
<1>3. /\ queue = [q \in Players |-> new] /\ sync = [s \in Syncs |-> Gone]
      /\ pc = [q \in Players |-> "loop"] /\ item = [q \in Players |-> Nothing]
      /\ ask = [q \in Players |-> 0] /\ m_packets = [q \in Players |-> <<>>]
      /\ todo = <<>> /\ m_bStop = FALSE /\ waited = "no" /\ now = 0
  BY <1>1 DEF Init
<1>4. /\ \A q \in Players : /\ queue[q] = new /\ queue[q].list = <<>> /\ IsOpen(q)
                            /\ item[q] = Nothing /\ pc[q] = "loop"
      /\ Left = {}
      /\ \A s \in Syncs : sync[s] = Gone
  BY <1>2, <1>3 DEF IsOpen, Left, Range
<1>5. Types
  <2>1. Gone \in SyncSet
    BY DEF Gone, NewSync, SyncSet, Everyone
  <2>2. /\ \A q \in Players : Sorted(queue[q].list) /\ Len(m_packets[q]) <= MaxConverge
        /\ <<>> \in Seq(Packets) /\ <<>> \in Seq(PlayerCalls)
    BY <1>3, <1>4, EmptyList, EmptySeq, PlayerAssumption
  <2> QED
    BY <1>2, <1>3, <2>1, <2>2, NothingIs DEF Types, Positions, GoodQueue
<1>6. Sized
  BY <1>2, <1>4 DEF Sized, GoodQueue
<1>7. Hands
  BY <1>4 DEF Hands
<1>8. Handlers
  BY <1>3, <1>4 DEF Handlers, Ranked, Flushing
<1>9. Lives
  BY <1>4 DEF Lives
<1>10. Meetings
  <2> SUFFICES ASSUME NEW s \in Syncs
               PROVE  Meets(s)
    BY DEF Meetings
  <2>1. sync[s] = Gone /\ Gone.refs = 0 /\ Gone.reached = {} /\ Gone.passed = FALSE
    BY <1>4 DEF Gone, NewSync
  <2>2. \A q \in Players : ~Has(q, s)
    BY <1>4, EmptyList, NothingIs DEF Has, InList
  <2>3. Total(s) = 0
    BY <1>4, <1>5, <2>2, CountFacts
  <2>4. ~Waits(s)
    BY <1>4 DEF Waits
  <2>5. CountsFor(s)
    BY <2>1, <2>3 DEF CountsFor
  <2>6. ReachesFor(s)
    BY <2>1, <2>2, <2>4 DEF ReachesFor, Has
  <2>7. PresentFor(s)
    BY <2>1, <2>4 DEF PresentFor
  <2>8. TogetherFor(s)
    BY <2>1 DEF TogetherFor
  <2> QED
    BY <2>5, <2>6, <2>7, <2>8 DEF Meets
<1>11. Settles /\ HasSettled
  BY <1>3, <1>4 DEF Settles, HasSettled
<1> QED
  BY <1>5, <1>6, <1>7, <1>8, <1>9, <1>10, <1>11 DEF IInv

LEMMA NextKeeps ==
  ASSUME IInv, [Next]_vars
  PROVE  IInv'
<1>1. CASE \E q \in Players : ThreadStep(q) \/ GetTimesOut(q) \/ MeetLate(q)
  BY <1>1, ThreadStepKeeps
<1>2. CASE OwnerStep \/ OwnerLate
  <2>1. CASE DoPut
    BY <2>1, DoPutKeeps
  <2>2. CASE DoFlush
    BY <2>2, DoFlushKeeps
  <2>3. CASE DoRelease
    BY <2>3, DoReleaseKeeps
  <2>4. CASE OwnerArrives
    BY <2>4, OwnerArrivesKeeps
  <2>5. CASE OwnerMeets \/ OwnerLate \/ OwnerStops
    BY <2>5, OwnerPassesKeeps
  <2>6. CASE DoInit \/ DoAbort \/ DoCreate \/ DoJoin \/ ClockKept
    BY <2>6, LifeKeeps
  <2>7. CASE DoEnd
    BY <2>7, DoEndKeeps
  <2>8. CASE ClockChanged(Fresh)
    BY <2>8, ClockChangedKeeps
  <2> QED
    BY <1>2, <2>1, <2>2, <2>3, <2>4, <2>5, <2>6, <2>7, <2>8 DEF OwnerStep
<1>3. CASE Handler
  <2>1. CASE \E q \in Players : OpenStream(q)
    BY <2>1, OpenStreamKeeps
  <2>2. CASE \E q \in Players : ProcessPacket(q) \/ SetSpeed(q)
    BY <2>2, PutOneKeeps
  <2>3. CASE \E q \in Players : CloseStream(q)
    BY <2>3, CloseStreamKeeps
  <2>4. CASE \E q \in Players : CloseStreamWhenEmpty(q, Fresh)
    BY <2>4, CloseWhenEmptyKeeps
  <2>5. CASE FlushQueued(Fresh)
    BY <2>5, FlushQueuedKeeps
  <2>6. CASE FlushBuffers(Fresh, TRUE)
    BY <2>6, FlushNormalKeeps
  <2>7. CASE FlushBuffers(Fresh, FALSE)
    BY <2>7, FlushOtherKeeps
  <2> QED
    BY <1>3, <2>1, <2>2, <2>3, <2>4, <2>5, <2>6, <2>7 DEF Handler
<1>4. CASE Stop \/ UNCHANGED vars
  BY <1>4, StopKeeps
<1> QED
  BY <1>1, <1>2, <1>3, <1>4 DEF Next

-------------------------------------------------------------------------------
(* What follows from it *)

THEOREM Invariant == Spec => []IInv
<1>1. Init => IInv
  BY InitGood
<1>2. IInv /\ [Next]_vars => IInv'
  BY NextKeeps
<1> QED
  BY <1>1, <1>2, PTL DEF Spec

(***************************************************************************)
(* Put, Get and Flush keep m_iDataSize at the size of the packets in the   *)
(* list that count: those that are put back by the video player's thread   *)
(* are not counted when they are put, taken or flushed, in any order of    *)
(* the threads' and the player's calls; and the list stays sorted.         *)
(***************************************************************************)
THEOREM DataSizeIsExact == Spec => []TypeOK
<1>1. IInv => TypeOK
  <2> SUFFICES ASSUME IInv
               PROVE  TypeOK
    OBVIOUS
  <2>1. Types /\ Sized
    BY DEF IInv
  <2>2. QueueType
    <3> SUFFICES ASSUME NEW q \in Players
                 PROVE  /\ \A i \in 1 .. Len(queue[q].list) : queue[q].list[i].message \in Messages
                        /\ Sorted(queue[q].list)
                        /\ queue[q].m_iDataSize = Cardinality(Counted(queue[q].list))
      BY DEF QueueType, Sorted
    <3>1. queue[q].list \in Seq(Items)
      BY <2>1, TypeFacts
    <3>2. \A i \in 1 .. Len(queue[q].list) : queue[q].list[i].message \in Messages
      BY <3>1, ElementOfSeq DEF Items
    <3> QED
      BY <2>1, <3>2, TypeFacts DEF Sized
  <2>3. \A s \in Syncs : /\ sync[s].sources \subseteq Everyone
                         /\ sync[s].reached \subseteq sync[s].sources
                         /\ sync[s].refs \in Nat
    BY <2>1, TypeFacts DEF IInv, Meetings, Meets, ReachesFor
  <2>4. \A q \in Players : item[q].message \in Messages /\ ask[q] \in {0, 1}
    BY <2>1, TypeFacts DEF Items
  <2> QED
    BY <2>1, <2>2, <2>3, <2>4 DEF TypeOK, Types, Positions
<1> QED
  BY <1>1, Invariant, PTL

(***************************************************************************)
(* CDVDMsgGeneralSynchronize::Wait lets nobody pass, unless its time limit *)
(* is over or the player is told to stop, before all who are given the     *)
(* message and meant by it have come, although a thread puts the message   *)
(* back and lets go of it while it waits, and closing a player takes its   *)
(* reference away.                                                         *)
(***************************************************************************)
THEOREM ThreadsMeet == Spec => []SyncTogether
<1>1. IInv => SyncTogether
  BY TogetherIs DEF IInv, Meetings, Meets
<1> QED
  BY <1>1, Invariant, PTL

(***************************************************************************)
(* When the Wait of FlushBuffers has returned because all were there, no   *)
(* queue, thread or decoder has a packet from before the flush; when that  *)
(* of WaitUntilEmpty has, the queue that is aborted next has no packet.    *)
(***************************************************************************)
THEOREM FlushSettles == Spec => []Settled
<1>1. IInv => Settled
  <2> SUFFICES ASSUME IInv
               PROVE  Settled
    OBVIOUS
  <2>1. \A q \in Players : \A i \in 1 .. Len(queue[q].list) :
          queue[q].list[i] \in Elements(queue[q].list)
    BY DEF Elements
  <2>2. ASSUME waited = "flushed", NEW q \in Players
        PROVE  /\ \A i \in 1 .. Len(queue[q].list) : ~IsStale(queue[q].list[i].message)
               /\ ~IsStale(item[q].message)
               /\ IsOpen(q) => \A i \in 1 .. Len(m_packets[q]) : ~IsStale(m_packets[q][i])
    <3>1. CASE IsOpen(q)
      <4>1. Clean(q)
        BY <2>2, <3>1 DEF IInv, HasSettled
      <4> QED
        BY <2>1, <4>1 DEF Clean, NoStale
    <3>2. CASE ~IsOpen(q)
      <4>1. queue[q].list = <<>> /\ item[q] = Nothing
        BY <3>2 DEF IInv, Lives, Hands
      <4> QED
        BY <3>2, <4>1, NothingIs
    <3> QED
      BY <3>1, <3>2
  <2>3. ASSUME waited = "emptied", NEW q \in Players, OwnCall("abort", q) \in Left
        PROVE  ~HasPacket(queue[q].list)
    <3>1. Emptied(q)
      BY <2>3 DEF IInv, HasSettled
    <3> QED
      BY <2>1, <3>1 DEF Emptied, NoPacket, HasPacket
  <2> QED
    BY <2>2, <2>3 DEF Settled, Left
<1> QED
  BY <1>1, Invariant, PTL

===============================================================================
