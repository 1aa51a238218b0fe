-------------------------- MODULE ActorProtocolProofs --------------------------
(***************************************************************************)
(* The safety invariants of ActorProtocol for any number of senders and    *)
(* messages, and that it implements SyncCalls.                             *)
(*                                                                         *)
(* The argument is one of ownership.  A message is at one place: free, on  *)
(* the actor's side, or on its way to a sender.  Only a synchronous call   *)
(* has two owners, its sender and the actor's side, and isSyncFini says    *)
(* that one of them has let go.  A call that the actor's side has not      *)
(* answered has no reply and no event, and its sender waits for it or has  *)
(* said that it gave up.                                                   *)
(***************************************************************************)
EXTENDS ActorProtocol, SequenceTheorems, WellFoundedInduction, TLAPS

-------------------------------------------------------------------------------
(* Owners *)

\* The messages that the actor's side owns.
Queued == ToSet(outMessages) \cup ({amsg} \ {None})
Taken == Queued \cup dropped

\* The calls that their senders own.
Called == {m \in Messages : \E s \in Senders : msg[s] = m}

\* The messages for senders: in their queue, received, or in a call's reply.
Given(m) == \/ m \in ToSet(inMessages)
            \/ \E s \in Senders : retMsg[s] = m \/ Reply(s) = m

\* Nobody owns a message twice.
Once ==
  /\ IsInjective(outMessages) /\ IsInjective(inMessages)
  /\ amsg \notin ToSet(outMessages)
  /\ dropped \cap Queued = {}
  /\ \A s, t \in Senders :
       /\ msg[s] = msg[t] /\ msg[s] # None => s = t
       /\ retMsg[s] = retMsg[t] /\ retMsg[s] # None => s = t
       /\ Reply(s) = Reply(t) /\ Reply(s) # None => s = t
       /\ Reply(s) # None => Reply(s) # retMsg[t]
  /\ \A s \in Senders : retMsg[s] \notin ToSet(inMessages) /\ Reply(s) \notin ToSet(inMessages)

\* The three kinds of places have nothing in common, and a message is in one.
OnePlace ==
  \A m \in Messages :
    /\ m \in freeMessages <=> m \notin Taken /\ m \notin Called /\ ~Given(m)
    /\ Given(m) => m \notin Taken /\ m \notin Called

\* isSyncFini: one of the two owners of a call has released it.
TwoReleases ==
  \A m \in Messages :
    /\ m \in Called => msgs[m].isSync
    /\ Given(m) => ~msgs[m].isSync
    /\ msgs[m].isSync /\ m \in Taken => (m \in Called <=> ~msgs[m].isSyncFini)
    /\ m \in Called => (m \in Taken <=> ~msgs[m].isSyncFini)

\* What the actor's side has not handled yet, or never will.
Unanswered == ToSet(outMessages) \cup dropped
                \cup (IF apc \in {"loop", "handle", "again"} THEN {amsg} \ {None} ELSE {})

\* A call without an answer has a sender that waits, or knows of none.
NotAnswered ==
  \A m \in Unanswered :
    /\ msgs[m].replyMessage = None /\ ~msgs[m].event
    /\ msgs[m].isSync =>
         \/ msgs[m].isSyncTimeout
         \/ \E s \in Senders : msg[s] = m /\ pc[s] # "release"

\* Places and what is held there.
Places ==
  /\ \A s \in Senders :
       /\ msg[s] # None => pc[s] \in {"tell", "wait", "late", "release"}
       /\ retMsg[s] # None => pc[s] \in {"release", "got"}
  /\ apc \in {"wait", "ended"} => amsg = None
  /\ dpc = "done" => apc = "ended"

IInv ==
  /\ TypeOK
  /\ Places
  /\ Once
  /\ OnePlace
  /\ TwoReleases
  /\ NotAnswered

-------------------------------------------------------------------------------
(* Queues *)

\* What a push does to a queue.
LEMMA Pushed ==
  ASSUME NEW S, NEW q \in Seq(S), NEW e \in S
  PROVE  /\ Append(q, e) \in Seq(S) /\ Append(q, e) # <<>>
         /\ ToSet(Append(q, e)) = ToSet(q) \cup {e}
         /\ IsInjective(q) /\ e \notin ToSet(q) => IsInjective(Append(q, e))
<1>1. /\ Append(q, e) \in Seq(S) /\ Append(q, e) # <<>>
      /\ DOMAIN Append(q, e) = 1..(Len(q) + 1) /\ DOMAIN q = 1..Len(q) /\ Len(q) \in Nat
      /\ \A i \in 1..Len(q) : Append(q, e)[i] = q[i]
      /\ Append(q, e)[Len(q) + 1] = e
  BY AppendProperties, LenProperties
<1>2. ToSet(Append(q, e)) = ToSet(q) \cup {e}
  BY <1>1 DEF ToSet
<1>3. IsInjective(q) /\ e \notin ToSet(q) => IsInjective(Append(q, e))
  BY <1>1 DEF ToSet, IsInjective
<1> QED
  BY <1>1, <1>2, <1>3

\* What a pop does to it.
LEMMA Popped ==
  ASSUME NEW S, NEW q \in Seq(S), q # <<>>, IsInjective(q)
  PROVE  /\ Head(q) \in S /\ Head(q) \in ToSet(q)
         /\ Tail(q) \in Seq(S) /\ IsInjective(Tail(q))
         /\ ToSet(Tail(q)) = ToSet(q) \ {Head(q)}
<1>1. /\ Head(q) \in S /\ Tail(q) \in Seq(S) /\ Head(q) = q[1]
      /\ DOMAIN q = 1..Len(q) /\ Len(q) \in Nat \ {0}
      /\ DOMAIN Tail(q) = 1..(Len(q) - 1) /\ \A i \in 1..(Len(q) - 1) : Tail(q)[i] = q[i + 1]
  BY HeadTailProperties, LenProperties, EmptySeq
<1>2. \A i \in 1..Len(q) : i # 1 => i - 1 \in 1..(Len(q) - 1) /\ q[i] = Tail(q)[i - 1]
  BY <1>1
<1>3. Head(q) \in ToSet(q)
  BY <1>1 DEF ToSet
<1>4. ASSUME NEW i \in 1..Len(q)
      PROVE  q[i] \in ToSet(Tail(q)) \cup {Head(q)}
  BY <1>1, <1>2 DEF ToSet
<1>5. ToSet(q) \subseteq ToSet(Tail(q)) \cup {Head(q)}
  BY <1>1, <1>4 DEF ToSet
<1>6. ASSUME NEW i \in 1..(Len(q) - 1)
      PROVE  Tail(q)[i] \in ToSet(q) /\ Tail(q)[i] # Head(q)
  <2>1. i + 1 \in 1..Len(q) /\ 1 \in 1..Len(q) /\ i + 1 # 1
    BY <1>1
  <2> QED
    BY <1>1, <2>1 DEF ToSet, IsInjective
<1>7. ToSet(Tail(q)) \subseteq ToSet(q) \ {Head(q)}
  BY <1>1, <1>6 DEF ToSet
<1>8. IsInjective(Tail(q))
  BY <1>1 DEF IsInjective
<1> QED
  BY <1>1, <1>3, <1>5, <1>7, <1>8

\* Queues hold messages, and an empty one none.
LEMMA Elements ==
  ASSUME NEW S
  PROVE  /\ \A q \in Seq(S) : ToSet(q) \subseteq S
         /\ ToSet(<<>>) = {} /\ IsInjective(<<>>) /\ <<>> \in Seq(S)
<1>1. \A q \in Seq(S) : ToSet(q) \subseteq S
  BY LenProperties, ElementOfSeq DEF ToSet
<1> QED
  BY <1>1 DEF ToSet, IsInjective

\* Induction over the naturals, for a set.
LEMMA SetInduction ==
  ASSUME NEW S, 0 \in S, \A n \in Nat : n \in S => n + 1 \in S
  PROVE  Nat \subseteq S
<1> DEFINE Less == {ab \in Nat \X Nat : ab[1] < ab[2]}
<1>1. IsWellFoundedOn(Less, Nat)
  <2>1. OpToRel(<, Nat) = Less
    BY DEF OpToRel
  <2> QED
    BY Zenon, <2>1, NatLessThanWellFounded
<1>2. SUFFICES ASSUME Nat \ S # {}
               PROVE  FALSE
  OBVIOUS
<1>3. PICK b \in Nat \ S : \A k \in Nat \ S : <<k, b>> \notin Less
  <2>1. Nat \ S \subseteq Nat
    OBVIOUS
  <2> HIDE DEF Less
  <2> QED
    BY <1>1, <1>2, <2>1, WFMin
<1>4. b # 0 /\ b - 1 \in Nat /\ <<b - 1, b>> \in Less
  BY <1>3
<1> QED
  BY <1>3, <1>4

(***************************************************************************)
(* The recursive function in Kept is defined, and what it computes: the    *)
(* messages of the queue that are not purged, each as often as before.     *)
(***************************************************************************)
LEMMA KeptFound ==
  ASSUME outMessages \in Seq(Messages), IsInjective(outMessages), NEW purged
  PROVE  /\ Kept(purged) \in Seq(Messages) /\ IsInjective(Kept(purged))
         /\ ToSet(Kept(purged)) = ToSet(outMessages) \ purged
<1> DEFINE L == Len(outMessages)
           Step(f, i) == IF i = 0 THEN <<>>
                         ELSE IF outMessages[i] \in purged THEN f[i - 1]
                              ELSE Append(f[i - 1], outMessages[i])
           Is(f, n) == f = [i \in 0..n |-> Step(f, i)]
           Exists(n) == \E f : Is(f, n)
           Defined == {n \in Nat : n <= L => Exists(n)}
<1>1. L \in Nat /\ DOMAIN outMessages = 1..L /\ \A i \in 1..L : outMessages[i] \in Messages
  BY LenProperties, ElementOfSeq
<1>2. 0 \in Defined
  <2>1. [i \in 0..0 |-> <<>>] = [i \in 0..0 |-> Step([j \in 0..0 |-> <<>>], i)]
    OBVIOUS
  <2> QED
    BY <2>1
<1>3. ASSUME NEW n \in Nat, n \in Defined
      PROVE  n + 1 \in Defined
  <2> SUFFICES ASSUME n + 1 <= L
               PROVE  Exists(n + 1)
    <3> HIDE DEF Exists
    <3> QED
      OBVIOUS
  <2>1. PICK f : f = [i \in 0..n |-> Step(f, i)]
    <3>1. Exists(n)
      <4> HIDE DEF Exists
      <4> QED
        BY <1>1, <1>3
    <3> QED
      BY <3>1
  <2> DEFINE g == [i \in 0..(n + 1) |-> IF i = n + 1 THEN Step(f, i) ELSE f[i]]
  <2>2. ASSUME NEW i \in 0..(n + 1)
        PROVE  g[i] = Step(g, i)
    <3>1. i # 0 => i - 1 \in 0..(n + 1) /\ i - 1 # n + 1
      OBVIOUS
    <3>2. i # 0 => g[i - 1] = f[i - 1]
      BY <3>1
    <3>3. i # n + 1 => i \in 0..n
      OBVIOUS
    <3>4. g[i] = Step(f, i)
      BY <2>1, <3>3
    <3> QED
      BY <3>2, <3>4
  <2>3. g = [i \in 0..(n + 1) |-> Step(g, i)]
    BY <2>2
  <2> QED
    BY <2>3
<1>4. L \in Defined
  <2> HIDE DEF Defined
  <2> QED
    BY <1>1, <1>2, <1>3, SetInduction
<1> DEFINE kept == CHOOSE f : f = [i \in 0..L |-> Step(f, i)]
<1>5. kept = [i \in 0..L |-> Step(kept, i)]
  <2>1. Exists(L)
    <3> HIDE DEF Exists
    <3> QED
      BY <1>1, <1>4
  <2> QED
    BY <2>1
<1>6. Kept(purged) = kept[L]
  BY DEF Kept
<1> HIDE DEF kept
<1> DEFINE Chosen(n) == {outMessages[i] : i \in {j \in 1..n : outMessages[j] \notin purged}}
           Right == {n \in Nat : n <= L => /\ kept[n] \in Seq(Messages) /\ IsInjective(kept[n])
                                           /\ ToSet(kept[n]) = Chosen(n)}
<1>7. 0 \in Right
  <2>1. kept[0] = <<>> /\ Chosen(0) = {}
    BY <1>1, <1>5
  <2> QED
    BY <2>1, Elements
<1>8. ASSUME NEW n \in Nat, n \in Right
      PROVE  n + 1 \in Right
  <2> SUFFICES ASSUME n + 1 <= L
               PROVE  /\ kept[n + 1] \in Seq(Messages) /\ IsInjective(kept[n + 1])
                      /\ ToSet(kept[n + 1]) = Chosen(n + 1)
    OBVIOUS
  <2>1. n + 1 \in 0..L /\ n + 1 \in 1..L /\ (n + 1) - 1 = n /\ n + 1 # 0 /\ n <= L
    BY <1>1
  <2>2. kept[n + 1] = IF outMessages[n + 1] \in purged THEN kept[n]
                      ELSE Append(kept[n], outMessages[n + 1])
    BY <1>5, <2>1
  <2>3. kept[n] \in Seq(Messages) /\ IsInjective(kept[n]) /\ ToSet(kept[n]) = Chosen(n)
    BY <1>8, <2>1
  <2>4. Chosen(n + 1) = IF outMessages[n + 1] \in purged THEN Chosen(n)
                        ELSE Chosen(n) \cup {outMessages[n + 1]}
    OBVIOUS
  <2>5. outMessages[n + 1] \notin Chosen(n)
    BY <1>1, <2>1 DEF IsInjective
  <2>6. outMessages[n + 1] \in Messages
    BY <1>1, <2>1
  <2> HIDE DEF Chosen, kept
  <2>7. CASE outMessages[n + 1] \notin purged
    <3> DEFINE q == kept[n]
               e == outMessages[n + 1]
    <3>1. q \in Seq(Messages) /\ IsInjective(q) /\ e \in Messages /\ e \notin ToSet(q)
      BY <2>3, <2>5, <2>6
    <3> HIDE DEF q, e
    <3>2. /\ Append(q, e) \in Seq(Messages) /\ IsInjective(Append(q, e))
          /\ ToSet(Append(q, e)) = ToSet(q) \cup {e}
      BY <3>1, Pushed
    <3> QED
      BY <2>2, <2>3, <2>4, <2>7, <3>2 DEF q, e
  <2> QED
    BY <2>2, <2>3, <2>4, <2>7
<1>9. L \in Right
  <2> HIDE DEF Right
  <2> QED
    BY <1>1, <1>7, <1>8, SetInduction
<1>10. Chosen(L) = ToSet(outMessages) \ purged
  BY <1>1 DEF ToSet
<1> QED
  BY <1>1, <1>6, <1>9, <1>10

-------------------------------------------------------------------------------
(* Steps *)

\* NULL is no message.
LEMMA NoneIsNone == None \notin Messages /\ None \notin Senders
BY ActorAssumption

\* What the assignments to a message leave it.
LEMMA MessageFields ==
  /\ Blank \in MessageType /\ ~Blank.isSync /\ Blank.replyMessage = None /\ ~Blank.event
  /\ \A x \in MessageType :
       /\ x.replyMessage \in Messages \cup {None}
       /\ [x EXCEPT !.isSyncTimeout = TRUE] \in MessageType /\ [x EXCEPT !.isSyncFini = TRUE] \in MessageType
       /\ \A r \in Messages : [x EXCEPT !.replyMessage = r] \in MessageType
BY DEF Blank, Message, MessageType

\* The event of a message is one field.
LEMMA EventSet ==
  ASSUME NEW x \in MessageType
  PROVE  LET y == [x EXCEPT !.event = TRUE]
         IN  /\ y \in MessageType
             /\ y.isSync = x.isSync /\ y.isSyncFini = x.isSyncFini
             /\ y.replyMessage = x.replyMessage /\ y.isSyncTimeout = x.isSyncTimeout
BY DEF MessageType

\* At first all messages are free.
LEMMA InitInv == Init => IInv
<1> SUFFICES ASSUME Init
             PROVE  IInv
  OBVIOUS
<1>1. ToSet(outMessages) = {} /\ ToSet(inMessages) = {} /\ {outMessages, inMessages} \subseteq Seq(Messages)
      /\ IsInjective(outMessages) /\ IsInjective(inMessages)
  BY Elements DEF Init
<1>2. TypeOK
  BY <1>1, NoneIsNone DEF Init, TypeOK, Blank, Message, MessageType
<1>3. Taken = {} /\ Called = {} /\ \A m \in Messages : ~Given(m)
  BY <1>1, NoneIsNone DEF Init, Taken, Queued, Called, Given, Reply
<1>4. Places
  BY DEF Init, Places
<1>5. Once
  BY <1>1, NoneIsNone DEF Init, Once, Queued, Reply
<1>6. OnePlace /\ TwoReleases
  BY <1>3 DEF Init, OnePlace, TwoReleases
<1>7. NotAnswered
  BY <1>1 DEF Init, NotAnswered, Unanswered
<1> QED
  BY <1>2, <1>4, <1>5, <1>6, <1>7 DEF IInv

\* A step after which every message has the owners it had.
LEMMA OwnersKept ==
  ASSUME IInv, UNCHANGED <<freeMessages, queues, amsg, dropped, msg, retMsg>>,
         \A s \in Senders : Reply(s)' = Reply(s),
         \A m \in Messages : msgs'[m].isSync = msgs[m].isSync /\ msgs'[m].isSyncFini = msgs[m].isSyncFini
  PROVE  Once' /\ OnePlace' /\ TwoReleases'
<1>1. Taken' = Taken /\ Called' = Called /\ Queued' = Queued
  BY DEF Taken, Queued, Called, queues
<1>2. \A m \in Messages : Given(m)' <=> Given(m)
  BY DEF Given, queues
<1>3. Once'
  BY <1>1 DEF IInv, Once, queues
<1>4. OnePlace'
  BY <1>1, <1>2 DEF IInv, OnePlace
<1>5. TwoReleases'
  BY <1>1, <1>2 DEF IInv, TwoReleases
<1> QED
  BY <1>3, <1>4, <1>5

\* A sender's step that moves only its place, not yet to its release.
LEMMA SenderMoves ==
  ASSUME IInv, NEW s \in Senders, TellActor(s) \/ CallTimesOut(s)
  PROVE  IInv' /\ \A t \in Senders : Reply(t)' = Reply(t)
<1>1. TypeOK'
  BY DEF IInv, TypeOK, TellActor, CallTimesOut, queues, actorVars
<1>2. Places'
  BY DEF IInv, TypeOK, Places, TellActor, CallTimesOut, actorVars
<1>3. \A t \in Senders : Reply(t)' = Reply(t)
  BY DEF IInv, TypeOK, Reply, TellActor, CallTimesOut
<1>4. Once' /\ OnePlace' /\ TwoReleases'
  BY <1>3, OwnersKept DEF TellActor, CallTimesOut, actorVars
<1>5. NotAnswered'
  <2>1. Unanswered' = Unanswered
    BY DEF Unanswered, TellActor, CallTimesOut, queues, actorVars
  <2>2. \A t \in Senders : msg[t] # None /\ pc[t] # "release" => pc'[t] # "release"
    BY DEF IInv, TypeOK, TellActor, CallTimesOut
  <2>3. msgs' = msgs /\ msg' = msg /\ Unanswered \subseteq Messages
    BY Elements DEF IInv, TypeOK, Unanswered, TellActor, CallTimesOut
  <2> QED
    BY <2>1, <2>2, <2>3, NoneIsNone DEF IInv, NotAnswered
<1> QED
  BY <1>1, <1>2, <1>3, <1>4, <1>5 DEF IInv

\* A step of the actor or of its disposal that touches no message.
LEMMA ActorMoves ==
  ASSUME IInv, Woken \/ SelfTrigger \/ NoReply \/ Dispose \/ TellStop \/ Disposed \/ Start \/ UNCHANGED vars
  PROVE  IInv' /\ \A t \in Senders : Reply(t)' = Reply(t)
<1> USE DEF Woken, SelfTrigger, NoReply, Handling, Dispose, TellStop, Disposed, Start, vars, senderVars,
            actorVars
<1>1. TypeOK'
  BY DEF IInv, TypeOK, queues
<1>2. Places'
  BY DEF IInv, TypeOK, Places
<1>3. \A t \in Senders : Reply(t)' = Reply(t)
  BY DEF Reply
<1>4. Once' /\ OnePlace' /\ TwoReleases'
  <2>1. UNCHANGED <<freeMessages, queues, amsg, dropped, msg, retMsg, msgs>>
    OBVIOUS
  <2> QED
    BY <1>3, <2>1, OwnersKept
<1>5. NotAnswered'
  <2>1. Unanswered' \subseteq Unanswered
    BY DEF IInv, TypeOK, Places, Unanswered, queues
  <2> QED
    BY <2>1 DEF IInv, NotAnswered
<1> QED
  BY <1>1, <1>2, <1>3, <1>4, <1>5 DEF IInv

\* The event of a call that the actor has replied to.
LEMMA SetRepliedInv ==
  ASSUME IInv, SetReplied
  PROVE  IInv' /\ \A t \in Senders : Reply(t)' = Reply(t)
<1>1. amsg \in Messages /\ \A m \in Messages : msgs'[m] =
        IF m = amsg THEN [msgs[m] EXCEPT !.event = TRUE] ELSE msgs[m]
  BY DEF IInv, TypeOK, SetReplied
<1>2. TypeOK'
  <2>1. [msgs[amsg] EXCEPT !.event = TRUE] \in MessageType
    BY <1>1, EventSet DEF IInv, TypeOK
  <2>2. msgs' \in [Messages -> MessageType]
    BY <2>1 DEF IInv, TypeOK, SetReplied
  <2> QED
    BY <2>2 DEF IInv, TypeOK, SetReplied, queues, senderVars
<1>3. Places'
  BY DEF IInv, Places, SetReplied, senderVars
<1>4. \A m \in Messages : /\ msgs'[m].isSync = msgs[m].isSync /\ msgs'[m].isSyncFini = msgs[m].isSyncFini
                          /\ msgs'[m].replyMessage = msgs[m].replyMessage
                          /\ msgs'[m].isSyncTimeout = msgs[m].isSyncTimeout
  <2>1. \A m \in Messages : msgs[m] \in MessageType
    BY DEF IInv, TypeOK
  <2> QED
    BY <1>1, <2>1, EventSet
<1>5. \A t \in Senders : Reply(t)' = Reply(t)
  BY <1>4 DEF IInv, TypeOK, Reply, SetReplied, senderVars
<1>6. Once' /\ OnePlace' /\ TwoReleases'
  BY <1>4, <1>5, OwnersKept DEF SetReplied, senderVars
<1>7. NotAnswered'
  <2>1. Unanswered' \subseteq Unanswered /\ amsg \notin Unanswered /\ Unanswered \subseteq Messages
    BY Elements, NoneIsNone
       DEF IInv, TypeOK, Once, Queued, Unanswered, SetReplied, queues
  <2> QED
    BY <1>1, <2>1 DEF IInv, NotAnswered, SetReplied, senderVars
<1> QED
  BY <1>2, <1>3, <1>5, <1>6, <1>7 DEF IInv

\* A message that was free is the actor's, and the caller's if it waits for a reply.
LEMMA SendOutInv ==
  ASSUME IInv, NEW s \in Senders, NEW sync \in BOOLEAN, NEW m \in Messages, SendOut(s, sync, m)
  PROVE  IInv' /\ \A t \in Senders : Reply(t)' = Reply(t)
<1>1. m \notin Taken /\ m \notin Called /\ ~Given(m) /\ m # None /\ pc[s] = "idle" /\ msg[s] = None
      /\ retMsg[s] = None
  BY NoneIsNone DEF IInv, TypeOK, OnePlace, Places, SendOut, GetMessage
<1>2. m \notin ToSet(outMessages) /\ m # amsg /\ m \notin dropped
      /\ \A t \in Senders : msg[t] # m
  BY <1>1 DEF Taken, Queued, Called
<1>3. /\ outMessages' \in Seq(Messages) /\ ToSet(outMessages') = ToSet(outMessages) \cup {m}
      /\ IsInjective(outMessages')
  BY <1>2, Pushed DEF IInv, TypeOK, Once, SendOut
<1>4. /\ msgs'[m] = Message(s, sync, None)
      /\ \A n \in Messages \ {m} : msgs'[n] = msgs[n]
      /\ msg'[s] = (IF sync THEN m ELSE None)
      /\ \A t \in Senders \ {s} : msg'[t] = msg[t] /\ pc'[t] = pc[t]
      /\ pc'[s] = "tell"
  BY DEF IInv, TypeOK, SendOut
<1>5. TypeOK'
  <2>1. msgs'[m] \in MessageType
    BY <1>4 DEF Message, MessageType
  <2> QED
    BY <1>3, <1>4, <2>1 DEF IInv, TypeOK, SendOut, GetMessage, actorVars
<1>6. Places'
  BY <1>1, <1>4 DEF IInv, TypeOK, Places, SendOut, actorVars
<1>7. \A t \in Senders : Reply(t)' = Reply(t)
  BY <1>1, <1>2, <1>4 DEF IInv, TypeOK, Reply, Message, SendOut
<1>8. /\ Taken' = Taken \cup {m} /\ Queued' = Queued \cup {m}
      /\ Called' = IF sync THEN Called \cup {m} ELSE Called
      /\ \A n \in Messages : Given(n)' <=> Given(n)
  <2>1. Taken' = Taken \cup {m} /\ Queued' = Queued \cup {m}
    BY <1>3 DEF Taken, Queued, SendOut, actorVars
  <2>2. Called' = IF sync THEN Called \cup {m} ELSE Called
    BY <1>1, <1>4, NoneIsNone DEF Called
  <2>3. \A n \in Messages : Given(n)' <=> Given(n)
    BY <1>7 DEF Given, SendOut
  <2> QED
    BY <2>1, <2>2, <2>3
<1>9. Once'
  BY <1>2, <1>3, <1>4, <1>7, <1>8 DEF IInv, Once, SendOut, actorVars
<1>10. OnePlace'
  BY <1>1, <1>8 DEF IInv, OnePlace, SendOut, GetMessage
<1>11. TwoReleases'
  BY <1>1, <1>4, <1>8 DEF IInv, TwoReleases, Message
<1>12. NotAnswered'
  <2>1. Unanswered' = Unanswered \cup {m} /\ m \notin Unanswered /\ Unanswered \subseteq Messages
    BY <1>2, <1>3, Elements DEF IInv, TypeOK, Unanswered, SendOut, actorVars
  <2>2. \A t \in Senders : msg[t] # None => t # s
    BY <1>1
  <2> QED
    BY <1>4, <2>1, <2>2, NoneIsNone DEF IInv, NotAnswered, Message
<1> QED
  BY <1>5, <1>6, <1>7, <1>9, <1>10, <1>11, <1>12 DEF IInv

\* A sender leaves its wait with the reply there is, if there is one.
LEMMA TakeReply ==
  ASSUME IInv, NEW s \in Senders, CallAnswered(s) \/ GiveUp(s)
  PROVE  IInv' /\ Reply(s)' = None /\ \A t \in Senders \ {s} : Reply(t)' = Reply(t)
<1> DEFINE r == msgs[msg[s]].replyMessage
<1>1. /\ pc[s] \in {"wait", "late"} /\ msg[s] \in Messages /\ retMsg[s] = None /\ r \in Messages \cup {None}
      /\ Reply(s) = r
  BY NoneIsNone, MessageFields DEF IInv, TypeOK, Places, CallAnswered, GiveUp, Reply
<1>2. /\ retMsg' = [retMsg EXCEPT ![s] = r] /\ pc' = [pc EXCEPT ![s] = "release"]
      /\ UNCHANGED <<freeMessages, queues, containerOutEvent, m_bStop, msg, actorVars, dpc, dropped>>
      /\ msgs' = msgs \/ (r = None /\ msgs' = [msgs EXCEPT ![msg[s]].isSyncTimeout = TRUE])
  BY DEF CallAnswered, GiveUp
<1> HIDE DEF r
<1>3. /\ \A t \in Senders \ {s} : retMsg'[t] = retMsg[t] /\ pc'[t] = pc[t]
      /\ retMsg'[s] = r /\ pc'[s] = "release"
  BY <1>2 DEF IInv, TypeOK
<1>4. \A m \in Messages :
        /\ msgs'[m].isSync = msgs[m].isSync /\ msgs'[m].isSyncFini = msgs[m].isSyncFini
        /\ msgs'[m].replyMessage = msgs[m].replyMessage /\ msgs'[m].event = msgs[m].event
        /\ msgs[m].isSyncTimeout => msgs'[m].isSyncTimeout
  BY <1>1, <1>2 DEF IInv, TypeOK, MessageType
<1>5. TypeOK'
  <2>1. [msgs[msg[s]] EXCEPT !.isSyncTimeout = TRUE] \in MessageType
    BY <1>1, MessageFields DEF IInv, TypeOK
  <2>2. msgs' \in [Messages -> MessageType]
    <3>1. msgs \in [Messages -> MessageType]
      BY DEF IInv, TypeOK
    <3> QED
      BY <1>1, <1>2, <2>1, <3>1
  <2>3. pc[s] = "wait" \/ pc[s] = "late" => msg[s] # None
    BY DEF IInv, TypeOK
  <2> QED
    BY <1>1, <1>2, <1>3, <2>2, <2>3 DEF IInv, TypeOK, queues, actorVars
<1>6. Places'
  BY <1>1, <1>2, <1>3 DEF IInv, Places, actorVars
<1>7. Reply(s)' = None /\ \A t \in Senders \ {s} : Reply(t)' = Reply(t)
  BY <1>2, <1>3, <1>4 DEF IInv, TypeOK, Reply
<1>8. /\ Taken' = Taken /\ Queued' = Queued /\ Called' = Called
      /\ \A m \in Messages : Given(m)' <=> Given(m)
  <2>1. Taken' = Taken /\ Queued' = Queued /\ Called' = Called
    BY <1>2 DEF Taken, Queued, Called, queues, actorVars
  <2>2. \A m \in Messages : Given(m)' <=> Given(m)
    BY <1>1, <1>2, <1>3, <1>7, NoneIsNone DEF Given, queues
  <2> QED
    BY <2>1, <2>2
<1>9. Once'
  BY <1>1, <1>2, <1>3, <1>7, <1>8 DEF IInv, Once, queues, actorVars
<1>10. OnePlace'
  BY <1>2, <1>8 DEF IInv, OnePlace
<1>11. TwoReleases'
  BY <1>4, <1>8 DEF IInv, TwoReleases
<1>12. NotAnswered'
  <2>1. Unanswered' = Unanswered /\ Unanswered \subseteq Messages
    BY <1>2, Elements DEF IInv, TypeOK, Unanswered, queues, actorVars
  <2>2. ASSUME NEW m \in Unanswered, m = msg[s], msgs[m].isSync
        PROVE  msgs'[m].isSyncTimeout
    <3>1. r = None /\ ~msgs[m].event
      BY <2>2 DEF IInv, NotAnswered, r
    <3>2. GiveUp(s)
      BY <2>2, <3>1 DEF CallAnswered
    <3> QED
      BY <1>1, <2>2, <3>1, <3>2 DEF IInv, TypeOK, GiveUp, r
  <2>3. ASSUME NEW m \in Unanswered, m # msg[s], NEW t \in Senders, msg[t] = m, pc[t] # "release"
        PROVE  msg'[t] = m /\ pc'[t] # "release"
    BY <1>2, <1>3, <2>3
  <2> QED
    BY <1>4, <2>1, <2>2, <2>3 DEF IInv, NotAnswered
<1> QED
  BY <1>5, <1>6, <1>7, <1>9, <1>10, <1>11, <1>12 DEF IInv

\* The sender's release of its call: the first of two, or the last.
LEMMA ReleaseCallInv ==
  ASSUME IInv, NEW s \in Senders, ReleaseCall(s)
  PROVE  IInv' /\ \A t \in Senders : Reply(t)' = Reply(t)
<1> DEFINE m == msg[s]
           first == ~msgs[m].isSyncFini
<1>1. m \in Messages /\ m \in Called /\ pc[s] = "release" /\ ~Given(m) /\ msgs[m].isSync
      /\ m \notin freeMessages /\ (m \in Taken <=> first)
  BY NoneIsNone DEF IInv, TypeOK, OnePlace, TwoReleases, ReleaseCall, Called
<1>2. /\ msg' = [msg EXCEPT ![s] = None]
      /\ pc' = [pc EXCEPT ![s] = IF retMsg[s] = None THEN "idle" ELSE "got"]
      /\ UNCHANGED <<queues, containerOutEvent, m_bStop, retMsg, actorVars, dpc, dropped>>
      /\ msgs' = IF first THEN [msgs EXCEPT ![m].isSyncFini = TRUE] ELSE [msgs EXCEPT ![m] = Blank]
      /\ freeMessages' = IF first THEN freeMessages ELSE freeMessages \cup {m}
  BY <1>1 DEF ReleaseCall, Release
<1> HIDE DEF m, first
<1>3. /\ \A t \in Senders \ {s} : msg'[t] = msg[t] /\ pc'[t] = pc[t] /\ msg[t] # m
      /\ msg'[s] = None /\ pc'[s] \in {"idle", "got"} /\ (retMsg[s] = None => pc'[s] = "idle")
      /\ (retMsg[s] # None => pc'[s] = "got")
  BY <1>1, <1>2, NoneIsNone DEF IInv, TypeOK, Once, m
<1>4. /\ \A n \in Messages \ {m} : msgs'[n] = msgs[n]
      /\ first => /\ msgs'[m].isSync /\ msgs'[m].isSyncFini
                  /\ msgs'[m].replyMessage = msgs[m].replyMessage /\ msgs'[m].event = msgs[m].event
                  /\ msgs'[m].isSyncTimeout = msgs[m].isSyncTimeout
  BY <1>1, <1>2 DEF IInv, TypeOK
<1>5. TypeOK'
  <2>1. Blank \in MessageType /\ [msgs[m] EXCEPT !.isSyncFini = TRUE] \in MessageType
    BY <1>1, MessageFields DEF IInv, TypeOK
  <2>2. msgs' \in [Messages -> MessageType]
    BY <1>1, <1>2, <2>1 DEF IInv, TypeOK
  <2> QED
    BY <1>1, <1>2, <1>3, <2>2 DEF IInv, TypeOK, queues, actorVars
<1>6. Places'
  BY <1>2, <1>3 DEF IInv, Places, actorVars
<1>7. \A t \in Senders : Reply(t)' = Reply(t)
  BY <1>1, <1>3, <1>4 DEF IInv, TypeOK, Reply
<1>8. /\ Taken' = Taken /\ Queued' = Queued /\ Called' = Called \ {m}
      /\ \A n \in Messages : Given(n)' <=> Given(n)
  <2>1. Taken' = Taken /\ Queued' = Queued
    BY <1>2 DEF Taken, Queued, queues, actorVars
  <2>2. Called' = Called \ {m}
    BY <1>3, NoneIsNone DEF Called, m
  <2>3. \A n \in Messages : Given(n)' <=> Given(n)
    BY <1>2, <1>7 DEF Given, queues
  <2> QED
    BY <2>1, <2>2, <2>3
<1>9. Once'
  BY <1>2, <1>3, <1>7, <1>8 DEF IInv, Once, queues, actorVars
<1>10. OnePlace'
  BY <1>1, <1>2, <1>8 DEF IInv, OnePlace
<1>11. TwoReleases'
  BY <1>1, <1>2, <1>4, <1>8 DEF IInv, TwoReleases
<1>12. NotAnswered'
  <2>1. Unanswered' = Unanswered /\ Unanswered \subseteq Messages /\ Unanswered \subseteq Taken
    BY <1>2, Elements DEF IInv, TypeOK, Unanswered, Taken, Queued, queues, actorVars
  <2>2. ASSUME m \in Unanswered
        PROVE  first /\ msgs[m].isSyncTimeout
    BY <1>1, <1>3, <2>1, <2>2 DEF IInv, NotAnswered, m
  <2> QED
    BY <1>3, <1>4, <2>1, <2>2 DEF IInv, NotAnswered, m
<1> QED
  BY <1>5, <1>6, <1>7, <1>9, <1>10, <1>11, <1>12 DEF IInv

\* A message from the actor changes hands.
LEMMA ReceiveInInv ==
  ASSUME IInv, NEW s \in Senders, ReceiveIn(s)
  PROVE  IInv' /\ \A t \in Senders : Reply(t)' = Reply(t)
<1> DEFINE m == Head(inMessages)
<1>1. /\ m \in Messages /\ m \in ToSet(inMessages) /\ inMessages' \in Seq(Messages)
      /\ IsInjective(inMessages') /\ ToSet(inMessages') = ToSet(inMessages) \ {m}
  BY Popped DEF IInv, TypeOK, Once, ReceiveIn
<1>2. /\ pc[s] = "idle" /\ msg[s] = None /\ retMsg[s] = None
      /\ \A t \in Senders \ {s} : retMsg'[t] = retMsg[t] /\ pc'[t] = pc[t]
      /\ retMsg'[s] = m /\ pc'[s] = "got"
      /\ UNCHANGED <<msgs, freeMessages, outMessages, containerOutEvent, m_bStop, msg, actorVars, dpc,
                     dropped>>
  BY DEF IInv, TypeOK, Places, ReceiveIn
<1>3. retMsg' \in [Senders -> Messages \cup {None}] /\ pc' \in [Senders -> {"idle", "tell", "wait", "late",
                                                                         "release", "got"}]
  BY <1>1 DEF IInv, TypeOK, ReceiveIn
<1> HIDE DEF m
<1>4. TypeOK'
  BY <1>1, <1>2, <1>3, NoneIsNone DEF IInv, TypeOK, actorVars
<1>5. Places'
  BY <1>2 DEF IInv, Places, actorVars
<1>6. \A t \in Senders : Reply(t)' = Reply(t)
  BY <1>2 DEF Reply
<1>7. /\ Taken' = Taken /\ Queued' = Queued /\ Called' = Called
      /\ \A n \in Messages : Given(n)' <=> Given(n)
  <2>1. Taken' = Taken /\ Queued' = Queued /\ Called' = Called
    BY <1>2 DEF Taken, Queued, Called, actorVars
  <2>2. \A n \in Messages : Given(n)' <=> Given(n)
    BY <1>1, <1>2, <1>6, NoneIsNone DEF Given
  <2> QED
    BY <2>1, <2>2
<1>8. Once'
  BY <1>1, <1>2, <1>6, <1>7 DEF IInv, Once, actorVars
<1>9. OnePlace' /\ TwoReleases'
  BY <1>2, <1>7 DEF IInv, OnePlace, TwoReleases
<1>10. NotAnswered'
  <2>1. Unanswered' = Unanswered
    BY <1>2 DEF Unanswered, actorVars
  <2>2. \A t \in Senders : pc'[t] # "release" \/ pc'[t] = pc[t]
    BY <1>2
  <2> QED
    BY <1>2, <2>1, <2>2 DEF IInv, NotAnswered
<1> QED
  BY <1>4, <1>5, <1>6, <1>8, <1>9, <1>10 DEF IInv

\* A received message has one owner, who frees it.
LEMMA ReleaseReceivedInv ==
  ASSUME IInv, NEW s \in Senders, ReleaseReceived(s)
  PROVE  IInv' /\ \A t \in Senders : Reply(t)' = Reply(t)
<1> DEFINE m == retMsg[s]
<1>1. m \in Messages /\ Given(m) /\ pc[s] = "got" /\ msg[s] = None
      /\ m \notin Called /\ m \notin Taken /\ m \notin freeMessages /\ ~msgs[m].isSync
  BY NoneIsNone DEF IInv, TypeOK, Places, OnePlace, TwoReleases, ReleaseReceived, Given
<1>2. /\ retMsg' = [retMsg EXCEPT ![s] = None] /\ pc' = [pc EXCEPT ![s] = "idle"]
      /\ UNCHANGED <<queues, containerOutEvent, m_bStop, msg, actorVars, dpc, dropped>>
      /\ msgs' = [msgs EXCEPT ![m] = Blank] /\ freeMessages' = freeMessages \cup {m}
  BY <1>1 DEF ReleaseReceived, Release
<1> HIDE DEF m
<1>3. /\ \A t \in Senders \ {s} : retMsg'[t] = retMsg[t] /\ pc'[t] = pc[t] /\ retMsg[t] # m
      /\ retMsg'[s] = None /\ pc'[s] = "idle"
      /\ \A n \in Messages \ {m} : msgs'[n] = msgs[n]
      /\ \A t \in Senders : msg[t] # m /\ Reply(t) # m
      /\ m \notin ToSet(inMessages)
  BY <1>1, <1>2, NoneIsNone DEF IInv, TypeOK, Once, Called, m
<1>4. TypeOK'
  <2>1. msgs' \in [Messages -> MessageType]
    BY <1>1, <1>2, MessageFields DEF IInv, TypeOK
  <2> QED
    BY <1>1, <1>2, <1>3, <2>1 DEF IInv, TypeOK, queues, actorVars
<1>5. Places'
  BY <1>1, <1>2, <1>3 DEF IInv, Places, actorVars
<1>6. \A t \in Senders : Reply(t)' = Reply(t)
  BY <1>1, <1>2, <1>3 DEF IInv, TypeOK, Reply
<1>7. /\ Taken' = Taken /\ Queued' = Queued /\ Called' = Called
      /\ \A n \in Messages : Given(n)' <=> Given(n) /\ n # m
  <2>1. Taken' = Taken /\ Queued' = Queued /\ Called' = Called
    BY <1>2 DEF Taken, Queued, Called, queues, actorVars
  <2>2. \A n \in Messages : Given(n)' <=> Given(n) /\ n # m
    BY <1>2, <1>3, <1>6, NoneIsNone DEF Given, queues, m
  <2> QED
    BY <2>1, <2>2
<1>8. Once'
  BY <1>2, <1>3, <1>6, <1>7, Elements, NoneIsNone DEF IInv, TypeOK, Once, queues, actorVars
<1>9. OnePlace'
  BY <1>1, <1>2, <1>7 DEF IInv, OnePlace
<1>10. TwoReleases'
  BY <1>1, <1>3, <1>7 DEF IInv, TwoReleases
<1>11. NotAnswered'
  <2>1. Unanswered' = Unanswered /\ Unanswered \subseteq Messages \ {m}
    BY <1>1, <1>2, Elements DEF IInv, TypeOK, Unanswered, Taken, Queued, queues, actorVars
  <2> QED
    BY <1>2, <1>3, <2>1 DEF IInv, NotAnswered
<1> QED
  BY <1>4, <1>5, <1>6, <1>8, <1>9, <1>10, <1>11 DEF IInv

\* The actor's release of what it handled: the last one, or the first of a call's two.
LEMMA ReleaseHandledInv ==
  ASSUME IInv, ReleaseHandled
  PROVE  IInv' /\ \A t \in Senders : Reply(t)' = Reply(t)
<1> DEFINE m == amsg
           first == msgs[m].isSync /\ ~msgs[m].isSyncFini
<1>1. /\ m \in Messages /\ m \in Taken /\ m \in Queued /\ ~Given(m) /\ m \notin freeMessages
      /\ (m \in Called <=> first) /\ m \notin ToSet(outMessages) /\ m \notin dropped
  BY NoneIsNone DEF IInv, TypeOK, Once, OnePlace, TwoReleases, ReleaseHandled, Taken, Queued
<1>2. /\ amsg' = None /\ apc' = "loop"
      /\ UNCHANGED <<queues, containerOutEvent, m_bStop, senderVars, dpc, dropped>>
      /\ msgs' = IF first THEN [msgs EXCEPT ![m].isSyncFini = TRUE] ELSE [msgs EXCEPT ![m] = Blank]
      /\ freeMessages' = IF first THEN freeMessages ELSE freeMessages \cup {m}
  BY <1>1 DEF ReleaseHandled, Release
<1>3. /\ \A n \in Messages \ {m} : msgs'[n] = msgs[n]
      /\ first => /\ msgs'[m].isSync /\ msgs'[m].isSyncFini
                  /\ msgs'[m].replyMessage = msgs[m].replyMessage
  BY <1>1, <1>2 DEF IInv, TypeOK, MessageType
<1> HIDE DEF first
<1>4. TypeOK'
  <2>1. msgs' \in [Messages -> MessageType]
    BY <1>1, <1>2, MessageFields DEF IInv, TypeOK
  <2> QED
    BY <1>1, <1>2, <2>1 DEF IInv, TypeOK, queues, senderVars
<1>5. Places'
  BY <1>2 DEF IInv, Places, senderVars, ReleaseHandled
<1>6. \A t \in Senders : Reply(t)' = Reply(t)
  BY <1>1, <1>2, <1>3 DEF IInv, TypeOK, Reply, Called, senderVars
<1>7. /\ Taken' = Taken \ {m} /\ Queued' = Queued \ {m} /\ Called' = Called
      /\ \A n \in Messages : Given(n)' <=> Given(n)
  <2>1. Taken' = Taken \ {m} /\ Queued' = Queued \ {m} /\ Called' = Called
    BY <1>1, <1>2 DEF Taken, Queued, Called, queues, senderVars
  <2>2. \A n \in Messages : Given(n)' <=> Given(n)
    BY <1>2, <1>6 DEF Given, queues, senderVars
  <2> QED
    BY <2>1, <2>2
<1>8. Once'
  BY <1>1, <1>2, <1>6, <1>7, Elements, NoneIsNone DEF IInv, TypeOK, Once, queues, senderVars
<1>9. OnePlace'
  BY <1>1, <1>2, <1>7 DEF IInv, OnePlace
<1>10. TwoReleases'
  BY <1>1, <1>2, <1>3, <1>7 DEF IInv, TwoReleases, first
<1>11. NotAnswered'
  <2>1. Unanswered' \subseteq Unanswered \ {m} /\ Unanswered' \subseteq Messages
    BY <1>1, <1>2, Elements DEF IInv, TypeOK, Unanswered, queues
  <2> QED
    BY <1>2, <1>3, <2>1 DEF IInv, NotAnswered, senderVars
<1> QED
  BY <1>4, <1>5, <1>6, <1>8, <1>9, <1>10, <1>11 DEF IInv

\* Purge of a message for the senders, which has one owner.
LEMMA PurgeInInv ==
  ASSUME IInv, dpc = "join", apc = "ended", inMessages # <<>>, Release(Head(inMessages)),
         inMessages' = Tail(inMessages),
         UNCHANGED <<outMessages, containerOutEvent, m_bStop, senderVars, actorVars, dpc, dropped>>
  PROVE  IInv' /\ \A t \in Senders : Reply(t)' = Reply(t)
<1> DEFINE m == Head(inMessages)
<1>1. /\ m \in Messages /\ m \in ToSet(inMessages) /\ inMessages' \in Seq(Messages)
      /\ IsInjective(inMessages') /\ ToSet(inMessages') = ToSet(inMessages) \ {m}
  BY Popped DEF IInv, TypeOK, Once
<1>2. /\ Given(m) /\ m \notin Called /\ m \notin Taken /\ m \notin freeMessages /\ ~msgs[m].isSync
  BY <1>1 DEF IInv, OnePlace, TwoReleases, Given
<1>3. msgs' = [msgs EXCEPT ![m] = Blank] /\ freeMessages' = freeMessages \cup {m}
  BY <1>2 DEF Release
<1> HIDE DEF m
<1>4. /\ \A n \in Messages \ {m} : msgs'[n] = msgs[n]
      /\ \A t \in Senders : msg[t] # m /\ Reply(t) # m /\ retMsg[t] # m
  BY <1>1, <1>2, <1>3 DEF IInv, TypeOK, Once, Called
<1>5. TypeOK'
  <2>1. msgs' \in [Messages -> MessageType]
    BY <1>3, MessageFields DEF IInv, TypeOK
  <2> QED
    BY <1>1, <1>3, <2>1 DEF IInv, TypeOK, senderVars, actorVars
<1>6. Places'
  BY DEF IInv, Places, senderVars, actorVars
<1>7. \A t \in Senders : Reply(t)' = Reply(t)
  BY <1>4 DEF IInv, TypeOK, Reply, senderVars
<1>8. /\ Taken' = Taken /\ Queued' = Queued /\ Called' = Called
      /\ \A n \in Messages : Given(n)' <=> Given(n) /\ n # m
  <2>1. Taken' = Taken /\ Queued' = Queued /\ Called' = Called
    BY DEF Taken, Queued, Called, senderVars, actorVars
  <2>2. \A n \in Messages : Given(n)' <=> Given(n) /\ n # m
    BY <1>1, <1>4, <1>7 DEF Given, senderVars
  <2> QED
    BY <2>1, <2>2
<1>9. Once'
  BY <1>1, <1>7, <1>8 DEF IInv, Once, senderVars, actorVars
<1>10. OnePlace'
  BY <1>2, <1>3, <1>8 DEF IInv, OnePlace
<1>11. TwoReleases'
  BY <1>2, <1>4, <1>8 DEF IInv, TwoReleases
<1>12. NotAnswered'
  <2>1. Unanswered' = Unanswered /\ Unanswered \subseteq Messages \ {m}
    BY <1>2, Elements DEF IInv, TypeOK, Unanswered, Taken, Queued, actorVars
  <2> QED
    BY <1>4, <2>1 DEF IInv, NotAnswered, senderVars
<1> QED
  BY <1>5, <1>6, <1>7, <1>9, <1>10, <1>11, <1>12 DEF IInv

\* Purge of a message that the actor has not taken: as if it had handled it.
LEMMA PurgeOutMessagesInv ==
  ASSUME IInv, dpc = "join", apc = "ended", outMessages # <<>>, Release(Head(outMessages)),
         outMessages' = Tail(outMessages),
         UNCHANGED <<inMessages, containerOutEvent, m_bStop, senderVars, actorVars, dpc, dropped>>
  PROVE  IInv' /\ \A t \in Senders : Reply(t)' = Reply(t)
<1> DEFINE m == Head(outMessages)
           first == msgs[m].isSync /\ ~msgs[m].isSyncFini
<1>1. /\ m \in Messages /\ m \in ToSet(outMessages) /\ outMessages' \in Seq(Messages)
      /\ IsInjective(outMessages') /\ ToSet(outMessages') = ToSet(outMessages) \ {m}
  BY Popped DEF IInv, TypeOK, Once
<1>2. /\ m \in Taken /\ m \in Queued /\ ~Given(m) /\ m \notin freeMessages
      /\ (m \in Called <=> first) /\ m # amsg /\ m \notin dropped
  BY <1>1 DEF IInv, Once, OnePlace, TwoReleases, Taken, Queued
<1>3. /\ msgs' = IF first THEN [msgs EXCEPT ![m].isSyncFini = TRUE] ELSE [msgs EXCEPT ![m] = Blank]
      /\ freeMessages' = IF first THEN freeMessages ELSE freeMessages \cup {m}
  BY DEF Release
<1> HIDE DEF m
<1>4. /\ \A n \in Messages \ {m} : msgs'[n] = msgs[n]
      /\ first => /\ msgs'[m].isSync /\ msgs'[m].isSyncFini
                  /\ msgs'[m].replyMessage = msgs[m].replyMessage
  BY <1>1, <1>3 DEF IInv, TypeOK, MessageType
<1> HIDE DEF first
<1>5. TypeOK'
  <2>1. msgs' \in [Messages -> MessageType]
    BY <1>1, <1>3, MessageFields DEF IInv, TypeOK
  <2> QED
    BY <1>1, <1>3, <2>1 DEF IInv, TypeOK, senderVars, actorVars
<1>6. Places'
  BY DEF IInv, Places, senderVars, actorVars
<1>7. \A t \in Senders : Reply(t)' = Reply(t)
  BY <1>1, <1>2, <1>4 DEF IInv, TypeOK, Reply, Called, senderVars
<1>8. /\ Taken' = Taken \ {m} /\ Queued' = Queued \ {m} /\ Called' = Called
      /\ \A n \in Messages : Given(n)' <=> Given(n)
  <2>1. Taken' = Taken \ {m} /\ Queued' = Queued \ {m} /\ Called' = Called
    BY <1>1, <1>2 DEF Taken, Queued, Called, senderVars, actorVars
  <2>2. \A n \in Messages : Given(n)' <=> Given(n)
    BY <1>7 DEF Given, senderVars
  <2> QED
    BY <2>1, <2>2
<1>9. Once'
  BY <1>1, <1>7, <1>8 DEF IInv, Once, senderVars, actorVars
<1>10. OnePlace'
  BY <1>1, <1>2, <1>3, <1>8 DEF IInv, OnePlace
<1>11. TwoReleases'
  BY <1>1, <1>2, <1>4, <1>8 DEF IInv, TwoReleases, first
<1>12. NotAnswered'
  <2>1. Unanswered' \subseteq Unanswered \ {m} /\ Unanswered' \subseteq Messages
    BY <1>1, <1>2, Elements DEF IInv, TypeOK, Places, Unanswered, actorVars
  <2> QED
    BY <1>4, <2>1 DEF IInv, NotAnswered, senderVars
<1> QED
  BY <1>5, <1>6, <1>7, <1>9, <1>10, <1>11, <1>12 DEF IInv

\* The top of the actor's loop: the message that it has, or takes, stays on its side.
LEMMA LoopInv ==
  ASSUME IInv, Loop
  PROVE  IInv' /\ \A t \in Senders : Reply(t)' = Reply(t)
<1>1. /\ UNCHANGED <<msgs, freeMessages, inMessages, containerOutEvent, m_bStop, senderVars, dpc>>
      /\ apc = "loop"
      /\ \/ /\ apc' = "ended" /\ amsg' = None /\ dropped' = dropped \cup ({amsg} \ {None})
            /\ outMessages' = outMessages
         \/ apc' \in {"again", "wait"} /\ UNCHANGED <<amsg, outMessages, dropped>>
            /\ (apc' = "wait" => amsg = None) /\ (apc' = "again" => amsg # None)
         \/ /\ amsg = None /\ outMessages # <<>> /\ apc' = "handle" /\ dropped' = dropped
            /\ amsg' = Head(outMessages) /\ outMessages' = Tail(outMessages)
  BY DEF Loop
<1>2. /\ outMessages' \in Seq(Messages) /\ IsInjective(outMessages') /\ amsg' \in Messages \cup {None}
      /\ amsg' \notin ToSet(outMessages') /\ dropped' \subseteq Messages
      /\ ToSet(outMessages') \cup ({amsg'} \ {None}) \cup dropped' = Taken
      /\ dropped' \cap (ToSet(outMessages') \cup ({amsg'} \ {None})) = {}
      /\ apc' = "handle" => amsg' # None
  <2>1. CASE amsg = None /\ outMessages # <<>> /\ dropped' = dropped
             /\ amsg' = Head(outMessages) /\ outMessages' = Tail(outMessages)
    <3>1. /\ amsg' \in Messages /\ amsg' \in ToSet(outMessages) /\ outMessages' \in Seq(Messages)
          /\ IsInjective(outMessages') /\ ToSet(outMessages') = ToSet(outMessages) \ {amsg'}
      BY <2>1, Popped DEF IInv, TypeOK, Once
    <3> QED
      BY <2>1, <3>1, NoneIsNone DEF IInv, TypeOK, Once, Taken, Queued
  <2>2. CASE outMessages' = outMessages /\ apc' # "handle"
    BY <1>1, <2>2, Elements, NoneIsNone DEF IInv, TypeOK, Once, Taken, Queued
  <2> QED
    BY <1>1, <2>1, <2>2
<1>3. TypeOK'
  BY <1>1, <1>2 DEF IInv, TypeOK, senderVars
<1>4. Places'
  BY <1>1 DEF IInv, TypeOK, Places, senderVars
<1>5. \A t \in Senders : Reply(t)' = Reply(t)
  BY <1>1 DEF Reply, senderVars
<1>6. /\ Taken' = Taken /\ Called' = Called
      /\ \A n \in Messages : Given(n)' <=> Given(n)
  <2>1. Taken' = Taken /\ Called' = Called
    BY <1>1, <1>2 DEF Taken, Queued, Called, senderVars
  <2>2. \A n \in Messages : Given(n)' <=> Given(n)
    BY <1>1, <1>5 DEF Given, senderVars
  <2> QED
    BY <2>1, <2>2
<1>7. Once'
  BY <1>1, <1>2, <1>5 DEF IInv, Once, Queued, senderVars
<1>8. OnePlace' /\ TwoReleases'
  BY <1>1, <1>6 DEF IInv, OnePlace, TwoReleases
<1>9. NotAnswered'
  <2>1. Unanswered = Taken /\ Unanswered' \subseteq Taken'
    BY <1>1 DEF Unanswered, Taken, Queued
  <2> QED
    BY <1>1, <1>6, <2>1 DEF IInv, NotAnswered, senderVars
<1> QED
  BY <1>3, <1>4, <1>5, <1>7, <1>8, <1>9 DEF IInv

\* A message that was free is the actor's.
LEMMA TimesOutInv ==
  ASSUME IInv, NEW m \in Messages, TimesOut(m)
  PROVE  IInv' /\ \A t \in Senders : Reply(t)' = Reply(t)
<1>1. m \notin Taken /\ m \notin Called /\ ~Given(m) /\ m # None /\ amsg = None
  BY NoneIsNone DEF IInv, OnePlace, Places, TimesOut, GetMessage
<1>2. m \notin ToSet(outMessages) /\ m \notin dropped /\ \A t \in Senders : msg[t] # m
  BY <1>1 DEF Taken, Queued, Called
<1>3. /\ msgs'[m] = Blank
      /\ \A n \in Messages \ {m} : msgs'[n] = msgs[n]
  BY DEF IInv, TypeOK, TimesOut, Blank
<1>4. TypeOK'
  <2>1. msgs' \in [Messages -> MessageType]
    BY MessageFields DEF IInv, TypeOK, TimesOut, Blank
  <2> QED
    BY <1>1, <2>1 DEF IInv, TypeOK, TimesOut, GetMessage, queues, senderVars
<1>5. Places'
  BY DEF IInv, Places, TimesOut, senderVars
<1>6. \A t \in Senders : Reply(t)' = Reply(t)
  BY <1>2, <1>3 DEF IInv, TypeOK, Reply, TimesOut, senderVars
<1>7. /\ Taken' = Taken \cup {m} /\ Queued' = Queued \cup {m} /\ Called' = Called
      /\ \A n \in Messages : Given(n)' <=> Given(n)
  <2>1. Taken' = Taken \cup {m} /\ Queued' = Queued \cup {m} /\ Called' = Called
    BY <1>1 DEF Taken, Queued, Called, TimesOut, queues, senderVars
  <2>2. \A n \in Messages : Given(n)' <=> Given(n)
    BY <1>6 DEF Given, TimesOut, queues, senderVars
  <2> QED
    BY <2>1, <2>2
<1>8. Once'
  BY <1>2, <1>6, <1>7 DEF IInv, Once, TimesOut, queues, senderVars
<1>9. OnePlace'
  BY <1>1, <1>7 DEF IInv, OnePlace, TimesOut, GetMessage
<1>10. TwoReleases'
  BY <1>1, <1>3, <1>7, MessageFields DEF IInv, TwoReleases
<1>11. NotAnswered'
  <2>1. Unanswered' \subseteq Unanswered \cup {m} /\ Unanswered \subseteq Messages \ {m}
    BY <1>1, <1>2, Elements DEF IInv, TypeOK, Unanswered, TimesOut, queues
  <2>2. ASSUME NEW n \in Unanswered, n # m
        PROVE  /\ msgs'[n].replyMessage = None /\ ~msgs'[n].event
               /\ msgs'[n].isSync =>
                    \/ msgs'[n].isSyncTimeout
                    \/ \E s \in Senders : msg'[s] = n /\ pc'[s] # "release"
    BY <1>3, <2>1, <2>2 DEF IInv, NotAnswered, TimesOut, senderVars
  <2> QED
    BY <1>3, <2>1, <2>2, MessageFields DEF NotAnswered
<1> QED
  BY <1>4, <1>5, <1>6, <1>8, <1>9, <1>10, <1>11 DEF IInv

\* What PurgeOut takes from the queue is dropped.
LEMMA PurgeOutInv ==
  ASSUME IInv, NEW purged, PurgeOut(purged)
  PROVE  IInv' /\ \A t \in Senders : Reply(t)' = Reply(t)
<1>1. /\ outMessages' \in Seq(Messages) /\ IsInjective(outMessages')
      /\ ToSet(outMessages') = ToSet(outMessages) \ purged
  BY KeptFound DEF IInv, TypeOK, Once, PurgeOut
<1>2. ToSet(outMessages) \subseteq Messages /\ purged \subseteq ToSet(outMessages)
  BY Elements DEF IInv, TypeOK, PurgeOut
<1>3. TypeOK'
  BY <1>1, <1>2 DEF IInv, TypeOK, PurgeOut, Handling, senderVars
<1>4. Places'
  BY DEF IInv, TypeOK, Places, PurgeOut, Handling, senderVars
<1>5. \A t \in Senders : Reply(t)' = Reply(t)
  BY DEF Reply, PurgeOut, senderVars
<1>6. /\ Taken' = Taken /\ Called' = Called
      /\ \A n \in Messages : Given(n)' <=> Given(n)
  <2>1. Taken' = Taken /\ Called' = Called
    BY <1>1, <1>2 DEF Taken, Queued, Called, PurgeOut, senderVars
  <2>2. \A n \in Messages : Given(n)' <=> Given(n)
    BY <1>5 DEF Given, PurgeOut, senderVars
  <2> QED
    BY <2>1, <2>2
<1>7. Once'
  <2>1. amsg' \notin ToSet(outMessages') /\ dropped' \cap Queued' = {}
    BY <1>1, <1>2 DEF IInv, Once, Queued, PurgeOut
  <2> QED
    BY <1>1, <1>5, <2>1 DEF IInv, Once, PurgeOut, senderVars
<1>8. OnePlace' /\ TwoReleases'
  BY <1>6 DEF IInv, OnePlace, TwoReleases, PurgeOut
<1>9. NotAnswered'
  <2>1. Unanswered' \subseteq Unanswered
    BY <1>1, <1>2 DEF Unanswered, PurgeOut
  <2> QED
    BY <2>1 DEF IInv, NotAnswered, PurgeOut, senderVars
<1> QED
  BY <1>3, <1>4, <1>5, <1>7, <1>8, <1>9 DEF IInv

\* A message that was free goes to the senders.
LEMMA ReplyAsyncInv ==
  ASSUME IInv, NEW m \in Messages, ReplyAsync(m)
  PROVE  IInv' /\ \A t \in Senders : Reply(t)' = Reply(t)
<1>1. m \notin Taken /\ m \notin Called /\ ~Given(m) /\ m # None /\ amsg \in Messages
  BY NoneIsNone DEF IInv, TypeOK, OnePlace, ReplyAsync, GetMessage, Handling
<1>2. m \notin ToSet(inMessages) /\ \A t \in Senders : msg[t] # m /\ retMsg[t] # m /\ Reply(t) # m
  BY <1>1 DEF Called, Given
<1>3. /\ inMessages' \in Seq(Messages) /\ ToSet(inMessages') = ToSet(inMessages) \cup {m}
      /\ IsInjective(inMessages')
  BY <1>2, Pushed DEF IInv, TypeOK, Once, ReplyAsync
<1>4. /\ msgs'[m] = Message(None, FALSE, amsg)
      /\ \A n \in Messages \ {m} : msgs'[n] = msgs[n]
  BY DEF IInv, TypeOK, ReplyAsync
<1>5. TypeOK'
  <2>1. msgs' \in [Messages -> MessageType]
    BY <1>1 DEF IInv, TypeOK, ReplyAsync, Message, MessageType
  <2> QED
    BY <1>3, <2>1 DEF IInv, TypeOK, ReplyAsync, GetMessage, Handling, senderVars
<1>6. Places'
  BY DEF IInv, TypeOK, Places, ReplyAsync, Handling, senderVars
<1>7. \A t \in Senders : Reply(t)' = Reply(t)
  BY <1>2, <1>4 DEF IInv, TypeOK, Reply, ReplyAsync, senderVars
<1>8. /\ Taken' = Taken /\ Queued' = Queued /\ Called' = Called
      /\ \A n \in Messages : Given(n)' <=> Given(n) \/ n = m
  <2>1. Taken' = Taken /\ Queued' = Queued /\ Called' = Called
    BY DEF Taken, Queued, Called, ReplyAsync, senderVars
  <2>2. \A n \in Messages : Given(n)' <=> Given(n) \/ n = m
    BY <1>3, <1>7 DEF Given, ReplyAsync, senderVars
  <2> QED
    BY <2>1, <2>2
<1>9. Once'
  BY <1>2, <1>3, <1>7, <1>8 DEF IInv, Once, ReplyAsync, senderVars
<1>10. OnePlace'
  BY <1>1, <1>8 DEF IInv, OnePlace, ReplyAsync, GetMessage
<1>11. TwoReleases'
  BY <1>1, <1>4, <1>8 DEF IInv, TwoReleases, Message
<1>12. NotAnswered'
  <2>1. Unanswered' \subseteq Unanswered /\ Unanswered \subseteq Messages \ {m}
    BY <1>1, Elements DEF IInv, TypeOK, Unanswered, Taken, Queued, ReplyAsync
  <2> QED
    BY <1>4, <2>1 DEF IInv, NotAnswered, ReplyAsync, senderVars
<1> QED
  BY <1>5, <1>6, <1>7, <1>9, <1>10, <1>11, <1>12 DEF IInv

(***************************************************************************)
(* A message that was free is the reply in a call whose sender has not     *)
(* given up, and so will look for it; or there is no reply.                *)
(***************************************************************************)
LEMMA ReplySyncInv ==
  ASSUME IInv, ReplySync
  PROVE  /\ IInv'
         /\ \/ \A t \in Senders : Reply(t)' = Reply(t)
            \/ \E s \in Senders :
                 /\ msg[s] # None /\ pc[s] # "release"
                 /\ Reply(s) = None /\ Reply(s)' # None
                 /\ \A t \in Senders \ {s} : Reply(t)' = Reply(t)
<1>1. /\ amsg \in Messages /\ amsg \in Taken /\ amsg \in Unanswered /\ msgs[amsg].isSync
      /\ msgs[amsg].replyMessage = None
  BY DEF IInv, TypeOK, NotAnswered, Unanswered, Taken, Queued, ReplySync, Handling
<1>2. /\ apc' = "set" /\ amsg # None
      /\ UNCHANGED <<queues, containerOutEvent, m_bStop, senderVars, amsg, dpc, dropped>>
  BY <1>1, NoneIsNone DEF ReplySync
<1>3. Places'
  BY <1>2 DEF IInv, TypeOK, Places, ReplySync, Handling, senderVars
<1>4. Unanswered' \subseteq Unanswered \ {amsg}
  BY <1>2 DEF IInv, Once, Queued, Unanswered, queues
<1>5. ASSUME UNCHANGED <<msgs, freeMessages>>
      PROVE  IInv' /\ \A t \in Senders : Reply(t)' = Reply(t)
  <2>1. TypeOK'
    BY <1>2, <1>5 DEF IInv, TypeOK, queues, senderVars
  <2>2. \A t \in Senders : Reply(t)' = Reply(t)
    BY <1>2, <1>5 DEF Reply, senderVars
  <2>3. Once' /\ OnePlace' /\ TwoReleases'
    BY <1>2, <1>5, <2>2, OwnersKept DEF senderVars
  <2>4. NotAnswered'
    BY <1>2, <1>4, <1>5 DEF IInv, NotAnswered, senderVars
  <2> QED
    BY <1>3, <2>1, <2>2, <2>3, <2>4 DEF IInv
<1>6. ASSUME ~msgs[amsg].isSyncTimeout, NEW m \in Messages, GetMessage(m),
             msgs' = [msgs EXCEPT ![m] = Message(None, FALSE, amsg), ![amsg].replyMessage = m]
      PROVE  /\ IInv'
             /\ \E s \in Senders :
                  /\ msg[s] # None /\ pc[s] # "release"
                  /\ Reply(s) = None /\ Reply(s)' # None
                  /\ \A t \in Senders \ {s} : Reply(t)' = Reply(t)
  <2>1. /\ m \notin Taken /\ m \notin Called /\ ~Given(m) /\ m # None /\ m # amsg
        /\ freeMessages' = freeMessages \ {m} /\ m \in freeMessages
    BY <1>1, <1>6, NoneIsNone DEF IInv, OnePlace, GetMessage
  <2>2. /\ \A t \in Senders : msg[t] # m /\ retMsg[t] # m /\ Reply(t) # m
        /\ m \notin ToSet(inMessages)
    BY <2>1 DEF Called, Given
  <2>3. PICK s \in Senders : msg[s] = amsg /\ pc[s] \in {"tell", "wait", "late"}
    BY <1>1, <1>2, <1>6 DEF IInv, NotAnswered, Places
  <2>4. /\ msgs'[m] = Message(None, FALSE, amsg)
        /\ msgs'[amsg] = [msgs[amsg] EXCEPT !.replyMessage = m]
        /\ \A n \in Messages \ {m, amsg} : msgs'[n] = msgs[n]
        /\ msgs'[amsg].isSync /\ msgs'[amsg].isSyncFini = msgs[amsg].isSyncFini
    <3>1. msgs \in [Messages -> MessageType] /\ msgs[amsg] \in MessageType
      BY <1>1 DEF IInv, TypeOK
    <3>2. /\ msgs'[m] = Message(None, FALSE, amsg)
          /\ msgs'[amsg] = [msgs[amsg] EXCEPT !.replyMessage = m]
          /\ \A n \in Messages \ {m, amsg} : msgs'[n] = msgs[n]
      BY <1>1, <1>6, <2>1, <3>1
    <3> QED
      BY <1>1, <3>1, <3>2 DEF MessageType
  <2>5. TypeOK'
    <3>1. Message(None, FALSE, amsg) \in MessageType
      BY <1>1 DEF Message, MessageType
    <3>2. [msgs[amsg] EXCEPT !.replyMessage = m] \in MessageType
      BY <1>1, MessageFields DEF IInv, TypeOK
    <3>3. msgs' \in [Messages -> MessageType]
      BY <1>6, <2>4, <3>1, <3>2 DEF IInv, TypeOK
    <3> QED
      BY <1>2, <2>1, <3>3 DEF IInv, TypeOK, queues, senderVars
  <2>6. /\ Reply(s) = None /\ Reply(s)' = m
        /\ \A t \in Senders \ {s} : msg[t] # amsg /\ Reply(t)' = Reply(t)
    <3>1. \A t \in Senders \ {s} : msg[t] # amsg
      BY <1>2, <2>3 DEF IInv, Once
    <3>2. msgs'[amsg].replyMessage = m
      BY <1>1, <2>4 DEF IInv, TypeOK, MessageType
    <3>3. Reply(s) = None /\ Reply(s)' = m
      BY <1>1, <1>2, <2>3, <3>2 DEF Reply, senderVars
    <3>4. \A t \in Senders \ {s} : Reply(t)' = Reply(t)
      BY <1>2, <2>2, <2>4, <3>1 DEF IInv, TypeOK, Reply, senderVars
    <3> QED
      BY <3>1, <3>3, <3>4
  <2>7. /\ Taken' = Taken /\ Queued' = Queued /\ Called' = Called
        /\ \A n \in Messages : Given(n)' <=> Given(n) \/ n = m
    <3>1. Taken' = Taken /\ Queued' = Queued /\ Called' = Called
      BY <1>2 DEF Taken, Queued, Called, queues, senderVars
    <3>2. \A n \in Messages : Given(n)' <=> Given(n) \/ n = m
      BY <1>2, <2>6, NoneIsNone DEF Given, queues, senderVars
    <3> QED
      BY <3>1, <3>2
  <2>8. Once'
    BY <1>2, <2>2, <2>6, <2>7 DEF IInv, Once, queues, senderVars
  <2>9. OnePlace'
    BY <2>1, <2>7 DEF IInv, OnePlace
  <2>10. TwoReleases'
    <3>1. ~msgs'[m].isSync
      BY <2>4 DEF Message
    <3>2. \A n \in Messages \ {m} :
            msgs'[n].isSync = msgs[n].isSync /\ msgs'[n].isSyncFini = msgs[n].isSyncFini
      BY <1>1, <2>4
    <3> QED
      BY <2>1, <2>7, <3>1, <3>2 DEF IInv, TwoReleases
  <2>11. NotAnswered'
    <3>1. Unanswered \subseteq Messages \ {m}
      BY <2>1, Elements DEF IInv, TypeOK, Unanswered, Taken, Queued
    <3> QED
      BY <1>2, <1>4, <2>4, <3>1 DEF IInv, NotAnswered, senderVars
  <2> QED
    BY <1>2, <1>3, <2>1, <2>3, <2>5, <2>6, <2>8, <2>9, <2>10, <2>11 DEF IInv
<1> QED
  BY <1>5, <1>6 DEF ReplySync, StoreReply

-------------------------------------------------------------------------------
(* The inductive invariant *)

\* PurgeMessage takes from inMessages first.
LEMMA PurgeMessageInv ==
  ASSUME IInv, PurgeMessage
  PROVE  IInv' /\ \A t \in Senders : Reply(t)' = Reply(t)
BY PurgeInInv, PurgeOutMessagesInv DEF PurgeMessage

\* No step leaves the invariant.
LEMMA NextInv ==
  ASSUME IInv, [Next]_vars
  PROVE  IInv'
<1>1. ASSUME NEW s \in Senders, Sender(s)
      PROVE  IInv'
  BY <1>1, SendOutInv, ReceiveInInv, SenderMoves, TakeReply, ReleaseCallInv, ReleaseReceivedInv
     DEF Sender, SenderGoesOn
<1>2. ASSUME ActorGoesOn
      PROVE  IInv'
  BY <1>2, LoopInv, ActorMoves, PurgeOutInv, ReplyAsyncInv, ReplySyncInv, SetRepliedInv, ReleaseHandledInv
     DEF ActorGoesOn
<1>3. ASSUME NEW m \in Messages, TimesOut(m)
      PROVE  IInv'
  BY <1>3, TimesOutInv
<1>4. ASSUME Disposer
      PROVE  IInv'
  BY <1>4, ActorMoves, PurgeMessageInv DEF Disposer
<1>5. CASE UNCHANGED vars
  BY <1>5, ActorMoves
<1> QED
  BY <1>1, <1>2, <1>3, <1>4, <1>5 DEF Next

\* The inductive invariant.
LEMMA Invariant == Spec => []IInv
BY InitInv, NextInv, PTL DEF Spec

-------------------------------------------------------------------------------
(* The theorems *)

\* A thread that is about to use a message has one, wherever the protocol is.
THEOREM PlacesHaveMessages == Spec => []TypeOK
BY Invariant, PTL DEF IInv

\* A message is freed by the last who has it: what is free nobody has.
THEOREM LastReleaseFrees == Spec => []FreedOnce
<1>1. IInv => FreedOnce
  <2> SUFFICES ASSUME IInv, NEW m \in freeMessages
               PROVE  m \notin InUse \cup dropped
    BY DEF FreedOnce
  <2>1. m \in Messages /\ m \notin Taken /\ m \notin Called /\ ~Given(m) /\ m # None
    BY NoneIsNone DEF IInv, TypeOK, OnePlace
  <2> QED
    BY <2>1 DEF InUse, Taken, Queued, Called, Given
<1> QED
  BY <1>1, Invariant, PTL

\* A message that nobody has is free: none is left behind.
THEOREM NoMessageIsLost == Spec => []NoLeak
<1>1. IInv => NoLeak
  BY NoneIsNone DEF IInv, OnePlace, NoLeak, InUse, Taken, Queued, Called, Given
<1> QED
  BY <1>1, Invariant, PTL

\* The actor sleeps only when there is nothing to do or it is about to be told.
THEOREM NoSignalMissed == Spec => []NoSleepOnWork
<1>1. Init => NoSleepOnWork
  BY DEF Init, NoSleepOnWork
<1>2. ASSUME TypeOK, NoSleepOnWork, [Next]_vars
      PROVE  NoSleepOnWork'
  <2>1. ASSUME NEW s \in Senders, NEW sync \in BOOLEAN, NEW m \in Messages, SendOut(s, sync, m)
        PROVE  NoSleepOnWork'
    BY <1>2, <2>1 DEF TypeOK, SendOut, NoSleepOnWork, actorVars
  <2>2. ASSUME NEW s \in Senders, ReceiveIn(s) \/ SenderGoesOn(s)
        PROVE  NoSleepOnWork'
    <3>1. CASE TellActor(s)
      BY <3>1 DEF TellActor, NoSleepOnWork
    <3>2. ASSUME ~TellActor(s)
          PROVE  \A t \in Senders : pc[t] = "tell" => pc'[t] = "tell"
      BY <1>2, <2>2, <3>2 DEF TypeOK, ReceiveIn, SenderGoesOn, CallAnswered, CallTimesOut, GiveUp,
                              ReleaseCall, ReleaseReceived
    <3>3. ASSUME ~TellActor(s)
          PROVE  UNCHANGED <<apc, outMessages, m_bStop, containerOutEvent, dpc>>
      BY <2>2, <3>3 DEF ReceiveIn, SenderGoesOn, CallAnswered, CallTimesOut, GiveUp, ReleaseCall,
                        ReleaseReceived, queues, actorVars
    <3> QED
      BY <1>2, <3>1, <3>2, <3>3 DEF NoSleepOnWork
  <2>3. CASE ActorGoesOn \/ \E m \in Messages : TimesOut(m)
    BY <2>3 DEF NoSleepOnWork, ActorGoesOn, Loop, Woken, SelfTrigger, NoReply, PurgeOut, ReplyAsync,
                ReplySync, SetReplied, ReleaseHandled, TimesOut
  <2>4. CASE Disposer \/ UNCHANGED vars
    BY <1>2, <2>4 DEF NoSleepOnWork, Disposer, Dispose, TellStop, PurgeMessage, Disposed, Start, vars,
                      queues, senderVars, actorVars
  <2> QED
    BY <1>2, <2>1, <2>2, <2>3, <2>4 DEF Next, Sender
<1> QED
  BY <1>1, <1>2, PlacesHaveMessages, PTL DEF Spec

-------------------------------------------------------------------------------
(* The refinement *)

\* The call of every sender as SyncCalls has it.
call == [s \in Senders |-> CallOf(s)]

\* A step that leaves the calls' messages, replies and releases alone.
LEMMA CallsKept ==
  ASSUME UNCHANGED msg, \A t \in Senders : Reply(t)' = Reply(t),
         \A t \in Senders : msg[t] # None =>
           /\ pc[t] = "release" <=> pc'[t] = "release"
           /\ pc[t] = "release" => retMsg'[t] = retMsg[t]
  PROVE  UNCHANGED call
<1>1. \A t \in Senders : CallOf(t)' = CallOf(t)
  BY DEF CallOf
<1> QED
  BY <1>1 DEF call

\* A step that changes the call of one sender.
LEMMA OneCall ==
  ASSUME NEW s \in Senders, NEW a, NEW b, CallOf(s) = a, CallOf(s)' = b,
         \A t \in Senders \ {s} : CallOf(t)' = CallOf(t)
  PROVE  call[s] = a /\ call' = [call EXCEPT ![s] = b]
BY DEF call

\* The sender's steps in SyncCalls: it asks, takes the answer or gives up, and is done.
LEMMA SenderCalls ==
  ASSUME IInv, NEW s \in Senders, Sender(s)
  PROVE  [Calls!Next]_call
<1>1. ASSUME NEW sync \in BOOLEAN, NEW m \in Messages, SendOut(s, sync, m)
      PROVE  [Calls!Next]_call
  <2>1. /\ msg[s] = None /\ msg'[s] = (IF sync THEN m ELSE None) /\ pc'[s] = "tell" /\ m # None
        /\ \A t \in Senders \ {s} : msg'[t] = msg[t] /\ pc'[t] = pc[t] /\ retMsg' = retMsg
        /\ Reply(s) = None
    BY <1>1, NoneIsNone DEF IInv, TypeOK, Places, SendOut, Reply
  <2>2. \A t \in Senders : Reply(t)' = Reply(t)
    BY <1>1, SendOutInv
  <2>3. /\ CallOf(s) = "idle" /\ CallOf(s)' = IF sync THEN "asked" ELSE "idle"
        /\ \A t \in Senders \ {s} : CallOf(t)' = CallOf(t)
    BY <2>1, <2>2 DEF CallOf
  <2>4. CASE sync
    <3>1. call[s] = "idle" /\ call' = [call EXCEPT ![s] = "asked"]
      BY <2>3, <2>4, OneCall
    <3> QED
      BY <3>1 DEF Calls!Next, Calls!Ask, call
  <2>5. CASE ~sync
    BY <2>3, <2>5 DEF call
  <2> QED
    BY <2>4, <2>5
<1>2. ASSUME ReceiveIn(s) \/ TellActor(s) \/ CallTimesOut(s) \/ ReleaseReceived(s)
      PROVE  [Calls!Next]_call
  <2>1. \A t \in Senders : Reply(t)' = Reply(t)
    BY <1>2, ReceiveInInv, SenderMoves, ReleaseReceivedInv
  <2>2. /\ UNCHANGED msg
        /\ \A t \in Senders : msg[t] # None =>
             /\ pc[t] = "release" <=> pc'[t] = "release"
             /\ pc[t] = "release" => retMsg'[t] = retMsg[t]
    BY <1>2 DEF IInv, TypeOK, Places, ReceiveIn, TellActor, CallTimesOut, ReleaseReceived
  <2> QED
    BY <2>1, <2>2, CallsKept
<1>3. ASSUME CallAnswered(s) \/ GiveUp(s)
      PROVE  [Calls!Next]_call
  <2> DEFINE r == msgs[msg[s]].replyMessage
  <2>1. /\ msg[s] # None /\ Reply(s) = r /\ pc[s] # "release"
        /\ retMsg'[s] = r /\ pc'[s] = "release" /\ msg' = msg
        /\ \A t \in Senders \ {s} : retMsg'[t] = retMsg[t] /\ pc'[t] = pc[t]
    BY <1>3 DEF IInv, TypeOK, CallAnswered, GiveUp, Reply
  <2> HIDE DEF r
  <2>2. \A t \in Senders \ {s} : CallOf(t)' = CallOf(t)
    BY <1>3, <2>1, TakeReply DEF CallOf
  <2>3. CASE r = None
    <3>1. CallOf(s) = "asked" /\ CallOf(s)' = "failed"
      BY <2>1, <2>3 DEF CallOf
    <3>2. call[s] = "asked" /\ call' = [call EXCEPT ![s] = "failed"]
      BY <2>2, <3>1, OneCall
    <3> QED
      BY <3>2 DEF Calls!Next, Calls!GiveUp, call
  <2>4. CASE r # None
    <3>1. CallOf(s) = "answered" /\ CallOf(s)' = "served"
      BY <2>1, <2>4 DEF CallOf
    <3>2. call[s] = "answered" /\ call' = [call EXCEPT ![s] = "served"]
      BY <2>2, <3>1, OneCall
    <3> QED
      BY <3>2 DEF Calls!Next, Calls!Serve, call
  <2> QED
    BY <2>3, <2>4
<1>4. ASSUME ReleaseCall(s)
      PROVE  [Calls!Next]_call
  <2>1. /\ msg[s] # None /\ pc[s] = "release" /\ msg'[s] = None
        /\ \A t \in Senders \ {s} : msg'[t] = msg[t] /\ pc'[t] = pc[t]
        /\ retMsg' = retMsg
    BY <1>4 DEF IInv, TypeOK, ReleaseCall
  <2>2. \A t \in Senders \ {s} : CallOf(t)' = CallOf(t)
    BY <1>4, <2>1, ReleaseCallInv DEF CallOf
  <2>3. CallOf(s) \in {"served", "failed"} /\ CallOf(s)' = "idle"
    BY <2>1 DEF CallOf
  <2>4. call[s] \in {"served", "failed"} /\ call' = [call EXCEPT ![s] = "idle"]
    BY <2>2, <2>3, OneCall
  <2> QED
    BY <2>4 DEF Calls!Next, Calls!Done, call
<1> QED
  BY <1>1, <1>2, <1>3, <1>4 DEF Sender, SenderGoesOn

\* Of the other steps only the reply in a call is one of SyncCalls: the answer.
LEMMA ActorCalls ==
  ASSUME IInv, ActorGoesOn \/ Disposer \/ (\E m \in Messages : TimesOut(m)) \/ UNCHANGED vars
  PROVE  [Calls!Next]_call
<1>1. UNCHANGED senderVars
  BY DEF ActorGoesOn, Loop, Woken, SelfTrigger, NoReply, PurgeOut, ReplyAsync, ReplySync, SetReplied,
         ReleaseHandled, TimesOut, Disposer, Dispose, TellStop, PurgeMessage, Disposed, Start, vars
<1>2. CASE \A t \in Senders : Reply(t)' = Reply(t)
  BY <1>1, <1>2, CallsKept DEF senderVars
<1>3. ASSUME NEW s \in Senders, msg[s] # None, pc[s] # "release", Reply(s) = None, Reply(s)' # None,
             \A t \in Senders \ {s} : Reply(t)' = Reply(t)
      PROVE  [Calls!Next]_call
  <2>1. /\ CallOf(s) = "asked" /\ CallOf(s)' = "answered"
        /\ \A t \in Senders \ {s} : CallOf(t)' = CallOf(t)
    BY <1>1, <1>3 DEF CallOf, senderVars
  <2>2. call[s] = "asked" /\ call' = [call EXCEPT ![s] = "answered"]
    BY <2>1, OneCall
  <2> QED
    BY <2>2 DEF Calls!Next, Calls!Answer, call
<1>4. \/ \A t \in Senders : Reply(t)' = Reply(t)
      \/ \E s \in Senders : /\ msg[s] # None /\ pc[s] # "release"
                            /\ Reply(s) = None /\ Reply(s)' # None
                            /\ \A t \in Senders \ {s} : Reply(t)' = Reply(t)
  <2>1. CASE ActorGoesOn
    BY <2>1, LoopInv, ActorMoves, PurgeOutInv, ReplyAsyncInv, ReplySyncInv, SetRepliedInv, ReleaseHandledInv
       DEF ActorGoesOn
  <2>2. CASE Disposer \/ UNCHANGED vars
    BY <2>2, ActorMoves, PurgeMessageInv DEF Disposer
  <2> QED
    BY <2>1, <2>2, TimesOutInv
<1> QED
  BY <1>2, <1>3, <1>4

(***************************************************************************)
(* Synchronous calls keep SyncCalls whatever the order of reply, time      *)
(* limit and disposal, for any number of senders.                          *)
(***************************************************************************)
THEOREM PortImplementsCalls == Spec => ImplementsSyncCalls
<1>1. Init => Calls!Init
  <2> SUFFICES ASSUME Init
               PROVE  Calls!Init
    OBVIOUS
  <2>1. \A s \in Senders : CallOf(s) = "idle"
    BY DEF Init, CallOf
  <2> QED
    BY <2>1 DEF Calls!Init
<1>2. IInv /\ [Next]_vars => [Calls!Next]_[s \in Senders |-> CallOf(s)]
  BY SenderCalls, ActorCalls DEF Next, call
<1> QED
  BY <1>1, <1>2, Invariant, PTL DEF Spec, ImplementsSyncCalls, Calls!Spec

===============================================================================
