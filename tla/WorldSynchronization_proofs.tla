-------------------- MODULE WorldSynchronization_proofs --------------------
(***************************************************************************)
(* What holds of the synchronization of worlds for every number of worlds, *)
(* entities and messages and every depth of the queues: its types, that    *)
(* messages of a publisher never overtake each other, that none vanishes,  *)
(* and hence what a world may conclude from the positions it applied; that *)
(* a world is what its messages make of it, and lacks what it has met only *)
(* for a reason that can be named.                                         *)
(***************************************************************************)
EXTENDS WorldSynchronization, SequenceTheorems, TLAPS

\* What has a place in a stream was published, and a world that does not listen yet
\* has received nothing.
PositionsOf(w) ==
  /\ \A i \in DOMAIN Buffered(w) :
       /\ Buffered(w)[i][1] # w
       /\ Buffered(w)[i][2] \in 1..Len(stream[Buffered(w)[i][1]])
  /\ \A p \in World :
       /\ \A k \in DOMAIN inbox[w][p] : inbox[w][p][k] \in 1..Len(stream[p])
       /\ Len(inbox[w][p]) <= QueueDepth
       /\ applied[w][p] <= Len(stream[p])
       /\ ~ Listening(w) => inbox[w][p] = <<>> /\ applied[w][p] = 0
  /\ ~ Listening(w) \/ w \notin Deferring => missed[w] = <<>> /\ batch[w] = <<>>

PositionsPublished == \A w \in World : PositionsOf(w)

Ordered == SyncTypeOK /\ PositionsPublished /\ AppliedInStreamOrder
SyncInv == Ordered /\ NothingVanishes
-----------------------------------------------------------------------------
\* The queues.

\* Draining an empty batch moves a prefix of the buffer into it.
LEMMA SplitBuffer ==
  ASSUME NEW s \in Seq(Position), NEW c \in 1..Len(s)
  PROVE  /\ SubSeq(s, 1, c) \in Seq(Position) /\ SubSeq(s, c + 1, Len(s)) \in Seq(Position)
         /\ SubSeq(s, 1, c) \o SubSeq(s, c + 1, Len(s)) = <<>> \o s
<1>1. SubSeq(s, 1, c) \in Seq(Position) /\ SubSeq(s, c + 1, Len(s)) \in Seq(Position)
  OBVIOUS
<1>2. /\ Len(SubSeq(s, 1, c)) = c /\ Len(SubSeq(s, c + 1, Len(s))) = Len(s) - c
      /\ \A i \in 1..c : SubSeq(s, 1, c)[i] = s[i]
      /\ \A i \in 1..(Len(s) - c) : SubSeq(s, c + 1, Len(s))[i] = s[c + i]
  OBVIOUS
<1>3. SubSeq(s, 1, c) \o SubSeq(s, c + 1, Len(s)) = s
  BY <1>1, <1>2
<1>4. <<>> \o s = s
  OBVIOUS
<1>5. QED
  BY <1>1, <1>3, <1>4

\* Two queues, one behind the other.
LEMMA Behind ==
  ASSUME NEW b \in Seq(Position), NEW m \in Seq(Position)
  PROVE  /\ b \o m \in Seq(Position) /\ <<>> \o m = m
         /\ DOMAIN b = 1..Len(b) /\ Len(b) \in Nat /\ DOMAIN m = 1..Len(m) /\ Len(m) \in Nat
         /\ Len(b \o m) = Len(b) + Len(m) /\ DOMAIN (b \o m) = 1..(Len(b) + Len(m))
         /\ \A i \in DOMAIN m : Len(b) + i \in DOMAIN (b \o m) /\ (b \o m)[Len(b) + i] = m[i]
         /\ \A i \in DOMAIN b : i \in DOMAIN (b \o m) /\ (b \o m)[i] = b[i]
         /\ Members(b \o m) = Members(b) \union Members(m)
<1>1. /\ b \o m \in Seq(Position) /\ <<>> \o m = m
      /\ DOMAIN b = 1..Len(b) /\ Len(b) \in Nat /\ DOMAIN m = 1..Len(m) /\ Len(m) \in Nat
      /\ Len(b \o m) = Len(b) + Len(m)
  OBVIOUS
<1>2. DOMAIN (b \o m) = 1..(Len(b) + Len(m))
  BY <1>1
<1>3. \A i \in DOMAIN m : Len(b) + i \in DOMAIN (b \o m) /\ (b \o m)[Len(b) + i] = m[i]
  BY <1>1, <1>2
<1>4. \A i \in DOMAIN b : i \in DOMAIN (b \o m) /\ (b \o m)[i] = b[i]
  BY <1>1, <1>2
<1>5. ASSUME NEW i \in DOMAIN (b \o m)
      PROVE  (b \o m)[i] \in Members(b) \union Members(m)
  <2>1. CASE i <= Len(b)
    <3>1. i \in DOMAIN b
      BY <1>1, <1>2, <2>1
    <3> QED
      BY <1>4, <3>1 DEF Members
  <2>2. CASE ~ (i <= Len(b))
    <3>1. i - Len(b) \in DOMAIN m /\ Len(b) + (i - Len(b)) = i
      BY <1>1, <1>2, <2>2
    <3>2. (b \o m)[i] = m[i - Len(b)]
      BY <1>3, <3>1
    <3> QED
      BY <3>1, <3>2 DEF Members
  <2> QED
    BY <2>1, <2>2
<1>6. Members(b \o m) = Members(b) \union Members(m)
  <2>1. Members(b) \subseteq Members(b \o m) /\ Members(m) \subseteq Members(b \o m)
    BY <1>3, <1>4 DEF Members
  <2>2. Members(b \o m) \subseteq Members(b) \union Members(m)
    BY <1>5 DEF Members
  <2> QED
    BY <2>1, <2>2
<1> QED
  BY <1>1, <1>2, <1>3, <1>4, <1>6

\* What is put behind the buffer is behind all that is buffered.
LEMMA AppendBehind ==
  ASSUME NEW b \in Seq(Position), NEW m \in Seq(Position), NEW x \in Position
  PROVE  b \o Append(m, x) = Append(b \o m, x)
<1>1. /\ Append(m, x) \in Seq(Position) /\ b \o m \in Seq(Position)
      /\ Len(b \o Append(m, x)) = Len(b) + Len(m) + 1
      /\ Len(Append(b \o m, x)) = Len(b) + Len(m) + 1
      /\ b \o Append(m, x) \in Seq(Position) /\ Append(b \o m, x) \in Seq(Position)
  OBVIOUS
<1>2. ASSUME NEW i \in 1..(Len(b) + Len(m) + 1)
      PROVE  (b \o Append(m, x))[i] = Append(b \o m, x)[i]
  <2>1. CASE i <= Len(b)
    BY <1>1, <2>1
  <2>2. CASE i > Len(b) /\ i <= Len(b) + Len(m)
    BY <1>1, <2>2
  <2>3. CASE i = Len(b) + Len(m) + 1
    BY <1>1, <2>3
  <2> QED
    BY <2>1, <2>2, <2>3
<1> QED
  BY <1>1, <1>2

\* The head leaves the batch, and so what is buffered.
LEMMA DropHead ==
  ASSUME NEW b \in Seq(Position), NEW m \in Seq(Position), b # <<>>
  PROVE  /\ Tail(b) \o m = Tail(b \o m) /\ Head(b) = (b \o m)[1]
         /\ b \o m \in Seq(Position) /\ 1 \in DOMAIN (b \o m) /\ Len(b \o m) >= 1
         /\ DOMAIN Tail(b \o m) = 1..(Len(b \o m) - 1)
         /\ \A i \in 1..(Len(b \o m) - 1) : Tail(b \o m)[i] = (b \o m)[i + 1]
<1>1. b \o m \in Seq(Position) /\ Len(b \o m) = Len(b) + Len(m) /\ Len(b) >= 1
      /\ DOMAIN (b \o m) = 1..Len(b \o m) /\ Len(m) \in Nat
  BY EmptySeq
<1>2. Tail(b) \in Seq(Position) /\ Len(Tail(b)) = Len(b) - 1
  BY <1>1
<1>3. \A i \in 1..(Len(b) + Len(m) - 1) : (Tail(b) \o m)[i] = Tail(b \o m)[i]
  BY <1>1, <1>2
<1>4. Tail(b) \o m = Tail(b \o m)
  BY <1>1, <1>2, <1>3
<1>5. QED
  BY <1>1, <1>4

\* A queue that keeps the youngest messages stays in order when the next one arrives,
\* and loses nothing but its head.
LEMMA Enqueued ==
  ASSUME NEW q \in Seq(Nat \ {0}), NEW n \in Nat \ {0}, Len(q) <= QueueDepth,
         \A k \in DOMAIN q : q[k] < n
  PROVE  /\ Enqueue(q, n) \in Seq(Nat \ {0})
         /\ Len(Enqueue(q, n)) <= QueueDepth
         /\ \A k \in DOMAIN Enqueue(q, n) :
              Enqueue(q, n)[k] = n \/ (\E l \in DOMAIN q : Enqueue(q, n)[k] = q[l])
         /\ (\A k \in DOMAIN q : \A l \in DOMAIN q : k < l => q[k] < q[l])
              => \A k \in DOMAIN Enqueue(q, n) : \A l \in DOMAIN Enqueue(q, n) :
                   k < l => Enqueue(q, n)[k] < Enqueue(q, n)[l]
         /\ n \in Members(Enqueue(q, n))
         /\ \A l \in DOMAIN q :
              q[l] \in Members(Enqueue(q, n)) \/ (Len(q) = QueueDepth /\ q[l] = Head(q))
<1> USE SynchronizationAssumption
<1> DEFINE r == Enqueue(q, n)
<1>1. CASE Len(q) < QueueDepth
  <2>1. r = Append(q, n) /\ Len(r) = Len(q) + 1 /\ DOMAIN r = 1..(Len(q) + 1)
    BY <1>1 DEF Enqueue
  <2>2. r \in Seq(Nat \ {0}) /\ r[Len(q) + 1] = n /\ \A k \in 1..Len(q) : r[k] = q[k]
    BY <2>1
  <2>3. \A k \in DOMAIN r : r[k] = n \/ (\E l \in DOMAIN q : r[k] = q[l])
    BY <2>1, <2>2
  <2>4. (\A k \in DOMAIN q : \A l \in DOMAIN q : k < l => q[k] < q[l])
          => \A k \in DOMAIN r : \A l \in DOMAIN r : k < l => r[k] < r[l]
    <3> SUFFICES ASSUME \A k \in DOMAIN q : \A l \in DOMAIN q : k < l => q[k] < q[l],
                        NEW k \in DOMAIN r, NEW l \in DOMAIN r, k < l
                 PROVE  r[k] < r[l]
      OBVIOUS
    <3>1. k \in 1..Len(q)
      BY <2>1
    <3>2. CASE l = Len(q) + 1
      BY <2>2, <3>1, <3>2
    <3>3. CASE l # Len(q) + 1
      BY <2>1, <2>2, <3>1, <3>3
    <3> QED
      BY <3>2, <3>3
  <2>5. n \in Members(r) /\ \A l \in DOMAIN q : q[l] \in Members(r)
    <3>1. Len(q) + 1 \in DOMAIN r /\ r[Len(q) + 1] = n
      BY <2>1, <2>2
    <3>2. \A l \in DOMAIN q : l \in DOMAIN r /\ r[l] = q[l]
      BY <2>1, <2>2
    <3> HIDE DEF r
    <3> QED
      BY <3>1, <3>2 DEF Members
  <2> QED
    BY <1>1, <2>1, <2>2, <2>3, <2>4, <2>5
<1>2. CASE Len(q) = QueueDepth
  <2>1. /\ r = Append(Tail(q), n) /\ Tail(q) \in Seq(Nat \ {0}) /\ Len(Tail(q)) = Len(q) - 1
        /\ \A k \in 1..(Len(q) - 1) : Tail(q)[k] = q[k + 1]
    BY <1>2 DEF Enqueue
  <2>2. /\ r \in Seq(Nat \ {0}) /\ Len(r) = Len(q) /\ DOMAIN r = 1..Len(q) /\ r[Len(q)] = n
        /\ \A k \in 1..(Len(q) - 1) : r[k] = q[k + 1]
    BY <1>2, <2>1
  <2>3. \A k \in DOMAIN r : r[k] = n \/ (\E l \in DOMAIN q : r[k] = q[l])
    <3> TAKE k \in DOMAIN r
    <3>1. CASE k = Len(q)
      BY <2>2, <3>1
    <3>2. CASE k # Len(q)
      <4>1. k \in 1..(Len(q) - 1) /\ k + 1 \in DOMAIN q
        BY <2>2, <3>2
      <4> QED
        BY <2>2, <4>1
    <3> QED
      BY <3>1, <3>2
  <2>4. (\A k \in DOMAIN q : \A l \in DOMAIN q : k < l => q[k] < q[l])
          => \A k \in DOMAIN r : \A l \in DOMAIN r : k < l => r[k] < r[l]
    <3> SUFFICES ASSUME \A k \in DOMAIN q : \A l \in DOMAIN q : k < l => q[k] < q[l],
                        NEW k \in DOMAIN r, NEW l \in DOMAIN r, k < l
                 PROVE  r[k] < r[l]
      OBVIOUS
    <3>1. k \in 1..(Len(q) - 1) /\ k + 1 \in DOMAIN q /\ r[k] = q[k + 1]
      BY <2>2, SMTT(30)
    <3>2. CASE l = Len(q)
      BY <2>2, <3>1, <3>2
    <3>3. CASE l # Len(q)
      <4>1. l \in 1..(Len(q) - 1)
        BY <2>2, <3>3
      <4>2. l + 1 \in DOMAIN q /\ r[l] = q[l + 1]
        BY <2>2, <4>1, SMTT(30)
      <4>3. k + 1 < l + 1
        BY <3>1, <4>1
      <4> QED
        BY <3>1, <4>2, <4>3
    <3> QED
      BY <3>2, <3>3
  <2>5. n \in Members(r)
    <3>1. Len(q) \in DOMAIN r
      BY <1>2, <2>2
    <3> QED
      BY <2>2, <3>1 DEF Members
  <2>6. \A l \in DOMAIN q : q[l] \in Members(r) \/ q[l] = Head(q)
    <3> TAKE l \in DOMAIN q
    <3>1. CASE l = 1
      <4>1. Head(q) = q[1]
        OBVIOUS
      <4> QED
        BY <3>1, <4>1
    <3>2. CASE l # 1
      <4>1. l - 1 \in 1..(Len(q) - 1) /\ r[l - 1] = q[l]
        BY <2>2, <3>2
      <4> QED
        BY <2>2, <4>1 DEF Members
    <3> QED
      BY <3>1, <3>2
  <2> QED
    BY <1>2, <2>2, <2>3, <2>4, <2>5, <2>6
<1> QED
  BY <1>1, <1>2
-----------------------------------------------------------------------------
\* Types.

LEMMA Positions == \A p \in World : \A n \in Nat \ {0} : <<p, n>> \in Position
BY DEF Position

LEMMA PublishedArePositions ==
  ASSUME SyncTypeOK
  PROVE  Published \in SUBSET Position
BY DEF SyncTypeOK, Published, Position

LEMMA Messages ==
  ASSUME SyncTypeOK, NEW p \in World, NEW n \in 1..Len(stream[p])
  PROVE  MessageAt(<<p, n>>) \in Message
BY DEF SyncTypeOK, MessageAt

\* What a message refers to, and that it is there when the message applies.
LEMMA References_Types ==
  ASSUME NEW m \in Message
  PROVE  /\ m.kind \in {"add", "remove", "state"} /\ m.entity \in Entity
         /\ m.branch => m.kind = "remove"
         /\ References(m) \subseteq {Base[m.entity], m.entity}
         /\ m.kind = "add" => References(m) = {Base[m.entity]}
BY DEF Message, References

LEMMA ReferencesAreThere ==
  ASSUME NEW m \in Message, NEW entities \in SUBSET Entity, Applicable(m, entities)
  PROVE  References(m) \subseteq entities \union {Root}
<1>0. /\ m.kind \in {"add", "remove", "state"} /\ m.entity \in Entity
      /\ m.branch => m.kind = "remove"
  BY References_Types
<1>1. CASE m.kind = "add"
  <2>1. IsTree(entities \union {m.entity})
    BY <1>1 DEF Applicable, After
  <2>2. Base[m.entity] \in entities \union {m.entity} \union {Root} /\ Base[m.entity] # m.entity
    BY <1>0, <2>1, SynchronizationAssumption DEF IsTree
  <2> QED
    BY <1>0, <1>1, <2>2, References_Types
<1>2. CASE m.branch /\ m.kind = "remove"
  <2>1. m.entity \in entities /\ IsTree(After(m, entities))
    BY <1>2 DEF Applicable
  <2>2. CASE ~ (References(m) \subseteq entities \union {Root})
    <3>1. After(m, entities) = entities
      BY <1>2, <2>2 DEF After
    <3>2. Base[m.entity] \in entities \union {Root}
      BY <2>1, <3>1 DEF IsTree
    <3> QED
      BY <2>1, <3>2, References_Types
  <2> QED
    BY <2>2
<1>3. CASE m.kind # "add" /\ ~ m.branch
  BY <1>3 DEF References
<1> QED
  BY <1>0, <1>1, <1>2, <1>3

\* What a message makes of a world, whether it applies or fails on the way.
LEMMA Effects ==
  ASSUME NEW m \in Message, NEW entities \in SUBSET Entity
  PROVE  /\ m.kind = "add" => After(m, entities) = entities \union {m.entity}
         /\ m.kind = "remove" => After(m, entities) \in {entities, entities \ {m.entity}}
         /\ m.kind = "state" => After(m, entities) = entities
         /\ m.kind = "remove" /\ Applicable(m, entities) => After(m, entities) = entities \ {m.entity}
BY ReferencesAreThere DEF After

LEMMA Afterwards ==
  ASSUME NEW m \in Message, NEW entities \in SUBSET Entity
  PROVE  After(m, entities) \in SUBSET Entity
BY DEF Message, After

LEMMA ApplyMessage_Types ==
  ASSUME SyncTypeOK, NEW w \in World, NEW p \in World, NEW n \in 1..Len(stream[p]),
         ApplyMessage(w, p, n)
  PROVE  /\ model' \in [World -> SUBSET Entity]
         /\ applied' \in [World -> [World -> Nat]]
         /\ contains' \in [World -> SUBSET Position]
<1>1. model' \in [World -> SUBSET Entity]
  <2>1. After(MessageAt(<<p, n>>), model[w]) \in SUBSET Entity
    BY Messages, Afterwards DEF SyncTypeOK
  <2> QED
    BY <2>1 DEF SyncTypeOK, ApplyMessage
<1>2. applied' \in [World -> [World -> Nat]]
  <2>1. n \in Nat /\ Largest(applied[w][p], n) \in Nat
    BY DEF SyncTypeOK, Largest
  <2>2. [applied EXCEPT ![w][p] = Largest(@, n)] \in [World -> [World -> Nat]]
    BY <2>1 DEF SyncTypeOK
  <2> QED
    BY <2>2, Zenon DEF SyncTypeOK, ApplyMessage
<1>3. contains' \in [World -> SUBSET Position]
  <2>1. [contains EXCEPT ![w] = @ \union {<<p, n>>}] \in [World -> SUBSET Position]
    BY SMTT(30) DEF SyncTypeOK, Position
  <2> QED
    BY <2>1, Zenon DEF SyncTypeOK, ApplyMessage
<1> QED
  BY <1>1, <1>2, <1>3

LEMMA Publish_Types ==
  ASSUME SyncTypeOK, PositionsPublished, NEW w \in World, NEW m \in Message, Publish(w, m)
  PROVE  /\ stream' \in [World -> Seq(Message)]
         /\ inbox' \in [World -> [World -> Seq(Nat \ {0})]]
         /\ contains' \in [World -> SUBSET Position]
         /\ gone' \in [World -> SUBSET Position]
<1> DEFINE n == Len(stream[w]) + 1
<1>0. n \in Nat \ {0}
  BY DEF SyncTypeOK
<1>1. stream' \in [World -> Seq(Message)]
  BY DEF SyncTypeOK, Publish
<1>2. contains' \in [World -> SUBSET Position]
  BY <1>0 DEF SyncTypeOK, Publish, Position
<1>3. ASSUME NEW r \in World
      PROVE  Enqueue(inbox[r][w], n) \in Seq(Nat \ {0})
  <2>1. inbox[r][w] \in Seq(Nat \ {0}) /\ QueueDepth \in Nat \ {0}
    BY SynchronizationAssumption DEF SyncTypeOK
  <2>2. CASE Len(inbox[r][w]) < QueueDepth
    BY <1>0, <2>1, <2>2 DEF Enqueue
  <2>3. CASE ~ (Len(inbox[r][w]) < QueueDepth)
    <3>1. Tail(inbox[r][w]) \in Seq(Nat \ {0})
      BY <2>1, <2>3
    <3> QED
      BY <1>0, <2>3, <3>1 DEF Enqueue
  <2> QED
    BY <2>2, <2>3
<1>4. inbox' \in [World -> [World -> Seq(Nat \ {0})]]
  BY <1>3 DEF SyncTypeOK, Publish
<1>5. ASSUME NEW r \in World, Len(inbox[r][w]) = QueueDepth
      PROVE  <<w, Head(inbox[r][w])>> \in Position
  <2>1. inbox[r][w] \in Seq(Nat \ {0}) /\ Len(inbox[r][w]) # 0
    BY <1>5, SynchronizationAssumption DEF SyncTypeOK
  <2>2. Head(inbox[r][w]) \in Nat \ {0}
    BY <2>1
  <2> QED
    BY <2>2 DEF Position
<1>6. gone' \in [World -> SUBSET Position]
  BY <1>5 DEF SyncTypeOK, Publish
<1> QED
  BY <1>1, <1>2, <1>4, <1>6
-----------------------------------------------------------------------------
\* The order in which the messages of one publisher are applied: `a' is the position
\* applied last, `b' what is buffered, `q' what waits for the callback.

InOrder(b, q, a, p) ==
  /\ \A i \in DOMAIN b : b[i][1] = p =>
       /\ a < b[i][2]
       /\ \A j \in DOMAIN b : i < j /\ b[j][1] = p => b[i][2] < b[j][2]
       /\ \A k \in DOMAIN q : b[i][2] < q[k]
  /\ \A k \in DOMAIN q :
       /\ a < q[k]
       /\ \A l \in DOMAIN q : k < l => q[k] < q[l]

OrderOf(w) == \A p \in World \ {w} : InOrder(Buffered(w), inbox[w][p], applied[w][p], p)

KeepsAll(w) ==
  Listening(w) => \A p \in World \ {w} : \A n \in 1..Len(stream[p]) :
    \/ n \in Members(inbox[w][p])
    \/ <<p, n>> \in Members(Buffered(w)) \union contains[w] \union gone[w]

LEMMA OrderByWorld == AppliedInStreamOrder <=> \A w \in World : OrderOf(w)
BY DEF AppliedInStreamOrder, InOrder, OrderOf

LEMMA KeepsByWorld == NothingVanishes <=> \A w \in World : KeepsAll(w)
BY DEF NothingVanishes, KeepsAll

\* A message that is published comes after all others.
LEMMA EnqueuedInOrder ==
  ASSUME NEW p \in World, NEW b \in Seq(Position), NEW q \in Seq(Nat \ {0}), NEW a \in Nat,
         NEW last \in Nat, Len(q) <= QueueDepth, InOrder(b, q, a, p), a <= last,
         \A i \in DOMAIN b : b[i][1] = p => b[i][2] <= last,
         \A k \in DOMAIN q : q[k] <= last
  PROVE  InOrder(b, Enqueue(q, last + 1), a, p)
<1> DEFINE r == Enqueue(q, last + 1)
<1>1. \A k \in DOMAIN q : q[k] \in Nat /\ q[k] < last + 1
  OBVIOUS
<1>2. \A k \in DOMAIN q : \A l \in DOMAIN q : k < l => q[k] < q[l]
  BY DEF InOrder
<1>3. /\ \A k \in DOMAIN r : r[k] = last + 1 \/ (\E l \in DOMAIN q : r[k] = q[l])
      /\ \A k \in DOMAIN r : \A l \in DOMAIN r : k < l => r[k] < r[l]
  <2>1. last + 1 \in Nat \ {0} /\ \A k \in DOMAIN q : q[k] < last + 1
    BY <1>1
  <2> HIDE DEF r
  <2>2. /\ \A k \in DOMAIN r : r[k] = last + 1 \/ (\E l \in DOMAIN q : r[k] = q[l])
        /\ (\A k \in DOMAIN q : \A l \in DOMAIN q : k < l => q[k] < q[l])
              => \A k \in DOMAIN r : \A l \in DOMAIN r : k < l => r[k] < r[l]
    BY <2>1, Enqueued, Zenon DEF r
  <2> QED
    BY <1>2, <2>2
<1>4. ASSUME NEW k \in DOMAIN r
      PROVE  a < r[k] /\ \A i \in DOMAIN b : b[i][1] = p => b[i][2] < r[k]
  <2>1. CASE r[k] = last + 1
    <3>1. ASSUME NEW i \in DOMAIN b, b[i][1] = p PROVE b[i][2] < r[k]
      <4>1. b[i] \in Position
        OBVIOUS
      <4>2. b[i][2] \in Nat /\ b[i][2] <= last
        BY <3>1, <4>1 DEF Position
      <4> QED
        BY <2>1, <4>2
    <3> QED
      BY <2>1, <3>1
  <2>2. CASE \E l \in DOMAIN q : r[k] = q[l]
    BY <2>2 DEF InOrder
  <2> QED
    BY <1>3, <2>1, <2>2
<1> QED
  BY <1>3, <1>4 DEF InOrder

\* A message that is received is the first one behind those that are buffered.
LEMMA BufferedInOrder ==
  ASSUME NEW p \in World, NEW b \in Seq(Position), NEW q \in Seq(Nat \ {0}), NEW a \in Nat,
         q # <<>>, InOrder(b, q, a, p)
  PROVE  /\ InOrder(Append(b, <<p, Head(q)>>), Tail(q), a, p)
         /\ InOrder(b, Tail(q), a, p)
         /\ InOrder(<<>>, Tail(q), Largest(a, Head(q)), p)
<1>1. /\ Tail(q) \in Seq(Nat \ {0}) /\ Len(Tail(q)) = Len(q) - 1 /\ Len(q) >= 1
      /\ \A k \in 1..(Len(q) - 1) : Tail(q)[k] = q[k + 1]
      /\ Head(q) = q[1] /\ Head(q) \in Nat
  BY EmptySeq
<1>2. ASSUME NEW k \in DOMAIN Tail(q)
      PROVE  /\ k + 1 \in DOMAIN q /\ Tail(q)[k] = q[k + 1]
             /\ a < Tail(q)[k] /\ q[1] < Tail(q)[k] /\ 1 \in DOMAIN q
  <2>1. k \in 1..(Len(q) - 1)
    BY <1>1
  <2>2. k + 1 \in DOMAIN q /\ 1 \in DOMAIN q /\ 1 < k + 1
    BY <1>1, <2>1
  <2> QED
    BY <1>1, <2>1, <2>2 DEF InOrder
<1>3. ASSUME NEW k \in DOMAIN Tail(q), NEW l \in DOMAIN Tail(q), k < l
      PROVE  Tail(q)[k] < Tail(q)[l]
  <2>1. k + 1 < l + 1
    BY <1>1, <1>3
  <2> QED
    BY <1>2, <2>1 DEF InOrder
<1>4. InOrder(b, Tail(q), a, p)
  BY <1>2, <1>3 DEF InOrder
<1>5. InOrder(<<>>, Tail(q), Largest(a, Head(q)), p)
  <2>1. \A k \in DOMAIN Tail(q) : Largest(a, Head(q)) < Tail(q)[k]
    BY <1>1, <1>2 DEF Largest
  <2> QED
    BY <1>3, <2>1 DEF InOrder
<1>6. InOrder(Append(b, <<p, Head(q)>>), Tail(q), a, p)
  <2> DEFINE c == Append(b, <<p, Head(q)>>)
  <2>1. /\ DOMAIN c = 1..(Len(b) + 1) /\ DOMAIN b = 1..Len(b) /\ Len(b) \in Nat
        /\ c[Len(b) + 1] = <<p, Head(q)>> /\ \A i \in 1..Len(b) : c[i] = b[i]
    BY DEF Position
  <2>2. a < q[1] /\ \A i \in DOMAIN b : b[i][1] = p => b[i][2] < q[1]
    BY <1>1 DEF InOrder
  <2>3. ASSUME NEW i \in DOMAIN c, c[i][1] = p
        PROVE  /\ a < c[i][2]
               /\ \A j \in DOMAIN c : i < j /\ c[j][1] = p => c[i][2] < c[j][2]
               /\ \A k \in DOMAIN Tail(q) : c[i][2] < Tail(q)[k]
    <3>1. CASE i = Len(b) + 1
      <4>1. c[i][2] = q[1] /\ \A j \in DOMAIN c : ~ (i < j)
        BY <1>1, <2>1, <3>1
      <4> QED
        BY <1>2, <2>2, <4>1
    <3>2. CASE i # Len(b) + 1
      <4>1. i \in DOMAIN b /\ c[i] = b[i]
        BY <2>1, <3>2
      <4>2. ASSUME NEW j \in DOMAIN c, i < j, c[j][1] = p PROVE c[i][2] < c[j][2]
        <5>1. CASE j = Len(b) + 1
          BY <1>1, <2>1, <2>2, <2>3, <4>1, <5>1
        <5>2. CASE j # Len(b) + 1
          BY <2>1, <2>3, <4>1, <4>2, <5>2 DEF InOrder
        <5> QED
          BY <5>1, <5>2
      <4>3. ASSUME NEW k \in DOMAIN Tail(q) PROVE c[i][2] < Tail(q)[k]
        BY <1>2, <2>3, <4>1, <4>3 DEF InOrder
      <4> QED
        BY <2>3, <4>1, <4>2, <4>3 DEF InOrder
    <3> QED
      BY <3>1, <3>2
  <2> QED
    BY <1>2, <1>3, <2>3 DEF InOrder
<1> QED
  BY <1>4, <1>5, <1>6
\* A message of another publisher does not matter.
LEMMA OthersInOrder ==
  ASSUME NEW p \in World, NEW o \in World, o # p, NEW n \in Nat \ {0},
         NEW b \in Seq(Position), NEW q \in Seq(Nat \ {0}), NEW a \in Nat, InOrder(b, q, a, p)
  PROVE  InOrder(Append(b, <<o, n>>), q, a, p)
<1> DEFINE c == Append(b, <<o, n>>)
<1>1. /\ DOMAIN c = 1..(Len(b) + 1) /\ DOMAIN b = 1..Len(b) /\ Len(b) \in Nat
      /\ c[Len(b) + 1] = <<o, n>> /\ \A i \in 1..Len(b) : c[i] = b[i]
  BY DEF Position
<1>2. \A i \in DOMAIN c : c[i][1] = p => i \in DOMAIN b /\ c[i] = b[i]
  BY <1>1
<1> QED
  BY <1>2 DEF InOrder

\* What is applied first is what was published first.
LEMMA AppliedInOrder ==
  ASSUME NEW p \in World, NEW b \in Seq(Position), NEW m \in Seq(Position), b # <<>>,
         NEW q \in Seq(Nat \ {0}), NEW a \in Nat, InOrder(b \o m, q, a, p)
  PROVE  /\ InOrder(Tail(b) \o m, q, a, p)
         /\ Head(b)[1] = p => InOrder(Tail(b) \o m, q, Largest(a, Head(b)[2]), p)
         /\ InOrder(<<>> \o m, q, a, p)
<1> DEFINE c == b \o m
           d == Tail(b) \o m
<1>1. /\ d = Tail(c) /\ Head(b) = c[1] /\ c \in Seq(Position) /\ Len(c) >= 1
      /\ DOMAIN d = 1..(Len(c) - 1) /\ \A i \in 1..(Len(c) - 1) : d[i] = c[i + 1]
  BY DropHead
<1>2. \A i \in DOMAIN d : i + 1 \in DOMAIN c /\ d[i] = c[i + 1] /\ 1 < i + 1
  BY <1>1, SMTT(30)
<1>3. 1 \in DOMAIN c /\ c[1][2] \in Nat
  BY <1>1 DEF Position
<1>4. ASSUME NEW i \in DOMAIN d, d[i][1] = p
      PROVE  /\ a < d[i][2]
             /\ c[1][1] = p => c[1][2] < d[i][2]
             /\ \A j \in DOMAIN d : i < j /\ d[j][1] = p => d[i][2] < d[j][2]
             /\ \A k \in DOMAIN q : d[i][2] < q[k]
  <2>1. a < d[i][2] /\ \A k \in DOMAIN q : d[i][2] < q[k]
    BY <1>2, <1>4 DEF InOrder
  <2>2. c[1][1] = p => c[1][2] < d[i][2]
    BY <1>2, <1>3, <1>4 DEF InOrder
  <2>3. ASSUME NEW j \in DOMAIN d, i < j, d[j][1] = p PROVE d[i][2] < d[j][2]
    <3>1. i + 1 < j + 1
      BY <1>1, <2>3
    <3> QED
      BY <1>2, <1>4, <2>3, <3>1, ZenonT(60) DEF InOrder
  <2> QED
    BY <2>1, <2>2, <2>3
<1>5. \A k \in DOMAIN q : a < q[k] /\ (c[1][1] = p => c[1][2] < q[k])
  BY <1>3 DEF InOrder
<1>6. \A k \in DOMAIN q : \A l \in DOMAIN q : k < l => q[k] < q[l]
  BY DEF InOrder
<1>7. InOrder(d, q, a, p)
  BY <1>4, <1>5, <1>6 DEF InOrder
<1>8. ASSUME Head(b)[1] = p
      PROVE  InOrder(d, q, Largest(a, Head(b)[2]), p)
  <2> DEFINE e == Largest(a, c[1][2])
  <2>1. e = a \/ e = c[1][2]
    BY DEF Largest
  <2>2. \A i \in DOMAIN d : d[i][1] = p => e < d[i][2]
    BY <1>1, <1>4, <1>8, <2>1
  <2>3. \A k \in DOMAIN q : e < q[k]
    BY <1>1, <1>5, <1>8, <2>1
  <2> HIDE DEF e
  <2>4. InOrder(d, q, e, p)
    BY <1>4, <1>6, <2>2, <2>3 DEF InOrder
  <2> QED
    BY <1>1, <2>4 DEF e
<1>9. InOrder(<<>> \o m, q, a, p)
  <2>1. /\ <<>> \o m = m /\ Len(c) = Len(b) + Len(m) /\ Len(b) \in Nat /\ Len(m) \in Nat
        /\ DOMAIN m = 1..Len(m) /\ DOMAIN c = 1..Len(c)
        /\ \A i \in 1..Len(m) : c[Len(b) + i] = m[i]
    OBVIOUS
  <2>2. \A i \in DOMAIN m : Len(b) + i \in DOMAIN c /\ c[Len(b) + i] = m[i]
    BY <2>1
  <2>3. ASSUME NEW i \in DOMAIN m, m[i][1] = p
        PROVE  /\ a < m[i][2]
               /\ \A j \in DOMAIN m : i < j /\ m[j][1] = p => m[i][2] < m[j][2]
               /\ \A k \in DOMAIN q : m[i][2] < q[k]
    <3>1. a < m[i][2] /\ \A k \in DOMAIN q : m[i][2] < q[k]
      BY <2>2, <2>3 DEF InOrder
    <3>2. ASSUME NEW j \in DOMAIN m, i < j, m[j][1] = p PROVE m[i][2] < m[j][2]
      <4>1. Len(b) + i < Len(b) + j
        BY <2>1, <3>2
      <4> QED
        BY <2>2, <2>3, <3>2, <4>1, SMTT(30) DEF InOrder
    <3> QED
      BY <3>1, <3>2
  <2> QED
    BY <1>5, <1>6, <2>1, <2>3 DEF InOrder
<1> QED
  BY <1>7, <1>8, <1>9
-----------------------------------------------------------------------------
\* The invariant.

LEMMA Init_SyncInv == SyncInit => SyncInv
<1> SUFFICES ASSUME SyncInit PROVE SyncInv
  OBVIOUS
<1>1. SyncTypeOK
  BY SynchronizationAssumption DEF SyncInit, SyncTypeOK
<1>2. \A w \in World : /\ Buffered(w) = <<>>
                        /\ \A p \in World : inbox[w][p] = <<>> /\ applied[w][p] = 0 /\ stream[p] = <<>>
  BY DEF SyncInit, Buffered
<1>3. PositionsPublished
  BY <1>2, SynchronizationAssumption DEF SyncInit, PositionsPublished, PositionsOf
<1>4. AppliedInStreamOrder
  BY <1>2 DEF AppliedInStreamOrder
<1>5. NothingVanishes
  BY <1>2 DEF NothingVanishes
<1> QED
  BY <1>1, <1>3, <1>4, <1>5 DEF SyncInv, Ordered

LEMMA BufferedType ==
  ASSUME SyncTypeOK, NEW w \in World
  PROVE  Buffered(w) \in Seq(Position)
BY DEF SyncTypeOK, Buffered

\* A step of one world that publishes nothing is none of the other worlds' business.
LEMMA OneWorld ==
  ASSUME SyncInv, SyncTypeOK', NEW w \in World, stream' = stream,
         \A r \in World \ {w} :
           /\ inbox'[r] = inbox[r] /\ missed'[r] = missed[r] /\ batch'[r] = batch[r]
           /\ applied'[r] = applied[r] /\ connection'[r] = connection[r]
           /\ contains'[r] = contains[r] /\ gone'[r] = gone[r],
         PositionsOf(w)', OrderOf(w)', KeepsAll(w)'
  PROVE  SyncInv'
<1>1. ASSUME NEW r \in World, r # w
      PROVE  PositionsOf(r)' /\ OrderOf(r)' /\ KeepsAll(r)'
  <2>1. PositionsOf(r) /\ OrderOf(r) /\ KeepsAll(r)
    BY OrderByWorld, KeepsByWorld DEF SyncInv, Ordered, PositionsPublished
  <2>2. Buffered(r)' = Buffered(r) /\ Listening(r)' = Listening(r)
    BY <1>1 DEF Buffered, Listening
  <2>3. PositionsOf(r)'
    BY <1>1, <2>1, <2>2 DEF PositionsOf
  <2>4. OrderOf(r)'
    BY <1>1, <2>1, <2>2 DEF OrderOf
  <2>5. KeepsAll(r)'
    BY <1>1, <2>1, <2>2 DEF KeepsAll
  <2> QED
    BY <2>3, <2>4, <2>5
<1>2. \A r \in World : PositionsOf(r)' /\ OrderOf(r)' /\ KeepsAll(r)'
  BY <1>1
<1>3. PositionsPublished'
  BY <1>2 DEF PositionsPublished
<1>4. AppliedInStreamOrder'
  BY <1>2 DEF AppliedInStreamOrder, InOrder, OrderOf
<1>5. NothingVanishes'
  BY <1>2 DEF NothingVanishes, KeepsAll
<1> QED
  BY <1>3, <1>4, <1>5 DEF SyncInv, Ordered

\* A message that is published is the last one of its stream for everyone who listens.
LEMMA ChangeWorld_SyncInv ==
  ASSUME SyncInv, NEW w \in World, NEW m \in Message, ChangeWorld(w, m)
  PROVE  SyncInv'
<1> DEFINE last == Len(stream[w])
           n == last + 1
<1>0. /\ SyncTypeOK /\ PositionsPublished
      /\ \A r \in World : PositionsOf(r) /\ OrderOf(r) /\ KeepsAll(r)
  BY OrderByWorld, KeepsByWorld DEF SyncInv, Ordered, PositionsPublished
<1>1. SyncTypeOK'
  <2>1. model' \in [World -> SUBSET Entity]
    BY <1>0, Afterwards DEF SyncTypeOK, ChangeWorld
  <2> QED
    BY <1>0, <2>1, Publish_Types DEF SyncTypeOK, ChangeWorld
<1>2. /\ last \in Nat /\ n \in Nat \ {0} /\ Len(stream'[w]) = n
      /\ \A p \in World : p # w => stream'[p] = stream[p]
  BY <1>0 DEF SyncTypeOK, ChangeWorld, Publish
<1>3. ASSUME NEW r \in World
      PROVE  /\ Listening(r)' = Listening(r) /\ Buffered(r)' = Buffered(r)
             /\ missed'[r] = missed[r] /\ batch'[r] = batch[r]
             /\ \A p \in World : applied'[r][p] = applied[r][p]
             /\ \A p \in World : p # w => inbox'[r][p] = inbox[r][p]
             /\ inbox'[r][w] = IF Listening(r) THEN Enqueue(inbox[r][w], n) ELSE inbox[r][w]
             /\ contains[r] \subseteq contains'[r] /\ gone[r] \subseteq gone'[r]
  BY <1>0 DEF SyncTypeOK, ChangeWorld, Publish, Listening, Buffered
<1>4. ASSUME NEW r \in World
      PROVE  /\ inbox[r][w] \in Seq(Nat \ {0}) /\ Len(inbox[r][w]) <= QueueDepth
             /\ \A k \in DOMAIN inbox[r][w] : inbox[r][w][k] \in 1..last
             /\ applied[r][w] \in Nat /\ applied[r][w] <= last
             /\ Buffered(r) \in Seq(Position)
             /\ \A i \in DOMAIN Buffered(r) : Buffered(r)[i][1] = w => Buffered(r)[i][2] \in 1..last
  BY <1>0, BufferedType, SMTT(30) DEF PositionsOf, SyncTypeOK
<1> HIDE DEF n, last
<1>5. ASSUME NEW r \in World, Listening(r)
      PROVE  /\ inbox'[r][w] = Enqueue(inbox[r][w], n)
             /\ Len(inbox'[r][w]) <= QueueDepth
             /\ \A k \in DOMAIN inbox'[r][w] : inbox'[r][w][k] \in 1..n
             /\ n \in Members(inbox'[r][w])
             /\ \A l \in DOMAIN inbox[r][w] :
                  inbox[r][w][l] \in Members(inbox'[r][w])
                    \/ (Len(inbox[r][w]) = QueueDepth /\ inbox[r][w][l] = Head(inbox[r][w]))
  <2>1. inbox'[r][w] = Enqueue(inbox[r][w], n)
    BY <1>3, <1>5
  <2>2. \A k \in DOMAIN inbox[r][w] : inbox[r][w][k] < n
    BY <1>2, <1>4 DEF n
  <2>3. /\ Len(inbox'[r][w]) <= QueueDepth
        /\ \A k \in DOMAIN inbox'[r][w] :
              inbox'[r][w][k] = n \/ (\E l \in DOMAIN inbox[r][w] : inbox'[r][w][k] = inbox[r][w][l])
        /\ n \in Members(inbox'[r][w])
        /\ \A l \in DOMAIN inbox[r][w] :
              inbox[r][w][l] \in Members(inbox'[r][w])
                \/ (Len(inbox[r][w]) = QueueDepth /\ inbox[r][w][l] = Head(inbox[r][w]))
    <3> DEFINE q == inbox[r][w]
    <3>1. q \in Seq(Nat \ {0}) /\ n \in Nat \ {0} /\ Len(q) <= QueueDepth
      BY <1>2, <1>4
    <3>2. \A k \in DOMAIN q : q[k] < n
      BY <2>2
    <3> HIDE DEF q
    <3>3. /\ Len(Enqueue(q, n)) <= QueueDepth
          /\ \A k \in DOMAIN Enqueue(q, n) :
                Enqueue(q, n)[k] = n \/ (\E l \in DOMAIN q : Enqueue(q, n)[k] = q[l])
          /\ n \in Members(Enqueue(q, n))
          /\ \A l \in DOMAIN q :
                q[l] \in Members(Enqueue(q, n)) \/ (Len(q) = QueueDepth /\ q[l] = Head(q))
      BY <3>1, <3>2, Enqueued
    <3> QED
      BY <2>1, <3>3 DEF q
  <2>4. \A k \in DOMAIN inbox'[r][w] : inbox'[r][w][k] \in 1..n
    BY <1>2, <1>4, <2>3 DEF n
  <2> QED
    BY <2>1, <2>3, <2>4
<1>6. ASSUME NEW r \in World
      PROVE  PositionsOf(r)'
  <2>1. PositionsOf(r)
    BY <1>0
  <2>2. ASSUME NEW p \in World
        PROVE  /\ Len(stream[p]) \in Nat /\ Len(stream'[p]) \in Nat
               /\ Len(stream[p]) <= Len(stream'[p])
    <3>1. Len(stream[p]) \in Nat
      BY <1>0 DEF SyncTypeOK
    <3>2. CASE p = w
      BY <1>2, <3>1, <3>2 DEF last, n
    <3>3. CASE p # w
      BY <1>2, <3>1, <3>3
    <3> QED
      BY <3>2, <3>3
  <2>3. \A i \in DOMAIN Buffered(r) : Buffered(r)[i][1] \in World
    BY <1>4 DEF Position
  <2>4. \A i \in DOMAIN Buffered(r)' :
          /\ Buffered(r)'[i][1] # r
          /\ Buffered(r)'[i][2] \in 1..Len(stream'[Buffered(r)'[i][1]])
    BY <1>3, <2>1, <2>2, <2>3 DEF PositionsOf
  <2>5. ASSUME NEW p \in World
        PROVE  /\ \A k \in DOMAIN inbox'[r][p] : inbox'[r][p][k] \in 1..Len(stream'[p])
               /\ Len(inbox'[r][p]) <= QueueDepth
               /\ applied'[r][p] <= Len(stream'[p])
               /\ ~ Listening(r)' => inbox'[r][p] = <<>> /\ applied'[r][p] = 0
    <3>1. applied[r][p] \in Nat
      BY <1>0 DEF SyncTypeOK
    <3>2. applied'[r][p] <= Len(stream'[p])
      BY <1>3, <2>1, <2>2, <3>1 DEF PositionsOf
    <3>3. CASE p # w
      BY <1>2, <1>3, <2>1, <3>2, <3>3 DEF PositionsOf
    <3>4. CASE p = w /\ ~ Listening(r)
      BY <1>3, <2>1, <3>2, <3>4 DEF PositionsOf
    <3>5. CASE p = w /\ Listening(r)
      BY <1>2, <1>3, <1>5, <3>2, <3>5
    <3> QED
      BY <3>3, <3>4, <3>5
  <2> QED
    BY <1>3, <2>1, <2>4, <2>5 DEF PositionsOf
<1>7. ASSUME NEW r \in World
      PROVE  OrderOf(r)'
  <2> SUFFICES ASSUME NEW p \in World \ {r}
               PROVE  InOrder(Buffered(r)', inbox'[r][p], applied'[r][p], p)
    BY DEF OrderOf
  <2>1. InOrder(Buffered(r), inbox[r][p], applied[r][p], p)
    BY <1>0 DEF OrderOf
  <2>2. CASE p # w \/ ~ Listening(r)
    BY <1>3, <2>1, <2>2
  <2>3. CASE p = w /\ Listening(r)
    <3>1. \A i \in DOMAIN Buffered(r) : Buffered(r)[i][1] = p => Buffered(r)[i][2] <= last
      BY <1>2, <1>4, <2>3
    <3>2. \A k \in DOMAIN inbox[r][w] : inbox[r][w][k] <= last
      BY <1>2, <1>4
    <3>3. InOrder(Buffered(r), Enqueue(inbox[r][w], n), applied[r][w], w)
      BY <1>2, <1>4, <2>1, <2>3, <3>1, <3>2, EnqueuedInOrder DEF n
    <3> QED
      BY <1>3, <1>5, <2>3, <3>3
  <2> QED
    BY <2>2, <2>3
<1>8. ASSUME NEW r \in World
      PROVE  KeepsAll(r)'
  <2> SUFFICES ASSUME Listening(r)', NEW p \in World \ {r}, NEW k \in 1..Len(stream'[p])
               PROVE  \/ k \in Members(inbox'[r][p])
                      \/ <<p, k>> \in Members(Buffered(r)') \union contains'[r] \union gone'[r]
    BY DEF KeepsAll, Members
  <2>1. Listening(r)
    BY <1>3
  <2>2. CASE p # w
    BY <1>0, <1>2, <1>3, <2>1, <2>2 DEF KeepsAll
  <2>3. CASE p = w /\ k = n
    BY <1>5, <2>1, <2>3
  <2>4. CASE p = w /\ k # n
    <3>1. k \in 1..Len(stream[p])
      BY <1>2, <2>4 DEF last, n
    <3>2. \/ k \in Members(inbox[r][p])
          \/ <<p, k>> \in Members(Buffered(r)) \union contains[r] \union gone[r]
      BY <1>0, <2>1, <3>1 DEF KeepsAll
    <3>3. Len(inbox[r][w]) = QueueDepth => <<w, Head(inbox[r][w])>> \in gone'[r]
      BY <1>0, <2>1, <2>4 DEF SyncTypeOK, ChangeWorld, Publish
    <3>4. CASE k \in Members(inbox[r][p])
      BY <1>5, <2>1, <2>4, <3>3, <3>4 DEF Members
    <3>5. CASE k \notin Members(inbox[r][p])
      BY <1>3, <3>2, <3>5
    <3> QED
      BY <3>4, <3>5
  <2> QED
    BY <2>2, <2>3, <2>4
<1>9. PositionsPublished'
  BY <1>6 DEF PositionsPublished
<1>10. AppliedInStreamOrder'
  BY <1>7 DEF AppliedInStreamOrder, InOrder, OrderOf
<1>11. NothingVanishes'
  BY <1>8 DEF NothingVanishes, KeepsAll
<1> QED
  BY <1>1, <1>9, <1>10, <1>11 DEF SyncInv, Ordered

\* The callback takes the first message of a queue, and it is lost, buffered or applied.
LEMMA SubscriptionCallback_SyncInv ==
  ASSUME SyncInv, NEW w \in World, NEW p \in World, SubscriptionCallback(w, p)
  PROVE  SyncInv'
<1> DEFINE n == Head(inbox[w][p])
<1>0. /\ SyncTypeOK
      /\ PositionsOf(w) /\ OrderOf(w) /\ KeepsAll(w)
  BY OrderByWorld, KeepsByWorld DEF SyncInv, Ordered, PositionsPublished, SyncTypeOK
<1>1. /\ inbox[w][p] \in Seq(Nat \ {0}) /\ inbox[w][p] # <<>>
      /\ Tail(inbox[w][p]) \in Seq(Nat \ {0}) /\ Len(inbox[w][p]) \in Nat
      /\ Len(Tail(inbox[w][p])) = Len(inbox[w][p]) - 1 /\ Len(inbox[w][p]) >= 1
      /\ \A k \in 1..(Len(inbox[w][p]) - 1) : Tail(inbox[w][p])[k] = inbox[w][p][k + 1]
      /\ n = inbox[w][p][1] /\ 1 \in DOMAIN inbox[w][p]
  <2>1. inbox[w][p] \in Seq(Nat \ {0}) /\ inbox[w][p] # <<>>
    BY <1>0 DEF SubscriptionCallback, SyncTypeOK
  <2>2. Len(inbox[w][p]) \in Nat /\ Len(inbox[w][p]) >= 1
    BY <2>1, EmptySeq
  <2> QED
    BY <2>1, <2>2
<1>2. n \in 1..Len(stream[p]) /\ n \in Nat \ {0} /\ <<p, n>> \in Position
  BY <1>0, <1>1 DEF PositionsOf, Position
<1>3. /\ stream' = stream /\ batch' = batch /\ applying' = applying
      /\ inbox' = [inbox EXCEPT ![w][p] = Tail(@)]
      /\ Listening(w) /\ connection' \in {connection, [connection EXCEPT ![w] = "raised"]}
  BY DEF SubscriptionCallback, Buffer, ReceiveAndApply, Raise, Listening
<1> HIDE DEF n
<1>4. \/ /\ missed' = missed /\ applied' = applied /\ contains' = contains /\ model' = model
         /\ IF p = w THEN gone' = gone \/ gone' = [gone EXCEPT ![w] = @ \union {}]
                     ELSE gone' = [gone EXCEPT ![w] = @ \union {<<p, n>>}]
      \/ /\ p # w /\ w \in Deferring /\ missed' = [missed EXCEPT ![w] = Append(@, <<p, n>>)]
         /\ applied' = applied /\ contains' = contains /\ gone' = gone /\ model' = model
      \/ /\ p # w /\ w \notin Deferring /\ missed' = missed /\ ApplyMessage(w, p, n)
         /\ applied' = [applied EXCEPT ![w][p] = Largest(@, n)]
         /\ contains' = [contains EXCEPT ![w] = @ \union {<<p, n>>}] /\ gone' = gone
      \/ /\ p # w /\ missed' = missed /\ ApplyMessage(w, p, n)
         /\ applied' = applied /\ contains' = contains
         /\ gone' = [gone EXCEPT ![w] = @ \union {<<p, n>>}]
  <2>1. CASE ~ Deserializable(MessageAt(<<p, n>>), model[w])
    <3>1. /\ UNCHANGED <<model, missed, applied, contains>>
          /\ gone' = [gone EXCEPT ![w] = @ \union (IF p = w THEN {} ELSE {<<p, n>>})]
      BY <2>1 DEF SubscriptionCallback, Lose, n
    <3> QED
      BY <3>1
  <2>2. CASE Deserializable(MessageAt(<<p, n>>), model[w])
    <3>1. CASE p = w /\ UNCHANGED <<model, missed, applied, contains, gone, connection>>
      BY <3>1
    <3>2. CASE p # w /\ w \in Deferring /\ Buffer(w, p, n)
      BY <3>2 DEF Buffer
    <3>3. CASE p # w /\ w \notin Deferring /\ ReceiveAndApply(w, p, n)
      <4>1. CASE Applicable(MessageAt(<<p, n>>), model[w])
        BY <3>3, <4>1 DEF ReceiveAndApply, ApplyMessage
      <4>2. CASE ~ Applicable(MessageAt(<<p, n>>), model[w])
        BY <3>3, <4>2 DEF ReceiveAndApply, ApplyMessage, Lose
      <4> QED
        BY <4>1, <4>2
    <3> QED
      BY <2>2, <3>1, <3>2, <3>3 DEF SubscriptionCallback, n
  <2> QED
    BY <2>1, <2>2
<1>5. SyncTypeOK'
  <2>1. inbox' \in [World -> [World -> Seq(Nat \ {0})]]
    <3>1. [inbox EXCEPT ![w][p] = Tail(@)] \in [World -> [World -> Seq(Nat \ {0})]]
      BY <1>0, <1>1 DEF SyncTypeOK
    <3> QED
      BY <1>3, <3>1, Zenon
  <2>2. connection' \in [World -> {"absent", "fetched", "connected", "raised", "dead"}]
    <3>1. /\ connection \in [World -> {"absent", "fetched", "connected", "raised", "dead"}]
          /\ [connection EXCEPT ![w] = "raised"]
               \in [World -> {"absent", "fetched", "connected", "raised", "dead"}]
      BY <1>0 DEF SyncTypeOK
    <3>2. connection' = connection \/ connection' = [connection EXCEPT ![w] = "raised"]
      BY <1>3
    <3> QED
      BY <3>1, <3>2, Zenon
  <2>3. missed' \in [World -> Seq(Position)]
    <3>1. /\ missed \in [World -> Seq(Position)]
          /\ [missed EXCEPT ![w] = Append(@, <<p, n>>)] \in [World -> Seq(Position)]
      BY <1>0, <1>2 DEF SyncTypeOK
    <3>2. missed' = missed \/ missed' = [missed EXCEPT ![w] = Append(@, <<p, n>>)]
      BY <1>4, Zenon
    <3> QED
      BY <3>1, <3>2, Zenon
  <2>4. gone' \in [World -> SUBSET Position]
    <3>1. /\ gone \in [World -> SUBSET Position]
          /\ [gone EXCEPT ![w] = @ \union {}] \in [World -> SUBSET Position]
          /\ [gone EXCEPT ![w] = @ \union {<<p, n>>}] \in [World -> SUBSET Position]
      BY <1>0, <1>2 DEF SyncTypeOK
    <3>2. \/ gone' = gone \/ gone' = [gone EXCEPT ![w] = @ \union {}]
          \/ gone' = [gone EXCEPT ![w] = @ \union {<<p, n>>}]
      BY <1>4, Zenon
    <3> QED
      BY <3>1, <3>2, Zenon
  <2>5. /\ model' \in [World -> SUBSET Entity] /\ applied' \in [World -> [World -> Nat]]
        /\ contains' \in [World -> SUBSET Position]
    <3>1. CASE ApplyMessage(w, p, n)
      BY <1>0, <1>2, <3>1, ApplyMessage_Types
    <3>2. CASE model' = model /\ applied' = applied /\ contains' = contains
      BY <1>0, <3>2 DEF SyncTypeOK
    <3> QED
      BY <1>4, <3>1, <3>2
  <2> QED
    BY <1>0, <1>3, <2>1, <2>2, <2>3, <2>4, <2>5 DEF SyncTypeOK
<1>6. /\ inbox'[w][p] = Tail(inbox[w][p]) /\ Listening(w)'
      /\ \A o \in World : o # p => inbox'[w][o] = inbox[w][o]
      /\ batch'[w] = batch[w]
      /\ contains[w] \subseteq contains'[w] /\ gone[w] \subseteq gone'[w]
      /\ \A o \in World : o # p => applied'[w][o] = applied[w][o]
  <2>1. /\ inbox'[w][p] = Tail(inbox[w][p])
        /\ \A o \in World : o # p => inbox'[w][o] = inbox[w][o]
    BY <1>0, <1>3 DEF SyncTypeOK
  <2>2. Listening(w)'
    BY <1>0, <1>3 DEF SyncTypeOK, Listening
  <2>3. batch'[w] = batch[w]
    BY <1>3
  <2>4. contains[w] \subseteq contains'[w]
    BY <1>0, <1>4 DEF SyncTypeOK
  <2>5. gone[w] \subseteq gone'[w]
    <3>1. \/ gone' = gone \/ gone' = [gone EXCEPT ![w] = @ \union {<<p, n>>}]
      BY <1>4
    <3> QED
      BY <1>0, <3>1 DEF SyncTypeOK
  <2>6. \A o \in World : o # p => applied'[w][o] = applied[w][o]
    <3>1. applied' = applied \/ applied' = [applied EXCEPT ![w][p] = Largest(@, n)]
      BY <1>4
    <3>2. applied \in [World -> [World -> Nat]]
      BY <1>0 DEF SyncTypeOK
    <3>3. CASE applied' = applied
      BY <3>3
    <3>4. CASE applied' = [applied EXCEPT ![w][p] = Largest(@, n)]
      <4>1. applied'[w] = [applied[w] EXCEPT ![p] = Largest(@, n)]
        BY <3>2, <3>4
      <4> QED
        BY <3>2, <4>1
    <3> QED
      BY <3>1, <3>3, <3>4
  <2> QED
    BY <2>1, <2>2, <2>3, <2>4, <2>5, <2>6
<1>7. \/ /\ missed'[w] = missed[w] /\ Buffered(w)' = Buffered(w)
         /\ applied'[w][p] = applied[w][p] /\ (p = w \/ <<p, n>> \in gone'[w])
      \/ /\ p # w /\ w \in Deferring /\ Buffered(w)' = Append(Buffered(w), <<p, n>>)
         /\ applied'[w][p] = applied[w][p]
      \/ /\ p # w /\ missed'[w] = missed[w] /\ Buffered(w) = <<>> /\ Buffered(w)' = <<>>
         /\ applied'[w][p] = Largest(applied[w][p], n) /\ <<p, n>> \in contains'[w]
  <2>1. CASE /\ missed' = missed /\ applied' = applied
             /\ p = w \/ gone' = [gone EXCEPT ![w] = @ \union {<<p, n>>}]
    <3>1. p = w \/ <<p, n>> \in gone'[w]
      BY <1>0, <2>1 DEF SyncTypeOK
    <3>2. Buffered(w)' = Buffered(w)
      BY <1>3, <2>1 DEF Buffered
    <3> QED
      BY <2>1, <3>1, <3>2
  <2>2. CASE p # w /\ w \in Deferring /\ applied' = applied
             /\ missed' = [missed EXCEPT ![w] = Append(@, <<p, n>>)]
    <3>1. batch[w] \in Seq(Position) /\ missed[w] \in Seq(Position)
      BY <1>0 DEF SyncTypeOK
    <3>2. batch[w] \o Append(missed[w], <<p, n>>) = Append(batch[w] \o missed[w], <<p, n>>)
      BY <1>2, <3>1, AppendBehind, Zenon
    <3>3. missed'[w] = Append(missed[w], <<p, n>>)
      BY <1>0, <2>2 DEF SyncTypeOK
    <3> QED
      BY <1>6, <2>2, <3>2, <3>3 DEF Buffered
  <2>3. CASE p # w /\ w \notin Deferring /\ missed' = missed
             /\ applied' = [applied EXCEPT ![w][p] = Largest(@, n)]
             /\ contains' = [contains EXCEPT ![w] = @ \union {<<p, n>>}]
    <3>1. missed[w] = <<>> /\ batch[w] = <<>> /\ <<>> \o <<>> = <<>>
      BY <1>0, <2>3 DEF PositionsOf
    <3> QED
      BY <1>0, <1>6, <2>3, <3>1 DEF Buffered, SyncTypeOK
  <2> QED
    BY <1>4, <2>1, <2>2, <2>3
<1>8. PositionsOf(w)'
  <2>1. \A i \in DOMAIN Buffered(w)' :
          /\ Buffered(w)'[i][1] # w
          /\ Buffered(w)'[i][2] \in 1..Len(stream'[Buffered(w)'[i][1]])
    <3>1. CASE Buffered(w)' = Buffered(w) \/ Buffered(w)' = <<>>
      BY <1>0, <1>3, <3>1 DEF PositionsOf
    <3>2. CASE p # w /\ Buffered(w)' = Append(Buffered(w), <<p, n>>)
      <4>1. Buffered(w) \in Seq(Position)
        BY <1>0, BufferedType
      <4> QED
        BY <1>0, <1>2, <1>3, <3>2, <4>1 DEF PositionsOf
    <3> QED
      BY <1>7, <3>1, <3>2
  <2>2. ASSUME NEW o \in World
        PROVE  /\ \A k \in DOMAIN inbox'[w][o] : inbox'[w][o][k] \in 1..Len(stream'[o])
               /\ Len(inbox'[w][o]) <= QueueDepth
               /\ applied'[w][o] <= Len(stream'[o])
    <3>1. CASE o # p
      BY <1>0, <1>3, <1>6, <3>1 DEF PositionsOf
    <3>2. CASE o = p
      <4>1. \A k \in DOMAIN inbox'[w][p] : inbox'[w][p][k] \in 1..Len(stream[p])
        <5>1. \A k \in DOMAIN Tail(inbox[w][p]) :
                k + 1 \in DOMAIN inbox[w][p] /\ Tail(inbox[w][p])[k] = inbox[w][p][k + 1]
          BY <1>1
        <5> QED
          BY <1>0, <1>6, <5>1 DEF PositionsOf
      <4>2. Len(inbox'[w][p]) <= QueueDepth
        BY <1>0, <1>1, <1>6, SynchronizationAssumption DEF PositionsOf
      <4>3. applied'[w][p] <= Len(stream[p])
        BY <1>0, <1>2, <1>7 DEF PositionsOf, Largest
      <4> QED
        BY <1>3, <3>2, <4>1, <4>2, <4>3
    <3> QED
      BY <3>1, <3>2
  <2>3. w \notin Deferring => missed'[w] = <<>> /\ batch'[w] = <<>>
    BY <1>0, <1>6, <1>7 DEF PositionsOf
  <2> QED
    BY <1>6, <2>1, <2>2, <2>3 DEF PositionsOf
<1>9. OrderOf(w)'
  <2> SUFFICES ASSUME NEW o \in World \ {w}
               PROVE  InOrder(Buffered(w)', inbox'[w][o], applied'[w][o], o)
    BY DEF OrderOf
  <2>1. InOrder(Buffered(w), inbox[w][o], applied[w][o], o)
    BY <1>0 DEF OrderOf
  <2>2. /\ Buffered(w) \in Seq(Position) /\ inbox[w][o] \in Seq(Nat \ {0})
        /\ applied[w][o] \in Nat
    BY <1>0, BufferedType, ZenonT(60) DEF SyncTypeOK
  <2>3. CASE o # p
    <3>1. CASE Buffered(w)' = Buffered(w)
      BY <1>6, <2>1, <2>3, <3>1
    <3>2. CASE Buffered(w)' = Append(Buffered(w), <<p, n>>)
      BY <1>2, <1>6, <2>1, <2>2, <2>3, <3>2, OthersInOrder
    <3> QED
      BY <1>7, <3>1, <3>2
  <2>4. CASE o = p
    <3>1. /\ InOrder(Append(Buffered(w), <<p, n>>), Tail(inbox[w][p]), applied[w][p], p)
          /\ InOrder(Buffered(w), Tail(inbox[w][p]), applied[w][p], p)
          /\ InOrder(<<>>, Tail(inbox[w][p]), Largest(applied[w][p], n), p)
      BY <1>1, <2>1, <2>2, <2>4, BufferedInOrder DEF n
    <3> QED
      BY <1>6, <1>7, <2>4, <3>1
  <2> QED
    BY <2>3, <2>4
<1>10. KeepsAll(w)'
  <2> SUFFICES ASSUME NEW o \in World \ {w}, NEW k \in 1..Len(stream'[o])
               PROVE  \/ k \in Members(inbox'[w][o])
                      \/ <<o, k>> \in Members(Buffered(w)') \union contains'[w] \union gone'[w]
    BY DEF KeepsAll, Members
  <2>1. \/ k \in Members(inbox[w][o])
        \/ <<o, k>> \in Members(Buffered(w)) \union contains[w] \union gone[w]
    BY <1>0, <1>3 DEF KeepsAll
  <2>2. Members(Buffered(w)) \subseteq Members(Buffered(w)')
    <3>1. Buffered(w) \in Seq(Position)
      BY <1>0, BufferedType
    <3>2. CASE Buffered(w)' = Append(Buffered(w), <<p, n>>)
      BY <1>2, <3>1, <3>2 DEF Members
    <3> QED
      BY <1>7, <3>2
  <2>3. CASE o # p \/ k \notin Members(inbox[w][o])
    BY <1>6, <2>1, <2>2, <2>3
  <2>4. CASE o = p /\ k \in Members(inbox[w][o])
    <3>1. k = n \/ k \in Members(Tail(inbox[w][p]))
      <4>1. PICK l \in DOMAIN inbox[w][p] : k = inbox[w][p][l]
        BY <2>4 DEF Members
      <4>2. CASE l = 1
        BY <1>1, <4>1, <4>2
      <4>3. CASE l # 1
        <5>1. l - 1 \in DOMAIN Tail(inbox[w][p]) /\ Tail(inbox[w][p])[l - 1] = inbox[w][p][l]
          BY <1>1, <4>3, SMTT(30)
        <5> QED
          BY <4>1, <5>1 DEF Members
      <4> QED
        BY <4>2, <4>3
    <3>2. \/ <<p, n>> \in contains'[w] \union gone'[w]
          \/ <<p, n>> \in Members(Buffered(w)')
      <4>1. Buffered(w) \in Seq(Position)
        BY <1>0, BufferedType
      <4>2. CASE Buffered(w)' = Append(Buffered(w), <<p, n>>)
        <5>1. /\ Len(Buffered(w)) + 1 \in DOMAIN Append(Buffered(w), <<p, n>>)
              /\ Append(Buffered(w), <<p, n>>)[Len(Buffered(w)) + 1] = <<p, n>>
          BY <1>2, <4>1
        <5> QED
          BY <4>2, <5>1 DEF Members
      <4> QED
        BY <1>7, <2>4, <4>2
    <3> QED
      BY <1>6, <2>4, <3>1, <3>2
  <2> QED
    BY <2>3, <2>4
<1>11. \A r \in World \ {w} :
        /\ inbox'[r] = inbox[r] /\ missed'[r] = missed[r] /\ batch'[r] = batch[r]
        /\ applied'[r] = applied[r] /\ connection'[r] = connection[r]
        /\ contains'[r] = contains[r] /\ gone'[r] = gone[r]
  BY <1>0, <1>3, <1>4 DEF SyncTypeOK
<1> QED
  BY <1>3, <1>5, <1>8, <1>9, <1>10, <1>11, OneWorld

\* A prefix of the buffer moves into the empty batch.
LEMMA TakeLeading_SyncInv ==
  ASSUME SyncInv, NEW w \in World, NEW count \in 1..Len(missed[w]), TakeLeading(w, count)
  PROVE  SyncInv'
<1>0. SyncTypeOK /\ PositionsOf(w) /\ OrderOf(w) /\ KeepsAll(w)
  BY OrderByWorld, KeepsByWorld DEF SyncInv, Ordered, PositionsPublished
<1>1. missed[w] \in Seq(Position) /\ batch[w] = <<>>
  BY <1>0 DEF SyncTypeOK, TakeLeading
<1>2. /\ SubSeq(missed[w], 1, count) \in Seq(Position)
      /\ SubSeq(missed[w], count + 1, Len(missed[w])) \in Seq(Position)
      /\ SubSeq(missed[w], 1, count) \o SubSeq(missed[w], count + 1, Len(missed[w]))
           = <<>> \o missed[w]
  BY <1>1, SplitBuffer
<1>3. /\ batch' = [batch EXCEPT ![w] = SubSeq(missed[w], 1, count)]
      /\ missed' = [missed EXCEPT ![w] = SubSeq(missed[w], count + 1, Len(missed[w]))]
      /\ UNCHANGED <<model, stream, inbox, applying, applied, connection, contains, gone>>
  BY DEF TakeLeading
<1>4. SyncTypeOK'
  BY <1>0, <1>2, <1>3 DEF SyncTypeOK
<1>5. Buffered(w)' = Buffered(w) /\ Listening(w)' = Listening(w)
  BY <1>0, <1>1, <1>2, <1>3 DEF Buffered, Listening, SyncTypeOK
<1>6. PositionsOf(w)'
  <2>1. Listening(w) /\ w \in Deferring
    <3>1. missed[w] # <<>>
      BY <1>1
    <3> QED
      BY <1>0, <3>1 DEF PositionsOf
  <2> QED
    BY <1>0, <1>3, <1>5, <2>1 DEF PositionsOf
<1>7. OrderOf(w)'
  BY <1>0, <1>3, <1>5 DEF OrderOf
<1>8. KeepsAll(w)'
  BY <1>0, <1>3, <1>5 DEF KeepsAll
<1>9. \A r \in World \ {w} : missed'[r] = missed[r] /\ batch'[r] = batch[r]
  BY <1>0, <1>3 DEF SyncTypeOK
<1> QED
  BY <1>3, <1>4, <1>6, <1>7, <1>8, <1>9, OneWorld

\* The head of the batch is applied, or the whole batch is lost.
LEMMA ApplyNext_SyncInv ==
  ASSUME SyncInv, NEW w \in World, ApplyNext(w)
  PROVE  SyncInv'
<1> DEFINE p == Head(batch[w])[1]
           n == Head(batch[w])[2]
<1>0. SyncTypeOK /\ PositionsOf(w) /\ OrderOf(w) /\ KeepsAll(w)
  BY OrderByWorld, KeepsByWorld DEF SyncInv, Ordered, PositionsPublished
<1>1. /\ batch[w] \in Seq(Position) /\ missed[w] \in Seq(Position) /\ batch[w] # <<>>
      /\ Head(batch[w]) \in Position /\ Tail(batch[w]) \in Seq(Position)
  BY <1>0 DEF SyncTypeOK, ApplyNext
<1>2. /\ Tail(batch[w]) \o missed[w] = Tail(Buffered(w)) /\ Head(batch[w]) = Buffered(w)[1]
      /\ Buffered(w) \in Seq(Position) /\ 1 \in DOMAIN Buffered(w)
      /\ \A i \in 1..(Len(Buffered(w)) - 1) : Tail(Buffered(w))[i] = Buffered(w)[i + 1]
      /\ DOMAIN Tail(Buffered(w)) = 1..(Len(Buffered(w)) - 1)
  BY <1>1, DropHead, Zenon DEF Buffered
<1>3. /\ p \in World /\ n \in Nat \ {0} /\ Head(batch[w]) = <<p, n>>
      /\ p # w /\ n \in 1..Len(stream[p])
  BY <1>0, <1>1, <1>2 DEF Position, PositionsOf
<1>4. Listening(w) /\ w \in Deferring
  BY <1>0, <1>1 DEF PositionsOf
<1>5. UNCHANGED <<stream, inbox, missed, connection>> /\ ApplyMessage(w, p, n)
  BY DEF ApplyNext
<1>6. \/ /\ batch' = [batch EXCEPT ![w] = Tail(@)] /\ gone' = gone
         /\ applied' = [applied EXCEPT ![w][p] = Largest(@, n)]
         /\ contains' = [contains EXCEPT ![w] = @ \union {<<p, n>>}]
      \/ /\ batch' = [batch EXCEPT ![w] = <<>>] /\ applied' = applied /\ contains' = contains
         /\ gone' = [gone EXCEPT ![w] = @ \union Members(batch[w])]
  BY <1>3 DEF ApplyNext, ApplyMessage, Lose, Members
<1>7. Members(batch[w]) \in SUBSET Position
  BY <1>1 DEF Members
<1>8. SyncTypeOK'
  <2>1. batch' \in [World -> Seq(Position)]
    <3>1. /\ [batch EXCEPT ![w] = Tail(@)] \in [World -> Seq(Position)]
          /\ [batch EXCEPT ![w] = <<>>] \in [World -> Seq(Position)]
      BY <1>0, <1>1 DEF SyncTypeOK
    <3> QED
      BY <1>6, <3>1, Zenon
  <2>2. gone' \in [World -> SUBSET Position]
    <3>1. /\ gone \in [World -> SUBSET Position]
          /\ [gone EXCEPT ![w] = @ \union Members(batch[w])] \in [World -> SUBSET Position]
      BY <1>0, <1>7 DEF SyncTypeOK
    <3> QED
      BY <1>6, <3>1, Zenon
  <2>3. applying' \in [World -> BOOLEAN]
    BY <1>0 DEF SyncTypeOK, ApplyNext
  <2>4. /\ model' \in [World -> SUBSET Entity] /\ applied' \in [World -> [World -> Nat]]
        /\ contains' \in [World -> SUBSET Position]
    BY <1>0, <1>3, <1>5, ApplyMessage_Types
  <2> QED
    BY <1>0, <1>5, <2>1, <2>2, <2>3, <2>4 DEF SyncTypeOK
<1> HIDE DEF n, p
<1>9. /\ Listening(w)' /\ missed'[w] = missed[w]
      /\ \A o \in World : o # p => applied'[w][o] = applied[w][o]
      /\ contains[w] \subseteq contains'[w] /\ gone[w] \subseteq gone'[w]
  BY <1>0, <1>4, <1>5, <1>6 DEF SyncTypeOK, Listening
<1>10. \/ /\ Buffered(w)' = Tail(Buffered(w)) /\ <<p, n>> \in contains'[w]
          /\ applied'[w][p] = Largest(applied[w][p], n)
       \/ /\ Buffered(w)' = <<>> \o missed[w] /\ applied'[w][p] = applied[w][p]
          /\ Members(batch[w]) \subseteq gone'[w]
  <2>1. CASE /\ batch' = [batch EXCEPT ![w] = Tail(@)]
             /\ applied' = [applied EXCEPT ![w][p] = Largest(@, n)]
             /\ contains' = [contains EXCEPT ![w] = @ \union {<<p, n>>}]
    BY <1>0, <1>2, <1>3, <1>9, <2>1 DEF SyncTypeOK, Buffered
  <2>2. CASE /\ batch' = [batch EXCEPT ![w] = <<>>] /\ applied' = applied
             /\ gone' = [gone EXCEPT ![w] = @ \union Members(batch[w])]
    BY <1>0, <1>9, <2>2 DEF SyncTypeOK, Buffered
  <2> QED
    BY <1>6, <2>1, <2>2, Zenon
<1>11. /\ <<>> \o missed[w] = missed[w]
       /\ \A i \in DOMAIN missed[w] :
            /\ Len(batch[w]) + i \in DOMAIN Buffered(w)
            /\ Buffered(w)[Len(batch[w]) + i] = missed[w][i]
       /\ Members(Buffered(w)) = Members(batch[w]) \union Members(missed[w])
  BY <1>1, Behind DEF Buffered
<1>12. \A i \in DOMAIN Buffered(w)' : \E j \in DOMAIN Buffered(w) : Buffered(w)'[i] = Buffered(w)[j]
  <2>1. CASE Buffered(w)' = Tail(Buffered(w))
    <3>1. \A i \in DOMAIN Tail(Buffered(w)) :
            i + 1 \in DOMAIN Buffered(w) /\ Tail(Buffered(w))[i] = Buffered(w)[i + 1]
      BY <1>2
    <3> QED
      BY <2>1, <3>1
  <2>2. CASE Buffered(w)' = missed[w]
    BY <1>11, <2>2
  <2> QED
    BY <1>10, <1>11, <2>1, <2>2
<1>13. PositionsOf(w)'
  <2>1. \A i \in DOMAIN Buffered(w)' :
          /\ Buffered(w)'[i][1] # w
          /\ Buffered(w)'[i][2] \in 1..Len(stream'[Buffered(w)'[i][1]])
    BY <1>0, <1>5, <1>12 DEF PositionsOf
  <2>2. ASSUME NEW o \in World PROVE applied'[w][o] <= Len(stream'[o])
    <3>1. CASE o # p
      BY <1>0, <1>5, <1>9, <3>1 DEF PositionsOf
    <3>2. CASE o = p
      BY <1>0, <1>3, <1>5, <1>10, <3>2 DEF PositionsOf, Largest
    <3> QED
      BY <3>1, <3>2
  <2> QED
    BY <1>0, <1>4, <1>5, <1>9, <2>1, <2>2 DEF PositionsOf
<1>14. OrderOf(w)'
  <2> SUFFICES ASSUME NEW o \in World \ {w}
               PROVE  InOrder(Buffered(w)', inbox'[w][o], applied'[w][o], o)
    BY DEF OrderOf
  <2>1. /\ InOrder(Buffered(w), inbox[w][o], applied[w][o], o) /\ inbox' = inbox
        /\ inbox[w][o] \in Seq(Nat \ {0}) /\ applied[w][o] \in Nat
    BY <1>0, <1>5 DEF OrderOf, SyncTypeOK
  <2>2. /\ InOrder(Tail(Buffered(w)), inbox[w][o], applied[w][o], o)
        /\ p = o => InOrder(Tail(Buffered(w)), inbox[w][o], Largest(applied[w][o], n), o)
        /\ InOrder(<<>> \o missed[w], inbox[w][o], applied[w][o], o)
    BY <1>1, <1>2, <2>1, AppliedInOrder, ZenonT(60) DEF Buffered, p, n
  <2>3. CASE o # p
    BY <1>9, <1>10, <2>1, <2>2, <2>3
  <2>4. CASE o = p
    BY <1>10, <2>1, <2>2, <2>4
  <2> QED
    BY <2>3, <2>4
<1>15. KeepsAll(w)'
  <2> SUFFICES ASSUME NEW o \in World \ {w}, NEW k \in 1..Len(stream'[o])
               PROVE  \/ k \in Members(inbox'[w][o])
                      \/ <<o, k>> \in Members(Buffered(w)') \union contains'[w] \union gone'[w]
    BY DEF KeepsAll, Members
  <2>1. /\ inbox' = inbox
        /\ \/ k \in Members(inbox[w][o])
           \/ <<o, k>> \in Members(Buffered(w)) \union contains[w] \union gone[w]
    BY <1>0, <1>4, <1>5 DEF KeepsAll
  <2>2. CASE <<o, k>> \notin Members(Buffered(w))
    BY <1>9, <2>1, <2>2
  <2>3. CASE <<o, k>> \in Members(Buffered(w))
    <3>1. PICK i \in DOMAIN Buffered(w) : Buffered(w)[i] = <<o, k>>
      BY <2>3 DEF Members
    <3>2. CASE Buffered(w)' = Tail(Buffered(w)) /\ <<p, n>> \in contains'[w]
      <4>1. CASE i = 1
        BY <1>2, <1>3, <3>1, <3>2, <4>1
      <4>2. CASE i # 1
        <5>1. i - 1 \in DOMAIN Tail(Buffered(w)) /\ Tail(Buffered(w))[i - 1] = Buffered(w)[i]
          BY <1>2, <4>2
        <5> QED
          BY <3>1, <3>2, <5>1 DEF Members
      <4> QED
        BY <4>1, <4>2
    <3>3. CASE Buffered(w)' = missed[w] /\ Members(batch[w]) \subseteq gone'[w]
      BY <1>11, <2>3, <3>3
    <3> QED
      BY <1>10, <1>11, <3>2, <3>3
  <2> QED
    BY <2>2, <2>3
<1>16. \A r \in World \ {w} :
        /\ batch'[r] = batch[r] /\ applied'[r] = applied[r]
        /\ contains'[r] = contains[r] /\ gone'[r] = gone[r]
  BY <1>0, <1>6 DEF SyncTypeOK
<1> QED
  BY <1>5, <1>8, <1>13, <1>14, <1>15, <1>16, OneWorld

\* A world that is fetched does not take part yet.
LEMMA FetchWorld_SyncInv ==
  ASSUME SyncInv, NEW w \in World, NEW p \in World, FetchWorld(w, p)
  PROVE  SyncInv'
<1>0. SyncTypeOK /\ PositionsOf(w) /\ OrderOf(w) /\ KeepsAll(w)
  BY OrderByWorld, KeepsByWorld DEF SyncInv, Ordered, PositionsPublished
<1>1. /\ UNCHANGED <<stream, inbox, missed, batch, applying, applied>>
      /\ ~ Listening(w) /\ ~ Listening(w)' /\ Buffered(w)' = Buffered(w)
      /\ \A r \in World \ {w} : /\ connection'[r] = connection[r]
                                /\ contains'[r] = contains[r] /\ gone'[r] = gone[r]
  BY <1>0 DEF SyncTypeOK, FetchWorld, Listening, Buffered
<1>2. SyncTypeOK'
  BY <1>0 DEF SyncTypeOK, FetchWorld
<1>3. PositionsOf(w)' /\ OrderOf(w)' /\ KeepsAll(w)'
  BY <1>0, <1>1 DEF PositionsOf, OrderOf, KeepsAll
<1> QED
  BY <1>1, <1>2, <1>3, OneWorld

\* What was published before a world listens, and is not in it, never will be.
LEMMA Subscribe_SyncInv ==
  ASSUME SyncInv, NEW w \in World, Subscribe(w)
  PROVE  SyncInv'
<1>0. SyncTypeOK /\ PositionsOf(w) /\ OrderOf(w) /\ KeepsAll(w)
  BY OrderByWorld, KeepsByWorld DEF SyncInv, Ordered, PositionsPublished
<1>1. /\ UNCHANGED <<model, stream, inbox, missed, batch, applying, applied, contains>>
      /\ ~ Listening(w) /\ Buffered(w)' = Buffered(w)
      /\ connection' = [connection EXCEPT ![w] = "connected"]
      /\ gone' = [gone EXCEPT ![w] = @ \union ({q \in Published : q[1] # w} \ contains[w])]
  BY <1>0 DEF SyncTypeOK, Subscribe, Listening, Buffered, Lose
<1>2. SyncTypeOK'
  <2>1. gone' \in [World -> SUBSET Position]
    BY <1>0, <1>1, PublishedArePositions DEF SyncTypeOK
  <2> QED
    BY <1>0, <1>1, <2>1 DEF SyncTypeOK
<1>3. missed[w] = <<>> /\ batch[w] = <<>> /\ \A p \in World : inbox[w][p] = <<>>
  BY <1>0, <1>1 DEF PositionsOf
<1>4. PositionsOf(w)'
  BY <1>0, <1>1, <1>3 DEF PositionsOf
<1>5. OrderOf(w)'
  BY <1>0, <1>1 DEF OrderOf
<1>6. KeepsAll(w)'
  <2>1. ASSUME NEW p \in World \ {w}, NEW n \in 1..Len(stream[p])
        PROVE  <<p, n>> \in contains[w] \union gone'[w]
    <3>1. <<p, n>> \in Published
      BY DEF Published
    <3> QED
      BY <1>0, <1>1, <3>1 DEF SyncTypeOK
  <2> QED
    BY <1>1, <2>1 DEF KeepsAll
<1>7. \A r \in World \ {w} : connection'[r] = connection[r] /\ gone'[r] = gone[r]
  BY <1>0, <1>1 DEF SyncTypeOK
<1> QED
  BY <1>1, <1>2, <1>4, <1>5, <1>6, <1>7, OneWorld

\* The end of the thread that spins the node leaves everything where it is.
LEMMA SpinningEnds_SyncInv ==
  ASSUME SyncInv, NEW w \in World, SpinningEnds(w)
  PROVE  SyncInv'
<1>0. SyncTypeOK /\ PositionsOf(w) /\ OrderOf(w) /\ KeepsAll(w)
  BY OrderByWorld, KeepsByWorld DEF SyncInv, Ordered, PositionsPublished
<1>1. /\ UNCHANGED <<model, stream, inbox, missed, batch, applying, applied, contains, gone>>
      /\ Listening(w) /\ Listening(w)' /\ Buffered(w)' = Buffered(w)
      /\ \A r \in World \ {w} : connection'[r] = connection[r]
  BY <1>0 DEF SyncTypeOK, SpinningEnds, Listening, Buffered
<1>2. SyncTypeOK'
  BY <1>0 DEF SyncTypeOK, SpinningEnds
<1>3. PositionsOf(w)' /\ OrderOf(w)' /\ KeepsAll(w)'
  BY <1>0, <1>1 DEF PositionsOf, OrderOf, KeepsAll
<1> QED
  BY <1>1, <1>2, <1>3, OneWorld

LEMMA Next_SyncInv == SyncInv /\ [SyncNext]_syncVars => SyncInv'
<1> SUFFICES ASSUME SyncInv, [SyncNext]_syncVars PROVE SyncInv'
  OBVIOUS
<1>1. CASE SyncNext
  <2> PICK w \in World :
        \/ \E m \in Message : ChangeWorld(w, m)
        \/ \E p \in World : SubscriptionCallback(w, p) \/ FetchWorld(w, p)
        \/ SpinningEnds(w) \/ Subscribe(w) \/ ApplyNext(w)
        \/ \E count \in 1..Len(missed[w]) : TakeLeading(w, count)
    BY <1>1 DEF SyncNext
  <2>1. CASE \E m \in Message : ChangeWorld(w, m)
    BY <2>1, ChangeWorld_SyncInv
  <2>2. CASE \E p \in World : SubscriptionCallback(w, p)
    BY <2>2, SubscriptionCallback_SyncInv
  <2>3. CASE \E p \in World : FetchWorld(w, p)
    BY <2>3, FetchWorld_SyncInv
  <2>4. CASE SpinningEnds(w)
    BY <2>4, SpinningEnds_SyncInv
  <2>5. CASE Subscribe(w)
    BY <2>5, Subscribe_SyncInv
  <2>6. CASE ApplyNext(w)
    BY <2>6, ApplyNext_SyncInv
  <2>7. CASE \E count \in 1..Len(missed[w]) : TakeLeading(w, count)
    BY <2>7, TakeLeading_SyncInv
  <2> QED
    BY <2>1, <2>2, <2>3, <2>4, <2>5, <2>6, <2>7
<1>2. CASE UNCHANGED syncVars
  <2>1. SyncTypeOK'
    BY <1>2 DEF syncVars, SyncInv, Ordered, SyncTypeOK
  <2>2. PositionsPublished'
    BY <1>2 DEF syncVars, SyncInv, Ordered, PositionsPublished, PositionsOf, Buffered, Listening
  <2>3. AppliedInStreamOrder'
    <3>1. \A w \in World : OrderOf(w)
      BY OrderByWorld DEF SyncInv, Ordered
    <3>2. \A w \in World : OrderOf(w)'
      BY <1>2, <3>1 DEF syncVars, OrderOf, Buffered
    <3> QED
      BY <3>2 DEF AppliedInStreamOrder, InOrder, OrderOf
  <2>4. NothingVanishes'
    BY <1>2 DEF syncVars, SyncInv, NothingVanishes, Buffered, Listening
  <2> QED
    BY <2>1, <2>2, <2>3, <2>4 DEF SyncInv, Ordered
<1> QED
  BY <1>1, <1>2

\* Everything up to the position applied last was applied or lost.
LEMMA AppliedPositions == SyncInv => HasAppliedMeansContainedOrGone
<1> SUFFICES ASSUME SyncInv, NEW w \in World, NEW p \in World \ {w}, Listening(w),
                    NEW n \in 1..applied[w][p]
             PROVE  <<p, n>> \in contains[w] \union gone[w]
  BY DEF HasAppliedMeansContainedOrGone
<1>0. SyncTypeOK /\ PositionsOf(w) /\ OrderOf(w) /\ KeepsAll(w)
  BY OrderByWorld, KeepsByWorld DEF SyncInv, Ordered, PositionsPublished
<1>1. /\ applied[w][p] \in Nat /\ Len(stream[p]) \in Nat /\ inbox[w][p] \in Seq(Nat \ {0})
      /\ Buffered(w) \in Seq(Position)
  BY <1>0, BufferedType DEF SyncTypeOK
<1>2. applied[w][p] <= Len(stream[p]) /\ n \in 1..Len(stream[p])
  BY <1>0, <1>1 DEF PositionsOf
<1>3. InOrder(Buffered(w), inbox[w][p], applied[w][p], p)
  BY <1>0 DEF OrderOf
<1>4. n \notin Members(inbox[w][p])
  BY <1>1, <1>3 DEF InOrder, Members
<1>5. <<p, n>> \notin Members(Buffered(w))
  BY <1>1, <1>3 DEF InOrder, Members
<1> QED
  BY <1>0, <1>2, <1>4, <1>5 DEF KeepsAll
-----------------------------------------------------------------------------
\* What a world is made of.

\* The messages that may still be applied to a world.
Waiting(w) ==
  Members(Buffered(w)) \union UNION {{p} \X Members(inbox[w][p]) : p \in World \ {w}}

\* A world contains what was published, its own messages at once, the others when they
\* have stopped waiting.
HistoryOf(w) ==
  /\ contains[w] \union gone[w] \union Waiting(w) \subseteq Published
  /\ {w} \X (1..Len(stream[w])) \subseteq contains[w]
  /\ Listening(w) \/ stream[w] = <<>>
  /\ Waiting(w) \intersect contains[w] = {}

AddedOnce ==
  \A q \in Published : MessageAt(q).kind = "add" =>
    /\ MessageAt(q).entity \notin Initially
    /\ \A r \in Published :
         MessageAt(r).kind = "add" /\ MessageAt(r).entity = MessageAt(q).entity => r = q

\* What a message refers to is older than the message, in the stream of its publisher.
ReferencesAddedFirst ==
  \A q \in Published : \A e \in References(MessageAt(q)) \ (Initially \union {Root}) :
    \E r \in Published : /\ MessageAt(r).kind = "add" /\ MessageAt(r).entity = e
                         /\ r[1] = q[1] => r[2] < q[2]

\* An entity that a world has met is in it, or there is a message that tells why not.
Accounted(w) ==
  model[w] \union EntitiesOf("remove", contains[w]) \union {MessageAt(q).entity : q \in gone[w]}

Named(w) == (UNION {References(MessageAt(q)) : q \in {w} \X (1..Len(stream[w]))}) \ {Root}

Met(w) == Initially \union EntitiesOf("add", contains[w]) \union Named(w)

Made(w) ==
  /\ EntitiesOf("remove", contains[w]) \subseteq Initially \union EntitiesOf("add", contains[w])
  /\ model[w] = (Initially \union EntitiesOf("add", contains[w])) \ EntitiesOf("remove", contains[w])

ModelOf(w) ==
  /\ model[w] \subseteq Created
  /\ connection[w] # "absent" => Met(w) \subseteq Accounted(w) /\ (gone[w] = {} => Made(w))

Histories == AddedOnce /\ ReferencesAddedFirst /\ \A w \in World : HistoryOf(w)
WorldInv == SyncInv /\ Histories /\ \A w \in World : ModelOf(w)

\* What a step that publishes nothing does to a world: nothing that its history tells, ...
Idles(r) ==
  /\ model'[r] = model[r] /\ contains'[r] = contains[r]
  /\ gone[r] \subseteq gone'[r] /\ gone'[r] \subseteq Published
  /\ connection'[r] = "absent" <=> connection[r] = "absent"
  /\ Listening(r) => Listening(r)'
  /\ Waiting(r)' \subseteq Waiting(r)

\* ... it applies a message, or fails to, ...
Applies(r, q) ==
  /\ q \in Waiting(r) /\ Listening(r) /\ Listening(r)'
  /\ model'[r] = After(MessageAt(q), model[r])
  /\ \/ /\ Applicable(MessageAt(q), model[r]) /\ gone'[r] = gone[r]
        /\ contains'[r] = contains[r] \union {q} /\ Waiting(r)' \subseteq Waiting(r) \ {q}
     \/ /\ contains'[r] = contains[r] /\ Waiting(r)' \subseteq Waiting(r)
        /\ gone[r] \union {q} \subseteq gone'[r] /\ gone'[r] \subseteq Published

\* ... or it is copied.
Fetches(r, p) ==
  /\ ~ Listening(r) /\ ~ Listening(r)' /\ Listening(p) /\ p # r
  /\ model'[r] = model[p] /\ contains'[r] = contains[p] /\ gone'[r] = gone[p]
  /\ Waiting(r)' = {}

LEMMA PublishedPositions ==
  ASSUME SyncTypeOK
  PROVE  /\ \A q : q \in Published <=> /\ q \in Position /\ q[1] \in World
                                       /\ q[2] \in 1..Len(stream[q[1]])
         /\ \A p \in World : \A n : <<p, n>> \in Published <=> n \in 1..Len(stream[p])
         /\ \A q \in Published : MessageAt(q) \in Message
<1>1. \A p \in World : 1..Len(stream[p]) \subseteq Nat \ {0} /\ stream[p] \in Seq(Message)
  BY DEF SyncTypeOK
<1>2. \A q : q \in Published => q \in Position /\ q[1] \in World /\ q[2] \in 1..Len(stream[q[1]])
  BY <1>1 DEF Published, Position
<1>3. \A q \in Position : q[2] \in 1..Len(stream[q[1]]) => q \in Published
  BY DEF Published, Position
<1>4. \A p \in World : \A n : <<p, n>> \in Published <=> n \in 1..Len(stream[p])
  BY <1>2 DEF Published
<1>5. \A q \in Published : MessageAt(q) \in Message
  BY <1>1, <1>2 DEF MessageAt
<1> QED
  BY <1>2, <1>3, <1>4, <1>5

\* What waits was published by another world.
LEMMA WaitingMessages ==
  ASSUME SyncTypeOK, NEW w \in World, PositionsOf(w)
  PROVE  Waiting(w) \subseteq Published /\ \A q \in Waiting(w) : q[1] # w
<1>1. /\ Buffered(w) \in Seq(Position) /\ \A p \in World : inbox[w][p] \in Seq(Nat \ {0})
  BY BufferedType DEF SyncTypeOK
<1>2. ASSUME NEW q \in Members(Buffered(w)) PROVE q \in Published /\ q[1] # w
  <2>1. PICK i \in DOMAIN Buffered(w) : q = Buffered(w)[i]
    BY DEF Members
  <2>2. q \in Position /\ q[1] # w /\ q[2] \in 1..Len(stream[q[1]])
    BY <1>1, <2>1 DEF PositionsOf
  <2> QED
    BY <2>2, PublishedPositions DEF Position
<1>3. ASSUME NEW p \in World \ {w}, NEW q \in {p} \X Members(inbox[w][p])
      PROVE  q \in Published /\ q[1] # w
  <2>1. PICK k \in DOMAIN inbox[w][p] : q = <<p, inbox[w][p][k]>>
    BY DEF Members
  <2>2. inbox[w][p][k] \in 1..Len(stream[p])
    BY DEF PositionsOf
  <2> QED
    BY <2>1, <2>2, PublishedPositions
<1> QED
  BY <1>2, <1>3 DEF Waiting

\* A world that does not listen waits for nothing.
LEMMA NothingWaits ==
  ASSUME NEW w \in World, PositionsOf(w), ~ Listening(w)
  PROVE  Waiting(w) = {}
<1>1. Buffered(w) = <<>>
  BY DEF PositionsOf, Buffered
<1>2. \A p \in World : inbox[w][p] = <<>>
  BY DEF PositionsOf
<1> QED
  BY <1>1, <1>2 DEF Waiting, Members

\* Who waits for nothing more, and has the same world, idles.
LEMMA Idle ==
  ASSUME NEW r \in World, HistoryOf(r), connection'[r] = connection[r],
         model'[r] = model[r], contains'[r] = contains[r], gone'[r] = gone[r],
         inbox'[r] = inbox[r], Buffered(r)' = Buffered(r)
  PROVE  Idles(r)
<1>1. Waiting(r)' = Waiting(r) /\ Listening(r)' = Listening(r)
  BY DEF Waiting, Listening
<1> QED
  BY <1>1 DEF Idles, HistoryOf

LEMMA TheOthersIdle ==
  ASSUME NEW w \in World, \A r \in World : HistoryOf(r),
         \A r \in World \ {w} :
           /\ model'[r] = model[r] /\ inbox'[r] = inbox[r] /\ missed'[r] = missed[r]
           /\ batch'[r] = batch[r] /\ connection'[r] = connection[r]
           /\ contains'[r] = contains[r] /\ gone'[r] = gone[r]
  PROVE  \A r \in World \ {w} : Idles(r)
BY Idle DEF Buffered

LEMMA ApplyNext_Effect ==
  ASSUME SyncInv, NEW w \in World, ApplyNext(w), HistoryOf(w)
  PROVE  \E q \in Position : Applies(w, q)
<1> DEFINE q == Head(batch[w])
<1>0. SyncTypeOK /\ PositionsOf(w) /\ OrderOf(w)
  BY OrderByWorld DEF SyncInv, Ordered, PositionsPublished
<1>1. /\ batch[w] \in Seq(Position) /\ missed[w] \in Seq(Position) /\ batch[w] # <<>>
      /\ q \in Position /\ q = <<q[1], q[2]>> /\ q[1] \in World
  <2>1. batch[w] \in Seq(Position) /\ batch[w] # <<>>
    BY <1>0 DEF SyncTypeOK, ApplyNext
  <2>2. q \in Position
    BY <2>1
  <2>3. \A x \in Position : x = <<x[1], x[2]>> /\ x[1] \in World
    BY DEF Position
  <2>4. missed[w] \in Seq(Position)
    BY <1>0 DEF SyncTypeOK
  <2> HIDE DEF q
  <2> QED
    BY <2>1, <2>2, <2>3, <2>4
<1>2. /\ Tail(batch[w]) \o missed[w] = Tail(Buffered(w)) /\ q = Buffered(w)[1]
      /\ Buffered(w) \in Seq(Position) /\ 1 \in DOMAIN Buffered(w)
      /\ \A i \in 1..(Len(Buffered(w)) - 1) : Tail(Buffered(w))[i] = Buffered(w)[i + 1]
      /\ DOMAIN Tail(Buffered(w)) = 1..(Len(Buffered(w)) - 1)
  BY <1>1, DropHead, Zenon DEF Buffered
<1>3. /\ UNCHANGED <<stream, inbox, missed, connection>> /\ Listening(w) /\ Listening(w)'
      /\ model' = [model EXCEPT ![w] = After(MessageAt(q), @)]
  BY <1>0, <1>1 DEF ApplyNext, ApplyMessage, PositionsOf, Listening
<1>4. q \in Waiting(w) /\ q[1] # w
  BY <1>0, <1>2 DEF Waiting, Members, PositionsOf
<1>5. \/ /\ batch' = [batch EXCEPT ![w] = Tail(@)] /\ gone' = gone
         /\ Applicable(MessageAt(q), model[w])
         /\ contains' = [contains EXCEPT ![w] = @ \union {q}]
      \/ /\ batch' = [batch EXCEPT ![w] = <<>>] /\ contains' = contains
         /\ gone' = [gone EXCEPT ![w] = @ \union Members(batch[w])]
  BY <1>1 DEF ApplyNext, ApplyMessage, Lose, Members
<1>6. Members(batch[w]) \subseteq Waiting(w) /\ Members(missed[w]) \subseteq Members(Buffered(w))
  BY <1>1, Behind DEF Buffered, Waiting
<1> HIDE DEF q
<1>7. CASE /\ batch' = [batch EXCEPT ![w] = Tail(@)] /\ gone' = gone
           /\ Applicable(MessageAt(q), model[w])
           /\ contains' = [contains EXCEPT ![w] = @ \union {q}]
  <2>1. Buffered(w)' = Tail(Buffered(w))
    BY <1>0, <1>2, <1>3, <1>7 DEF Buffered, SyncTypeOK
  <2>2. Members(Buffered(w)') \subseteq Members(Buffered(w)) \ {q}
    <3> SUFFICES ASSUME NEW i \in DOMAIN Tail(Buffered(w))
                 PROVE  Tail(Buffered(w))[i] \in Members(Buffered(w)) \ {q}
      BY <2>1 DEF Members
    <3>1. /\ i + 1 \in DOMAIN Buffered(w) /\ Tail(Buffered(w))[i] = Buffered(w)[i + 1]
          /\ 1 < i + 1
      BY <1>2
    <3>2. CASE Buffered(w)[i + 1][1] = q[1]
      <4>1. InOrder(Buffered(w), inbox[w][q[1]], applied[w][q[1]], q[1])
        BY <1>0, <1>1, <1>4 DEF OrderOf
      <4>2. q[2] < Buffered(w)[i + 1][2]
        BY <1>2, <3>1, <3>2, <4>1 DEF InOrder
      <4>3. q[2] \in Nat
        BY <1>1 DEF Position
      <4>4. q # Buffered(w)[i + 1]
        BY <4>2, <4>3
      <4> QED
        BY <3>1, <4>4 DEF Members
    <3>3. CASE Buffered(w)[i + 1][1] # q[1]
      BY <3>1, <3>3 DEF Members
    <3> QED
      BY <3>2, <3>3
  <2>3. \A p \in World \ {w} : q \notin {p} \X Members(inbox[w][p])
    <3> SUFFICES ASSUME q[1] \in World \ {w}, NEW k \in DOMAIN inbox[w][q[1]]
                 PROVE  q[2] # inbox[w][q[1]][k]
      BY <1>1 DEF Members
    <3>1. InOrder(Buffered(w), inbox[w][q[1]], applied[w][q[1]], q[1])
      BY <1>0, <1>1, <1>4 DEF OrderOf
    <3>2. q[2] < inbox[w][q[1]][k]
      BY <1>2, <3>1 DEF InOrder
    <3> QED
      BY <1>1, <3>2 DEF Position
  <2>4. Waiting(w)' = Members(Buffered(w)') \union UNION {{p} \X Members(inbox[w][p]) : p \in World \ {w}}
    BY <1>3 DEF Waiting, Members
  <2>5. Waiting(w)' \subseteq Waiting(w) \ {q}
    BY <2>2, <2>3, <2>4 DEF Waiting
  <2>6. model'[w] = After(MessageAt(q), model[w]) /\ contains'[w] = contains[w] \union {q}
    BY <1>0, <1>3, <1>7 DEF SyncTypeOK
  <2>7. Applies(w, q)
    BY <1>3, <1>4, <1>7, <2>5, <2>6 DEF Applies
  <2> QED
    BY <1>1, <2>7
<1>8. CASE /\ batch' = [batch EXCEPT ![w] = <<>>] /\ contains' = contains
           /\ gone' = [gone EXCEPT ![w] = @ \union Members(batch[w])]
  <2>1. Buffered(w)' = missed[w]
    <3>1. <<>> \o missed[w] = missed[w]
      BY <1>1
    <3> QED
      BY <1>0, <1>3, <1>8, <3>1 DEF Buffered, SyncTypeOK
  <2>2. Waiting(w)' = Members(missed[w]) \union UNION {{p} \X Members(inbox[w][p]) : p \in World \ {w}}
    BY <1>3, <2>1 DEF Waiting, Members
  <2>3. Waiting(w)' \subseteq Waiting(w)
    BY <1>6, <2>2 DEF Waiting
  <2>4. q \in Members(batch[w])
    <3>1. q = batch[w][1] /\ 1 \in DOMAIN batch[w]
      BY <1>1, EmptySeq DEF q
    <3> QED
      BY <3>1 DEF Members
  <2>5. gone'[w] = gone[w] \union Members(batch[w])
    BY <1>0, <1>8 DEF SyncTypeOK
  <2>6. gone'[w] \subseteq Published
    BY <1>6, <2>5 DEF HistoryOf
  <2>7. model'[w] = After(MessageAt(q), model[w]) /\ contains'[w] = contains[w]
    BY <1>0, <1>3, <1>8 DEF SyncTypeOK
  <2>8. Applies(w, q)
    BY <1>3, <1>4, <2>3, <2>4, <2>5, <2>6, <2>7 DEF Applies
  <2> QED
    BY <1>1, <2>8
<1> QED
  BY <1>5, <1>7, <1>8, Zenon

LEMMA SubscriptionCallback_Effect ==
  ASSUME SyncInv, NEW w \in World, NEW p \in World, SubscriptionCallback(w, p), HistoryOf(w)
  PROVE  Idles(w) \/ \E q \in Position : Applies(w, q)
<1> DEFINE n == Head(inbox[w][p])
<1>0. SyncTypeOK /\ PositionsOf(w) /\ OrderOf(w)
  BY OrderByWorld DEF SyncInv, Ordered, PositionsPublished
<1>1. /\ inbox[w][p] \in Seq(Nat \ {0}) /\ inbox[w][p] # <<>>
      /\ Tail(inbox[w][p]) \in Seq(Nat \ {0}) /\ Len(inbox[w][p]) \in Nat
      /\ DOMAIN Tail(inbox[w][p]) = 1..(Len(inbox[w][p]) - 1)
      /\ DOMAIN inbox[w][p] = 1..Len(inbox[w][p])
      /\ \A k \in 1..(Len(inbox[w][p]) - 1) : Tail(inbox[w][p])[k] = inbox[w][p][k + 1]
      /\ n = inbox[w][p][1] /\ 1 \in DOMAIN inbox[w][p]
  <2>1. inbox[w][p] \in Seq(Nat \ {0}) /\ inbox[w][p] # <<>>
    BY <1>0 DEF SubscriptionCallback, SyncTypeOK
  <2>2. Len(inbox[w][p]) \in Nat /\ Len(inbox[w][p]) >= 1
    BY <2>1, EmptySeq
  <2> QED
    BY <2>1, <2>2
<1>2. n \in 1..Len(stream[p]) /\ n \in Nat \ {0} /\ <<p, n>> \in Position /\ <<p, n>> \in Published
  BY <1>0, <1>1, PublishedPositions DEF PositionsOf, Position
<1>3. /\ batch' = batch /\ inbox' = [inbox EXCEPT ![w][p] = Tail(@)]
      /\ connection' \in {connection, [connection EXCEPT ![w] = "raised"]}
      /\ Listening(w) /\ Listening(w)' /\ connection[w] # "absent" /\ connection'[w] # "absent"
  BY <1>0 DEF SubscriptionCallback, Buffer, ReceiveAndApply, Raise, Listening, SyncTypeOK
<1>4. Members(Tail(inbox[w][p])) \subseteq Members(inbox[w][p]) /\ n \in Members(inbox[w][p])
  <2>1. \A k \in DOMAIN Tail(inbox[w][p]) : k + 1 \in DOMAIN inbox[w][p]
    BY <1>1
  <2> QED
    BY <1>1, <2>1 DEF Members
<1>5. \A o \in World : Members(inbox'[w][o]) \subseteq Members(inbox[w][o])
  BY <1>0, <1>3, <1>4 DEF SyncTypeOK
<1>6. inbox'[w][p] = Tail(inbox[w][p])
  BY <1>0, <1>3 DEF SyncTypeOK
<1> HIDE DEF n
<1>7. Buffered(w) \in Seq(Position) /\ (p # w => <<p, n>> \in Waiting(w))
  BY <1>0, <1>4, BufferedType DEF Waiting
<1>8. CASE ~ Deserializable(MessageAt(<<p, n>>), model[w])
  <2>1. /\ UNCHANGED <<model, missed, contains>>
        /\ gone'[w] = gone[w] \union (IF p = w THEN {} ELSE {<<p, n>>})
    BY <1>0, <1>8 DEF SubscriptionCallback, Lose, n, SyncTypeOK
  <2>2. Buffered(w)' = Buffered(w)
    BY <1>3, <2>1 DEF Buffered
  <2>3. Waiting(w)' \subseteq Waiting(w)
    BY <1>5, <2>2 DEF Waiting
  <2> QED
    BY <1>2, <1>3, <2>1, <2>3 DEF Idles, HistoryOf
<1>9. CASE p = w /\ UNCHANGED <<model, missed, applied, contains, gone, connection>>
  <2>1. Buffered(w)' = Buffered(w)
    BY <1>3, <1>9 DEF Buffered
  <2>2. Waiting(w)' \subseteq Waiting(w)
    BY <1>5, <2>1 DEF Waiting
  <2> QED
    BY <1>3, <1>9, <2>2 DEF Idles, HistoryOf
<1>10. CASE p # w /\ Buffer(w, p, n)
  <2>1. Buffered(w)' = Append(Buffered(w), <<p, n>>)
    <3>1. batch[w] \in Seq(Position) /\ missed[w] \in Seq(Position)
      BY <1>0 DEF SyncTypeOK
    <3>2. batch[w] \o Append(missed[w], <<p, n>>) = Append(batch[w] \o missed[w], <<p, n>>)
      BY <1>2, <3>1, AppendBehind, Zenon
    <3>3. missed'[w] = Append(missed[w], <<p, n>>)
      BY <1>0, <1>10 DEF SyncTypeOK, Buffer
    <3> QED
      BY <1>3, <3>2, <3>3 DEF Buffered
  <2>2. Members(Buffered(w)') = Members(Buffered(w)) \union {<<p, n>>}
    BY <1>2, <1>7, <2>1 DEF Members
  <2>3. Waiting(w)' \subseteq Waiting(w)
    BY <1>5, <1>7, <1>10, <2>2 DEF Waiting
  <2> QED
    BY <1>3, <1>10, <2>3 DEF Idles, HistoryOf, Buffer
<1>11. CASE p # w /\ w \notin Deferring /\ ReceiveAndApply(w, p, n)
  <2>1. Buffered(w) = <<>> /\ Buffered(w)' = <<>>
    BY <1>0, <1>3, <1>11 DEF PositionsOf, Buffered, ReceiveAndApply
  <2>2. Waiting(w)' \subseteq Waiting(w)
    BY <1>5, <2>1 DEF Waiting
  <2>3. <<p, n>> \notin Waiting(w)'
    <3>1. n \notin Members(inbox'[w][p])
      <4> SUFFICES ASSUME NEW k \in DOMAIN Tail(inbox[w][p]) PROVE n # Tail(inbox[w][p])[k]
        BY <1>6 DEF Members
      <4>1. /\ k + 1 \in DOMAIN inbox[w][p] /\ 1 < k + 1
            /\ Tail(inbox[w][p])[k] = inbox[w][p][k + 1]
        BY <1>1
      <4>2. InOrder(Buffered(w), inbox[w][p], applied[w][p], p)
        BY <1>0, <1>11 DEF OrderOf
      <4>3. inbox[w][p][1] < inbox[w][p][k + 1]
        BY <1>1, <4>1, <4>2 DEF InOrder
      <4> QED
        BY <1>1, <1>2, <4>1, <4>3
    <3> QED
      BY <2>1, <3>1 DEF Waiting, Members
  <2>4. model'[w] = After(MessageAt(<<p, n>>), model[w])
    BY <1>0, <1>11 DEF ReceiveAndApply, ApplyMessage, SyncTypeOK
  <2>5. CASE Applicable(MessageAt(<<p, n>>), model[w])
    <3>1. gone' = gone /\ contains'[w] = contains[w] \union {<<p, n>>}
      BY <1>0, <1>11, <2>5 DEF ReceiveAndApply, ApplyMessage, SyncTypeOK
    <3>2. Applies(w, <<p, n>>)
      BY <1>3, <1>7, <1>11, <2>2, <2>3, <2>4, <2>5, <3>1 DEF Applies
    <3> QED
      BY <1>2, <3>2
  <2>6. CASE ~ Applicable(MessageAt(<<p, n>>), model[w])
    <3>1. gone'[w] = gone[w] \union {<<p, n>>} /\ contains' = contains
      BY <1>0, <1>11, <2>6 DEF ReceiveAndApply, ApplyMessage, Lose, SyncTypeOK
    <3>2. Applies(w, <<p, n>>)
      BY <1>2, <1>3, <1>7, <1>11, <2>2, <2>4, <3>1 DEF Applies, HistoryOf
    <3> QED
      BY <1>2, <3>2
  <2> QED
    BY <2>5, <2>6
<1> QED
  BY <1>8, <1>9, <1>10, <1>11 DEF SubscriptionCallback, n

\* Every step publishes one message, or lets each world idle, apply a message or be copied.
LEMMA StepsOfWorlds ==
  ASSUME SyncInv, \A w \in World : HistoryOf(w), SyncNext
  PROVE  \/ \E w \in World : \E m \in Message : ChangeWorld(w, m)
         \/ /\ stream' = stream
            /\ \A r \in World : \/ Idles(r) \/ \E q \in Position : Applies(r, q)
                                \/ \E p \in World : Fetches(r, p)
<1>0. SyncTypeOK /\ \A w \in World : PositionsOf(w)
  BY DEF SyncInv, Ordered, PositionsPublished
<1> SUFFICES ASSUME NEW w \in World,
                    \/ \E p \in World : SubscriptionCallback(w, p) \/ FetchWorld(w, p)
                    \/ SpinningEnds(w) \/ Subscribe(w) \/ ApplyNext(w)
                    \/ \E count \in 1..Len(missed[w]) : TakeLeading(w, count)
             PROVE  /\ stream' = stream
                    /\ \A r \in World : \/ Idles(r) \/ \E q \in Position : Applies(r, q)
                                        \/ \E p \in World : Fetches(r, p)
  BY DEF SyncNext
<1>1. stream' = stream
  BY DEF SubscriptionCallback, FetchWorld, SpinningEnds, Subscribe, ApplyNext, TakeLeading
<1>2. ASSUME NEW p \in World, SubscriptionCallback(w, p)
      PROVE  /\ \A r \in World \ {w} : Idles(r)
             /\ Idles(w) \/ \E q \in Position : Applies(w, q)
  <2>1. /\ inbox' = [inbox EXCEPT ![w][p] = Tail(@)] /\ batch' = batch
        /\ \A r \in World \ {w} : model'[r] = model[r] /\ missed'[r] = missed[r]
        /\ \A r \in World \ {w} : connection'[r] = connection[r] /\ contains'[r] = contains[r]
        /\ \A r \in World \ {w} : gone'[r] = gone[r]
    BY <1>0, <1>2 DEF SubscriptionCallback, Buffer, ReceiveAndApply, ApplyMessage, Raise, Lose, SyncTypeOK
  <2>2. \A r \in World \ {w} : inbox'[r] = inbox[r]
    BY <1>0, <2>1 DEF SyncTypeOK
  <2> QED
    BY <1>2, <2>1, <2>2, TheOthersIdle, SubscriptionCallback_Effect
<1>3. ASSUME NEW p \in World, FetchWorld(w, p)
      PROVE  (\A r \in World \ {w} : Idles(r)) /\ Fetches(w, p)
  <2>1. /\ UNCHANGED <<inbox, missed, batch>>
        /\ \A r \in World \ {w} : model'[r] = model[r] /\ connection'[r] = connection[r]
        /\ \A r \in World \ {w} : contains'[r] = contains[r] /\ gone'[r] = gone[r]
        /\ model'[w] = model[p] /\ contains'[w] = contains[p] /\ gone'[w] = gone[p]
        /\ ~ Listening(w) /\ ~ Listening(w)' /\ Listening(p)
    BY <1>0, <1>3 DEF FetchWorld, SyncTypeOK, Listening
  <2>2. \A r \in World \ {w} : Idles(r)
    BY <2>1, TheOthersIdle
  <2>3. Waiting(w) = {}
    BY <1>0, <2>1, NothingWaits
  <2>4. Waiting(w)' = Waiting(w)
    BY <2>1 DEF Waiting, Buffered, Members
  <2>5. p # w
    BY <2>1
  <2> QED
    BY <2>1, <2>2, <2>3, <2>4, <2>5 DEF Fetches
<1>4. ASSUME ApplyNext(w)
      PROVE  (\A r \in World \ {w} : Idles(r)) /\ \E q \in Position : Applies(w, q)
  <2>1. /\ UNCHANGED <<inbox, missed, connection>>
        /\ \A r \in World \ {w} : model'[r] = model[r] /\ batch'[r] = batch[r]
        /\ \A r \in World \ {w} : contains'[r] = contains[r] /\ gone'[r] = gone[r]
    BY <1>0, <1>4 DEF ApplyNext, ApplyMessage, Lose, SyncTypeOK
  <2> QED
    BY <1>4, <2>1, TheOthersIdle, ApplyNext_Effect
<1>5. ASSUME NEW count \in 1..Len(missed[w]), TakeLeading(w, count)
      PROVE  \A r \in World : Idles(r)
  <2>1. /\ UNCHANGED <<model, inbox, connection, contains, gone>>
        /\ batch[w] = <<>> /\ missed[w] \in Seq(Position)
        /\ batch'[w] = SubSeq(missed[w], 1, count)
        /\ missed'[w] = SubSeq(missed[w], count + 1, Len(missed[w]))
        /\ \A r \in World \ {w} : missed'[r] = missed[r] /\ batch'[r] = batch[r]
    BY <1>0, <1>5 DEF TakeLeading, SyncTypeOK
  <2>2. Buffered(w)' = Buffered(w)
    BY <2>1, SplitBuffer DEF Buffered
  <2>3. Idles(w)
    BY <2>1, <2>2, Idle
  <2> QED
    BY <2>1, <2>3, TheOthersIdle
<1>6. ASSUME SpinningEnds(w) PROVE \A r \in World : Idles(r)
  <2>1. /\ UNCHANGED <<model, inbox, missed, batch, contains, gone>>
        /\ Listening(w) /\ Listening(w)' /\ connection[w] # "absent" /\ connection'[w] # "absent"
        /\ \A r \in World \ {w} : connection'[r] = connection[r]
    BY <1>0, <1>6 DEF SpinningEnds, Listening, SyncTypeOK
  <2>2. Waiting(w)' = Waiting(w)
    BY <2>1 DEF Waiting, Buffered, Members
  <2>3. Idles(w)
    BY <2>1, <2>2 DEF Idles, HistoryOf
  <2> QED
    BY <2>1, <2>3, TheOthersIdle
<1>7. ASSUME Subscribe(w) PROVE \A r \in World : Idles(r)
  <2>1. /\ UNCHANGED <<model, inbox, missed, batch, contains>>
        /\ Listening(w)' /\ connection[w] # "absent" /\ connection'[w] # "absent"
        /\ gone'[w] = gone[w] \union ({q \in Published : q[1] # w} \ contains[w])
        /\ \A r \in World \ {w} : connection'[r] = connection[r] /\ gone'[r] = gone[r]
    BY <1>0, <1>7 DEF Subscribe, Lose, Listening, SyncTypeOK
  <2>2. Waiting(w)' = Waiting(w)
    BY <2>1 DEF Waiting, Buffered, Members
  <2>3. Idles(w)
    BY <2>1, <2>2 DEF Idles, HistoryOf
  <2> QED
    BY <2>1, <2>3, TheOthersIdle
<1> QED
  BY <1>1, <1>2, <1>3, <1>4, <1>5, <1>6, <1>7

\* What was published stays where it is.
LEMMA MessagesStay ==
  ASSUME SyncTypeOK, [SyncNext]_syncVars
  PROVE  Published \subseteq Published' /\ \A q \in Published : MessageAt(q)' = MessageAt(q)
<1>1. stream \in [World -> Seq(Message)]
  BY DEF SyncTypeOK
<1>2. \/ stream' = stream
      \/ \E w \in World : \E m \in Message : stream' = [stream EXCEPT ![w] = Append(@, m)]
  BY ZenonT(60) DEF SyncNext, syncVars, ChangeWorld, Publish, SubscriptionCallback, FetchWorld,
         SpinningEnds, Subscribe, ApplyNext, TakeLeading
<1>3. CASE stream' = stream
  BY <1>3 DEF MessageAt, Published
<1>4. ASSUME NEW w \in World, NEW m \in Message, stream' = [stream EXCEPT ![w] = Append(@, m)],
             NEW q \in Published
      PROVE  q \in Published' /\ stream'[q[1]][q[2]] = stream[q[1]][q[2]]
  <2>1. q \in Position /\ q[1] \in World /\ q[2] \in 1..Len(stream[q[1]]) /\ q = <<q[1], q[2]>>
    BY PublishedPositions DEF Position
  <2>2. q[2] \in 1..Len(stream'[q[1]]) /\ stream'[q[1]][q[2]] = stream[q[1]][q[2]]
    <3>1. CASE q[1] # w
      BY <1>1, <1>4, <2>1, <3>1
    <3>2. CASE q[1] = w
      <4>1. stream'[q[1]] = Append(stream[q[1]], m) /\ stream[q[1]] \in Seq(Message)
        BY <1>1, <1>4, <2>1, <3>2
      <4> QED
        BY <1>1, <2>1, <4>1
    <3> QED
      BY <3>1, <3>2
  <2>3. q \in {q[1]} \X (1..Len(stream'[q[1]]))
    BY <2>1, <2>2
  <2> QED
    BY <2>1, <2>2, <2>3 DEF Published
<1> QED
  BY <1>2, <1>3, <1>4 DEF MessageAt

\* What a world does that publishes a message.
Publishes(w, m, x) ==
  /\ x[1] = w /\ x[2] = Len(stream[w]) + 1 /\ x \notin Published /\ x \in Position
  /\ Published' = Published \union {x} /\ MessageAt(x)' = m
  /\ contains'[w] = contains[w] \union {x} /\ model'[w] = After(m, model[w])
  /\ Applicable(m, model[w]) /\ (m.kind = "add" => m.entity \notin Created)
  /\ Listening(w) /\ connection' = connection
  /\ {w} \X (1..Len(stream'[w])) = ({w} \X (1..Len(stream[w]))) \union {x}
  /\ Waiting(w)' \subseteq Waiting(w)
  /\ \A r \in World \ {w} :
       /\ contains'[r] = contains[r] /\ model'[r] = model[r] /\ stream'[r] = stream[r]
       /\ Waiting(r)' \subseteq Waiting(r) \union {x}
  /\ \A r \in World : gone[r] \subseteq gone'[r] /\ gone'[r] \subseteq Published

LEMMA ChangeWorld_Effect ==
  ASSUME SyncInv, \A r \in World : HistoryOf(r), NEW w \in World, NEW m \in Message,
         ChangeWorld(w, m)
  PROVE  \E x : Publishes(w, m, x)
<1> PICK n : n = Len(stream[w]) + 1
  OBVIOUS
<1> PICK x : x = <<w, n>>
  OBVIOUS
<1>0. SyncTypeOK /\ \A r \in World : PositionsOf(r)
  BY DEF SyncInv, Ordered, PositionsPublished
<1>1. /\ n \in Nat \ {0} /\ stream[w] \in Seq(Message) /\ Len(stream[w]) \in Nat
      /\ stream'[w] = Append(stream[w], m) /\ Len(stream'[w]) = n /\ stream'[w][n] = m
      /\ \A r \in World \ {w} : stream'[r] = stream[r]
  BY <1>0 DEF SyncTypeOK, ChangeWorld, Publish
<1>2. x \in Position /\ x \notin Published /\ MessageAt(x)' = m
  <2>1. x \in Position /\ MessageAt(x)' = m
    BY <1>1 DEF Position, MessageAt
  <2>2. n \notin 1..Len(stream[w])
    BY <1>1
  <2> QED
    BY <1>0, <2>1, <2>2, PublishedPositions
<1>3. {w} \X (1..Len(stream'[w])) = ({w} \X (1..Len(stream[w]))) \union {x}
  <2>1. 1..Len(stream'[w]) = (1..Len(stream[w])) \union {n}
    BY <1>1
  <2> QED
    BY <2>1
<1>4. Published' = Published \union {x}
  <2>1. Published' = UNION {{p} \X (1..Len(stream'[p])) : p \in World}
    BY DEF Published
  <2>2. \A p \in World \ {w} : {p} \X (1..Len(stream'[p])) = {p} \X (1..Len(stream[p]))
    BY <1>1
  <2>3. Published' \subseteq Published \union {x}
    BY <1>3, <2>1, <2>2 DEF Published
  <2>4. Published \union {x} \subseteq Published'
    BY <1>3, <2>1, <2>2 DEF Published
  <2> QED
    BY <2>3, <2>4
<1>5. /\ contains'[w] = contains[w] \union {x} /\ model'[w] = After(m, model[w])
      /\ Applicable(m, model[w]) /\ (m.kind = "add" => m.entity \notin Created)
      /\ Listening(w) /\ connection' = connection
      /\ \A r \in World \ {w} : contains'[r] = contains[r] /\ model'[r] = model[r]
  BY <1>0 DEF ChangeWorld, Publish, SyncTypeOK
<1>6. /\ \A r \in World : Buffered(r)' = Buffered(r)
      /\ \A r \in World : \A p \in World \ {w} : inbox'[r][p] = inbox[r][p]
  BY <1>0 DEF ChangeWorld, Publish, SyncTypeOK, Buffered
<1>7. ASSUME NEW r \in World
      PROVE  Members(inbox'[r][w]) \subseteq Members(inbox[r][w]) \union {n}
  <2> DEFINE q == inbox[r][w]
  <2>1. inbox'[r][w] = q \/ inbox'[r][w] = Enqueue(q, n)
    BY <1>0 DEF ChangeWorld, Publish, SyncTypeOK
  <2>2. q \in Seq(Nat \ {0}) /\ Len(q) <= QueueDepth /\ \A k \in DOMAIN q : q[k] \in 1..Len(stream[w])
    BY <1>0 DEF SyncTypeOK, PositionsOf
  <2>3. \A k \in DOMAIN q : q[k] < n
    BY <1>1, <2>2
  <2> HIDE DEF q
  <2>4. \A k \in DOMAIN Enqueue(q, n) :
          Enqueue(q, n)[k] = n \/ (\E l \in DOMAIN q : Enqueue(q, n)[k] = q[l])
    BY <1>1, <2>2, <2>3, Enqueued, Zenon
  <2>5. Members(Enqueue(q, n)) \subseteq Members(q) \union {n}
    BY <2>4 DEF Members
  <2> QED
    BY <2>1, <2>5 DEF q
<1>8. ASSUME NEW r \in World
      PROVE  /\ Waiting(r)' \subseteq Waiting(r) \union {x}
             /\ r = w => Waiting(r)' \subseteq Waiting(r)
  <2>1. Waiting(r)' = Members(Buffered(r)) \union UNION {{p} \X Members(inbox'[r][p]) : p \in World \ {r}}
    BY <1>6 DEF Waiting, Members
  <2>2. \A p \in World \ {r} : {p} \X Members(inbox'[r][p]) \subseteq Waiting(r) \union {x}
    BY <1>6, <1>7 DEF Waiting
  <2>3. r = w => \A p \in World \ {r} : {p} \X Members(inbox'[r][p]) \subseteq Waiting(r)
    BY <1>6 DEF Waiting
  <2> QED
    BY <2>1, <2>2, <2>3 DEF Waiting
<1>9. ASSUME NEW r \in World
      PROVE  gone[r] \subseteq gone'[r] /\ gone'[r] \subseteq Published
  <2>1. CASE Listening(r) /\ r # w /\ Len(inbox[r][w]) = QueueDepth
    <3>1. gone'[r] = gone[r] \union {<<w, Head(inbox[r][w])>>}
      BY <1>0, <2>1 DEF ChangeWorld, Publish, SyncTypeOK
    <3>2. inbox[r][w] \in Seq(Nat \ {0}) /\ Len(inbox[r][w]) >= 1
      BY <1>0, <2>1, SynchronizationAssumption DEF SyncTypeOK
    <3>3. Head(inbox[r][w]) = inbox[r][w][1] /\ 1 \in DOMAIN inbox[r][w]
      BY <3>2
    <3>4. Head(inbox[r][w]) \in 1..Len(stream[w])
      BY <1>0, <3>3 DEF PositionsOf
    <3>5. <<w, Head(inbox[r][w])>> \in Published
      BY <1>0, <3>4, PublishedPositions
    <3> QED
      BY <3>1, <3>5 DEF HistoryOf
  <2>2. CASE ~ (Listening(r) /\ r # w /\ Len(inbox[r][w]) = QueueDepth)
    <3>1. gone'[r] = gone[r]
      BY <1>0, <2>2 DEF ChangeWorld, Publish, SyncTypeOK
    <3> QED
      BY <3>1 DEF HistoryOf
  <2> QED
    BY <2>1, <2>2
<1>10. x[1] = w /\ x[2] = n
  OBVIOUS
<1>11. Publishes(w, m, x)
  BY <1>1, <1>2, <1>3, <1>4, <1>5, <1>8, <1>9, <1>10 DEF Publishes
<1> QED
  BY <1>11

LEMMA OneMoreMessage ==
  \A positions, q, kind :
    EntitiesOf(kind, positions \union {q})
      = EntitiesOf(kind, positions) \union (IF MessageAt(q).kind = kind THEN {MessageAt(q).entity} ELSE {})
BY DEF EntitiesOf

LEMMA Init_WorldInv == SyncInit => WorldInv
<1> SUFFICES ASSUME SyncInit PROVE WorldInv
  OBVIOUS
<1>1. SyncInv /\ SyncTypeOK
  BY Init_SyncInv DEF SyncInv, Ordered
<1>2. \A w \in World : stream[w] = <<>> /\ contains[w] = {} /\ gone[w] = {} /\ Buffered(w) = <<>>
                       /\ \A p \in World : inbox[w][p] = <<>>
  BY DEF SyncInit, Buffered
<1>3. Published = {} /\ \A w \in World : Waiting(w) = {} /\ {w} \X (1..Len(stream[w])) = {}
  BY <1>2 DEF Published, Waiting, Members
<1>4. Histories
  BY <1>2, <1>3 DEF Histories, AddedOnce, ReferencesAddedFirst, HistoryOf
<1>5. \A kind : EntitiesOf(kind, {}) = {}
  BY DEF EntitiesOf
<1>6. \A w \in World : model[w] \in {{}, Initially} /\ (connection[w] # "absent" => model[w] = Initially)
  BY DEF SyncInit
<1>7. \A w \in World : Met(w) = Initially /\ Accounted(w) = model[w]
  BY <1>2, <1>3, <1>5 DEF Met, Named, Accounted
<1>8. \A w \in World : model[w] \subseteq Created
  BY <1>6 DEF Created
<1>9. \A w \in World : connection[w] # "absent" => Met(w) \subseteq Accounted(w) /\ Made(w)
  BY <1>2, <1>5, <1>6, <1>7 DEF Made
<1> QED
  BY <1>1, <1>4, <1>8, <1>9 DEF WorldInv, ModelOf

\* A stream grows by entities that were not there, on top of some that were.
LEMMA Next_Histories ==
  ASSUME SyncInv, Histories, \A w \in World : ModelOf(w), SyncNext
  PROVE  Histories'
<1>0. /\ SyncTypeOK /\ [SyncNext]_syncVars /\ AddedOnce /\ ReferencesAddedFirst
      /\ \A w \in World : PositionsOf(w) /\ HistoryOf(w) /\ ModelOf(w)
  BY DEF SyncInv, Ordered, PositionsPublished, Histories
<1>1. ASSUME stream' = stream, NEW r \in World,
             Idles(r) \/ (\E q \in Position : Applies(r, q)) \/ \E p \in World : Fetches(r, p)
      PROVE  HistoryOf(r)'
  <2>1. Published' = Published /\ HistoryOf(r)
    BY <1>0, <1>1 DEF Published
  <2>2. CASE Idles(r)
    BY <1>1, <2>1, <2>2 DEF Idles, HistoryOf
  <2>3. ASSUME NEW q \in Position, Applies(r, q) PROVE HistoryOf(r)'
    BY <1>1, <2>1, <2>3 DEF Applies, HistoryOf
  <2>4. ASSUME NEW p \in World, Fetches(r, p) PROVE HistoryOf(r)'
    <3>1. HistoryOf(p) /\ stream[r] = <<>> /\ 1..Len(stream[r]) = {}
      BY <1>0, <2>1, <2>4 DEF Fetches, HistoryOf
    <3> QED
      BY <1>1, <2>1, <2>4, <3>1 DEF Fetches, HistoryOf
  <2> QED
    BY <1>1, <2>2, <2>3, <2>4
<1>2. ASSUME stream' = stream PROVE AddedOnce' /\ ReferencesAddedFirst'
  <2>1. Published' = Published /\ \A q : MessageAt(q)' = MessageAt(q)
    BY <1>2 DEF Published, MessageAt
  <2>2. AddedOnce'
    BY <1>0, <2>1 DEF AddedOnce
  <2>3. ReferencesAddedFirst'
    BY <1>0, <2>1 DEF ReferencesAddedFirst
  <2> QED
    BY <2>2, <2>3
<1>3. ASSUME NEW w \in World, NEW m \in Message, NEW x, Publishes(w, m, x)
      PROVE  Histories'
  <2>1. \A q \in Published : MessageAt(q)' = MessageAt(q)
    BY <1>0, MessagesStay
  <2>2. ASSUME NEW r \in World PROVE HistoryOf(r)'
    <3>1. HistoryOf(r) /\ (Listening(r) => Listening(r)')
      BY <1>0, <1>3 DEF Publishes, Listening
    <3>2. Waiting(r) \subseteq Published /\ contains[r] \subseteq Published
      BY <3>1 DEF HistoryOf
    <3>3. CASE r = w
      <4>1. x \notin Waiting(w)
        BY <1>3, <3>2, <3>3 DEF Publishes
      <4> QED
        BY <1>3, <3>1, <3>2, <3>3, <4>1 DEF Publishes, HistoryOf
    <3>4. CASE r # w
      <4>1. /\ contains'[r] = contains[r] /\ stream'[r] = stream[r] /\ x \notin contains[r]
            /\ Waiting(r)' \subseteq Waiting(r) \union {x} /\ gone'[r] \subseteq Published
            /\ Published' = Published \union {x}
        BY <1>3, <3>2, <3>4 DEF Publishes
      <4> QED
        BY <3>1, <3>2, <4>1 DEF HistoryOf
    <3> QED
      BY <3>3, <3>4
  <2>3. m.kind = "add" => m.entity \notin Initially /\ \A q \in Published :
          ~ (MessageAt(q).kind = "add" /\ MessageAt(q).entity = m.entity)
    BY <1>3 DEF Publishes, Created, EntitiesOf
  <2>4. AddedOnce'
    <3> SUFFICES ASSUME NEW q \in Published', MessageAt(q)'.kind = "add"
                 PROVE  /\ MessageAt(q)'.entity \notin Initially
                        /\ \A r \in Published' :
                             MessageAt(r)'.kind = "add" /\ MessageAt(r)'.entity = MessageAt(q)'.entity
                               => r = q
      BY DEF AddedOnce
    <3>1. Published' = Published \union {x} /\ MessageAt(x)' = m
      BY <1>3 DEF Publishes
    <3>2. CASE q = x
      BY <2>1, <2>3, <3>1, <3>2
    <3>3. CASE q \in Published
      BY <1>0, <2>1, <2>3, <3>1, <3>3 DEF AddedOnce
    <3> QED
      BY <3>1, <3>2, <3>3
  <2>5. ReferencesAddedFirst'
    <3> SUFFICES ASSUME NEW q \in Published',
                        NEW e \in References(MessageAt(q)') \ (Initially \union {Root})
                 PROVE  \E r \in Published' :
                          /\ MessageAt(r)'.kind = "add" /\ MessageAt(r)'.entity = e
                          /\ r[1] = q[1] => r[2] < q[2]
      BY DEF ReferencesAddedFirst, References
    <3>1. Published' = Published \union {x} /\ MessageAt(x)' = m
      BY <1>3 DEF Publishes
    <3>2. CASE q = x
      <4>1. e \in model[w]
        <5>1. Applicable(m, model[w]) /\ model[w] \in SUBSET Entity
          BY <1>0, <1>3 DEF Publishes, SyncTypeOK
        <5>2. References(m) \subseteq model[w] \union {Root}
          BY <5>1, ReferencesAreThere
        <5> QED
          BY <3>1, <3>2, <5>2
      <4>2. e \in EntitiesOf("add", Published)
        BY <1>0, <4>1 DEF ModelOf, Created
      <4>3. PICK r \in Published : MessageAt(r).kind = "add" /\ MessageAt(r).entity = e
        BY <4>2 DEF EntitiesOf
      <4>4. r[1] = q[1] => r[2] < q[2]
        <5>1. r[1] \in World /\ r[2] \in 1..Len(stream[r[1]]) /\ Len(stream[w]) \in Nat
          BY <1>0, PublishedPositions DEF SyncTypeOK
        <5>2. q[1] = w /\ q[2] = Len(stream[w]) + 1
          BY <1>3, <3>2 DEF Publishes
        <5> QED
          BY <5>1, <5>2
      <4> QED
        BY <2>1, <3>1, <4>3, <4>4
    <3>3. CASE q \in Published
      <4>1. MessageAt(q)' = MessageAt(q) /\ e \in References(MessageAt(q)) \ (Initially \union {Root})
        BY <2>1, <3>3
      <4>2. PICK r \in Published : /\ MessageAt(r).kind = "add" /\ MessageAt(r).entity = e
                                   /\ r[1] = q[1] => r[2] < q[2]
        BY <1>0, <3>3, <4>1 DEF ReferencesAddedFirst
      <4> QED
        BY <2>1, <3>1, <4>2
    <3> QED
      BY <3>1, <3>2, <3>3
  <2> QED
    BY <2>2, <2>4, <2>5 DEF Histories
<1>4. CASE \E w \in World : \E m \in Message : ChangeWorld(w, m)
  BY <1>0, <1>3, <1>4, ChangeWorld_Effect
<1> QED
  BY <1>0, <1>1, <1>2, <1>4, StepsOfWorlds DEF Histories

\* What is lost stays lost.
LEMMA LostStays ==
  ASSUME SyncTypeOK, [SyncNext]_syncVars, NEW r \in World, gone[r] \subseteq gone'[r],
         gone[r] \subseteq Published
  PROVE  {MessageAt(q).entity : q \in gone[r]} \subseteq {MessageAt(q)'.entity : q \in gone'[r]}
BY MessagesStay

\* An idle world keeps account of what it has met.
LEMMA Idles_ModelOf ==
  ASSUME SyncTypeOK, [SyncNext]_syncVars, stream' = stream, NEW r \in World, HistoryOf(r),
         ModelOf(r), Idles(r)
  PROVE  ModelOf(r)'
<1>1. /\ model'[r] = model[r] /\ contains'[r] = contains[r] /\ contains[r] \subseteq Published
      /\ gone[r] \subseteq gone'[r] /\ gone[r] \subseteq Published
      /\ connection'[r] = "absent" <=> connection[r] = "absent"
  BY DEF Idles, HistoryOf
<1>2. \A kind : EntitiesOf(kind, contains[r])' = EntitiesOf(kind, contains[r])
  <2>1. \A q \in contains[r] : MessageAt(q)' = MessageAt(q)
    BY <1>1, MessagesStay
  <2> QED
    BY <1>1, <2>1 DEF EntitiesOf
<1>3. Created' = Created /\ Met(r)' = Met(r)
  <2>1. \A q : MessageAt(q)' = MessageAt(q)
    BY DEF MessageAt
  <2>2. Named(r)' = Named(r)
    BY <2>1 DEF Named, References
  <2>3. \A kind : EntitiesOf(kind, Published)' = EntitiesOf(kind, Published)
    BY <2>1 DEF EntitiesOf, Published
  <2> QED
    BY <1>2, <2>2, <2>3 DEF Met, Created
<1>4. Accounted(r) \subseteq Accounted(r)'
  BY <1>1, <1>2, LostStays DEF Accounted
<1>5. gone'[r] = {} => gone[r] = {}
  BY <1>1
<1>6. connection'[r] # "absent" /\ gone'[r] = {} => Made(r)'
  BY <1>1, <1>2, <1>5 DEF ModelOf, Made
<1> QED
  BY <1>1, <1>3, <1>4, <1>6 DEF ModelOf

\* A world that is copied is accounted for as its source is.
LEMMA Fetches_ModelOf ==
  ASSUME SyncTypeOK, [SyncNext]_syncVars, stream' = stream, NEW r \in World, HistoryOf(r),
         NEW p \in World, HistoryOf(p), ModelOf(p), Fetches(r, p)
  PROVE  ModelOf(r)'
<1>1. /\ model'[r] = model[p] /\ contains'[r] = contains[p] /\ contains[p] \subseteq Published
      /\ gone'[r] = gone[p] /\ gone[p] \subseteq Published
      /\ connection[p] # "absent" /\ stream[r] = <<>>
  BY DEF Fetches, HistoryOf, Listening
<1>2. \A q : MessageAt(q)' = MessageAt(q)
  BY DEF MessageAt
<1>3. \A kind : EntitiesOf(kind, contains[r])' = EntitiesOf(kind, contains[p])
  BY <1>1, <1>2 DEF EntitiesOf
<1>4. Created' = Created
  BY <1>2 DEF Created, EntitiesOf, Published
<1>5. Met(r)' \subseteq Met(p)
  <2>1. Named(r)' = {}
    BY <1>1 DEF Named
  <2> QED
    BY <1>3, <2>1 DEF Met
<1>6. Accounted(r)' = Accounted(p)
  BY <1>1, <1>2, <1>3 DEF Accounted
<1>7. gone'[r] = {} => Made(r)'
  BY <1>1, <1>3 DEF ModelOf, Made
<1> QED
  BY <1>1, <1>4, <1>5, <1>6, <1>7 DEF ModelOf

\* An entity is in a world, or a message it could not apply, or one that removes the
\* entity, is accounted for.
LEMMA Applies_ModelOf ==
  ASSUME SyncTypeOK, [SyncNext]_syncVars, stream' = stream, AddedOnce, NEW r \in World,
         HistoryOf(r), ModelOf(r), NEW q, Applies(r, q)
  PROVE  ModelOf(r)'
<1> DEFINE m == MessageAt(q)
<1>1. /\ q \in Published /\ q \notin contains[r] /\ contains[r] \subseteq Published
      /\ gone[r] \subseteq gone'[r] /\ gone[r] \subseteq Published /\ gone'[r] \subseteq Published
      /\ model'[r] = After(m, model[r]) /\ connection[r] # "absent" /\ m \in Message
      /\ m.kind \in {"add", "remove", "state"}
  <2>1. q \in Published
    BY DEF HistoryOf, Applies
  <2>2. m \in Message
    BY <2>1, PublishedPositions
  <2> QED
    BY <2>1, <2>2 DEF HistoryOf, Applies, Listening, Message
<1>2. \A x : MessageAt(x)' = MessageAt(x)
  BY DEF MessageAt
<1>3. /\ Created' = Created
      /\ Named(r)' = Named(r)
      /\ \A kind : contains'[r] = contains[r] => EntitiesOf(kind, contains[r])' = EntitiesOf(kind, contains[r])
      /\ \A kind : contains'[r] = contains[r] \union {q} =>
            EntitiesOf(kind, contains[r])'
              = EntitiesOf(kind, contains[r]) \union (IF m.kind = kind THEN {m.entity} ELSE {})
      /\ {MessageAt(x)'.entity : x \in gone'[r]} = {MessageAt(x).entity : x \in gone'[r]}
  <2>1. Created' = Created
    BY <1>2 DEF Created, EntitiesOf, Published
  <2>2. Named(r)' = Named(r)
    BY <1>2 DEF Named, References
  <2>3. ASSUME NEW kind PROVE EntitiesOf(kind, contains[r])' = EntitiesOf(kind, contains'[r])
    BY <1>2 DEF EntitiesOf
  <2>4. ASSUME NEW kind, contains'[r] = contains[r] \union {q}
        PROVE  EntitiesOf(kind, contains[r])'
                 = EntitiesOf(kind, contains[r]) \union (IF m.kind = kind THEN {m.entity} ELSE {})
    BY <2>3, <2>4, OneMoreMessage
  <2> QED
    BY <1>2, <2>1, <2>2, <2>3, <2>4
<1>4. /\ m.kind = "add" => model'[r] = model[r] \union {m.entity}
      /\ m.kind = "remove" => model'[r] \in {model[r], model[r] \ {m.entity}}
      /\ m.kind = "remove" /\ Applicable(m, model[r]) => model'[r] = model[r] \ {m.entity}
      /\ m.kind = "state" => model'[r] = model[r]
  <2>1. model[r] \in SUBSET Entity
    BY DEF SyncTypeOK
  <2> QED
    BY <1>1, <2>1, Effects
<1>5. model'[r] \subseteq Created
  <2>1. m.kind = "add" => m.entity \in Created
    BY <1>1 DEF Created, EntitiesOf
  <2> QED
    BY <1>1, <1>4, <2>1 DEF ModelOf
<1> DEFINE adds == EntitiesOf("add", contains[r])
           removes == EntitiesOf("remove", contains[r])
           lost == {MessageAt(x).entity : x \in gone[r]}
<1>6. Met(r) \subseteq model[r] \union removes \union lost
  BY <1>1 DEF ModelOf, Accounted
<1>7. lost \subseteq {MessageAt(x).entity : x \in gone'[r]}
  BY <1>1
<1>8. CASE contains'[r] = contains[r] \union {q} /\ gone'[r] = gone[r] /\ Applicable(m, model[r])
  <2>1. /\ EntitiesOf("add", contains[r])' = adds \union (IF m.kind = "add" THEN {m.entity} ELSE {})
        /\ EntitiesOf("remove", contains[r])' = removes \union (IF m.kind = "remove" THEN {m.entity} ELSE {})
    BY <1>3, <1>8
  <2>2. Met(r)' \subseteq Met(r) \union (IF m.kind = "add" THEN {m.entity} ELSE {})
    BY <1>3, <2>1 DEF Met
  <2>3. Accounted(r)' = model'[r] \union (removes \union (IF m.kind = "remove" THEN {m.entity} ELSE {})) \union lost
    BY <1>3, <1>8, <2>1 DEF Accounted
  <2>4. Met(r)' \subseteq Accounted(r)'
    BY <1>1, <1>4, <1>6, <1>8, <2>2, <2>3
  <2>5. ASSUME gone'[r] = {} PROVE Made(r)'
    <3>1. /\ removes \subseteq Initially \union adds
          /\ model[r] = (Initially \union adds) \ removes
      BY <1>1, <1>8, <2>5 DEF ModelOf, Made
    <3>2. m.kind = "add" => m.entity \notin Initially \union adds
      <4>1. ASSUME m.kind = "add", m.entity \in adds PROVE FALSE
        <5>1. PICK x \in contains[r] : MessageAt(x).kind = "add" /\ MessageAt(x).entity = m.entity
          BY <4>1 DEF EntitiesOf
        <5> QED
          BY <1>1, <4>1, <5>1 DEF AddedOnce
      <4> QED
        BY <1>1, <4>1 DEF AddedOnce
    <3>3. m.kind = "remove" => m.entity \in model[r]
      BY <1>8 DEF Applicable
    <3> HIDE DEF m, adds, removes
    <3>4. CASE m.kind = "add"
      BY <1>4, <2>1, <3>1, <3>2, <3>4 DEF Made
    <3>5. CASE m.kind = "remove"
      BY <1>4, <1>8, <2>1, <3>1, <3>3, <3>5 DEF Made
    <3>6. CASE m.kind = "state"
      BY <1>4, <2>1, <3>1, <3>6 DEF Made
    <3> QED
      BY <1>1, <3>4, <3>5, <3>6
  <2> QED
    BY <1>3, <1>5, <2>4, <2>5 DEF ModelOf
<1>9. CASE contains'[r] = contains[r] /\ gone[r] \union {q} \subseteq gone'[r]
  <2>1. EntitiesOf("add", contains[r])' = adds /\ EntitiesOf("remove", contains[r])' = removes
    BY <1>3, <1>9
  <2>2. Met(r)' = Met(r)
    BY <1>3, <2>1 DEF Met
  <2>3. Accounted(r)' = model'[r] \union removes \union {MessageAt(x).entity : x \in gone'[r]}
    BY <1>3, <2>1 DEF Accounted
  <2>4. m.entity \in {MessageAt(x).entity : x \in gone'[r]}
    BY <1>9
  <2>5. Met(r)' \subseteq Accounted(r)'
    BY <1>1, <1>4, <1>6, <1>7, <2>2, <2>3, <2>4
  <2>6. gone'[r] # {}
    BY <1>9
  <2> QED
    BY <1>3, <1>5, <2>5, <2>6 DEF ModelOf
<1> QED
  BY <1>8, <1>9 DEF Applies

\* A world that publishes contains what it published, and what that builds on.
LEMMA Publishes_ModelOf ==
  ASSUME SyncTypeOK, [SyncNext]_syncVars, NEW r \in World, HistoryOf(r), ModelOf(r),
         NEW w \in World, NEW m \in Message, NEW x, Publishes(w, m, x)
  PROVE  ModelOf(r)'
<1>1. /\ contains[r] \subseteq Published /\ gone[r] \subseteq Published
      /\ gone[r] \subseteq gone'[r] /\ connection' = connection
      /\ Published' = Published \union {x} /\ MessageAt(x)' = m
      /\ m.kind \in {"add", "remove", "state"} /\ m.entity \in Entity
  BY DEF HistoryOf, Publishes, Message
<1> DEFINE Also(kind) == IF m.kind = kind THEN {m.entity} ELSE {}
<1>0. \A q \in Published : MessageAt(q)' = MessageAt(q)
  BY MessagesStay
<1>2. Created' = Created \union Also("add")
  BY <1>0, <1>1 DEF Created, EntitiesOf
<1>3. {MessageAt(q).entity : q \in gone[r]} \subseteq {MessageAt(q)'.entity : q \in gone'[r]}
  BY <1>1, LostStays
<1>4. CASE r # w
  <2>1. contains'[r] = contains[r] /\ model'[r] = model[r] /\ stream'[r] = stream[r]
    BY <1>4 DEF Publishes
  <2>2. {r} \X (1..Len(stream[r])) \subseteq Published
    BY DEF Published
  <2>3. \A kind : EntitiesOf(kind, contains[r])' = EntitiesOf(kind, contains[r])
    BY <1>0, <1>1, <2>1 DEF EntitiesOf
  <2>4. Named(r)' = Named(r)
    <3>1. \A q \in {r} \X (1..Len(stream[r])) : MessageAt(q)' = MessageAt(q)
      BY <1>0, <2>2
    <3> QED
      BY <2>1, <3>1 DEF Named, References
  <2>5. Met(r)' = Met(r) /\ Accounted(r) \subseteq Accounted(r)'
    BY <1>3, <2>1, <2>3, <2>4 DEF Met, Accounted
  <2>6. gone'[r] = {} => gone[r] = {}
    BY <1>1
  <2>7. connection'[r] # "absent" /\ gone'[r] = {} => Made(r)'
    BY <1>1, <2>1, <2>3, <2>6 DEF ModelOf, Made
  <2> QED
    BY <1>1, <1>2, <2>1, <2>5, <2>7 DEF ModelOf
<1>5. CASE r = w
  <2>1. /\ contains'[r] = contains[r] \union {x} /\ model'[r] = After(m, model[r])
        /\ Applicable(m, model[r]) /\ (m.kind = "add" => m.entity \notin Created)
        /\ connection[r] # "absent"
        /\ {r} \X (1..Len(stream'[r])) = ({r} \X (1..Len(stream[r]))) \union {x}
    BY <1>5 DEF Publishes, Listening
  <2>2. {r} \X (1..Len(stream[r])) \subseteq Published
    BY DEF Published
  <2>3. \A kind : EntitiesOf(kind, contains[r])' = EntitiesOf(kind, contains[r]) \union Also(kind)
    BY <1>0, <1>1, <2>1 DEF EntitiesOf
  <2>4. Named(r)' = Named(r) \union (References(m) \ {Root})
    <3>1. \A q \in {r} \X (1..Len(stream[r])) : MessageAt(q)' = MessageAt(q)
      BY <1>0, <2>2
    <3>2. Named(r)' = (UNION {References(MessageAt(q)') : q \in {r} \X (1..Len(stream'[r]))}) \ {Root}
      BY DEF Named, References
    <3> QED
      BY <1>1, <2>1, <3>1, <3>2 DEF Named
  <2>12. model[r] \in SUBSET Entity
    BY DEF SyncTypeOK
  <2>5. /\ m.kind = "add" => model'[r] = model[r] \union {m.entity}
        /\ m.kind = "remove" => model'[r] = model[r] \ {m.entity}
        /\ m.kind = "state" => model'[r] = model[r]
    BY <2>1, <2>12, Effects
  <2>6. References(m) \subseteq model[r] \union {Root}
    BY <2>1, <2>12, ReferencesAreThere
  <2>7. Accounted(r)' = model'[r] \union (EntitiesOf("remove", contains[r]) \union Also("remove"))
                          \union {MessageAt(q)'.entity : q \in gone'[r]}
    BY <2>3 DEF Accounted
  <2>8. Accounted(r) \union Also("add") \subseteq Accounted(r)'
    BY <1>1, <1>3, <2>5, <2>7 DEF Accounted
  <2>9. Met(r)' \subseteq Accounted(r)'
    <3>1. Met(r) \subseteq Accounted(r)
      BY <2>1 DEF ModelOf
    <3>2. References(m) \ {Root} \subseteq Accounted(r)
      BY <2>6 DEF Accounted
    <3>3. Met(r)' = Met(r) \union Also("add") \union (References(m) \ {Root})
      BY <2>3, <2>4 DEF Met
    <3> QED
      BY <2>8, <3>1, <3>2, <3>3
  <2>10. ASSUME gone'[r] = {} PROVE Made(r)'
    <3> DEFINE adds == EntitiesOf("add", contains[r])
               removes == EntitiesOf("remove", contains[r])
    <3>1. /\ removes \subseteq Initially \union adds
          /\ model[r] = (Initially \union adds) \ removes
      BY <1>1, <2>1, <2>10 DEF ModelOf, Made
    <3>2. Initially \union adds \subseteq Created
      BY <1>1 DEF Created, EntitiesOf
    <3>3. m.kind = "remove" => m.entity \in model[r]
      BY <2>1 DEF Applicable
    <3>4. /\ EntitiesOf("add", contains[r])' = adds \union Also("add")
          /\ EntitiesOf("remove", contains[r])' = removes \union Also("remove")
      BY <2>3
    <3> HIDE DEF adds, removes
    <3>5. CASE m.kind = "add"
      <4>1. m.entity \notin removes
        BY <2>1, <3>1, <3>2, <3>5
      <4>2. EntitiesOf("add", contains[r])' = adds \union {m.entity} /\ EntitiesOf("remove", contains[r])' = removes
        BY <3>4, <3>5
      <4> QED
        BY <2>5, <3>1, <3>5, <4>1, <4>2 DEF Made
    <3>6. CASE m.kind = "remove"
      BY <2>5, <3>1, <3>3, <3>4, <3>6 DEF Made
    <3>7. CASE m.kind = "state"
      BY <2>5, <3>1, <3>4, <3>7 DEF Made
    <3> QED
      BY <1>1, <3>5, <3>6, <3>7
  <2>11. model'[r] \subseteq Created'
    BY <1>1, <1>2, <2>5 DEF ModelOf
  <2> QED
    BY <2>9, <2>10, <2>11 DEF ModelOf
<1> QED
  BY <1>4, <1>5

LEMMA Next_WorldInv == WorldInv /\ [SyncNext]_syncVars => WorldInv'
<1> SUFFICES ASSUME WorldInv, [SyncNext]_syncVars PROVE WorldInv'
  OBVIOUS
<1>0. /\ SyncInv /\ SyncInv' /\ SyncTypeOK /\ Histories /\ AddedOnce
      /\ \A w \in World : HistoryOf(w) /\ ModelOf(w)
  BY Next_SyncInv DEF WorldInv, SyncInv, Ordered, Histories
<1>1. CASE SyncNext
  <2>1. Histories'
    BY <1>0, <1>1, Next_Histories
  <2>2. CASE \E w \in World : \E m \in Message : ChangeWorld(w, m)
    <3>1. PICK w \in World, m \in Message : \E x : Publishes(w, m, x)
      BY <1>0, <2>2, ChangeWorld_Effect
    <3> QED
      BY <1>0, <2>1, <3>1, Publishes_ModelOf DEF WorldInv
  <2>3. CASE /\ stream' = stream
             /\ \A r \in World : \/ Idles(r) \/ \E q \in Position : Applies(r, q)
                                 \/ \E p \in World : Fetches(r, p)
    <3>1. \A r \in World : ModelOf(r)'
      BY <1>0, <2>3, Idles_ModelOf, Applies_ModelOf, Fetches_ModelOf
    <3> QED
      BY <1>0, <2>1, <3>1 DEF WorldInv
  <2> QED
    BY <1>0, <1>1, <2>2, <2>3, StepsOfWorlds
<1>2. CASE UNCHANGED syncVars
  <2>1. /\ Published' = Published /\ Created' = Created /\ \A q : MessageAt(q)' = MessageAt(q)
        /\ \A w \in World : Waiting(w)' = Waiting(w) /\ Listening(w)' = Listening(w)
    BY <1>2 DEF syncVars, Published, Created, EntitiesOf, MessageAt, Waiting, Listening, Buffered, Members
  <2>2. Histories'
    <3>1. AddedOnce'
      BY <1>0, <2>1 DEF Histories, AddedOnce
    <3>2. ReferencesAddedFirst'
      BY <1>0, <2>1 DEF Histories, ReferencesAddedFirst
    <3>3. \A w \in World : HistoryOf(w)'
      BY <1>0, <1>2, <2>1 DEF syncVars, HistoryOf
    <3> QED
      BY <3>1, <3>2, <3>3 DEF Histories
  <2>3. \A w \in World : Idles(w)
    BY <1>0, <1>2, <2>1 DEF syncVars, Idles, HistoryOf
  <2>4. \A w \in World : ModelOf(w)'
    BY <1>0, <1>2, <2>3, Idles_ModelOf DEF syncVars
  <2> QED
    BY <1>0, <2>2, <2>4 DEF WorldInv
<1> QED
  BY <1>1, <1>2

\* Who lacks a body that it has met can name the message that is to blame.
LEMMA LacksForAReason ==
  ASSUME WorldInv, NEW w \in World, connection[w] # "absent", NEW b \in Met(w), b \notin model[w]
  PROVE  \/ \E q \in gone[w] : MessageAt(q).entity = b
         \/ \E q \in contains[w] : MessageAt(q).entity = b /\ MessageAt(q).kind = "remove"
<1>1. b \in EntitiesOf("remove", contains[w]) \union {MessageAt(q).entity : q \in gone[w]}
  BY DEF WorldInv, ModelOf, Accounted
<1> QED
  BY <1>1 DEF EntitiesOf

LEMMA Unreadable ==
  ASSUME WorldInv, NEW w \in World, NEW p \in World, inbox[w][p] # <<>>,
         NEW b \in References(MessageAt(<<p, Head(inbox[w][p])>>)), b \notin model[w] \union {Root}
  PROVE  \/ /\ p # w
            /\ \E q \in (UNION {{x} \X Members(inbox[w][x]) : x \in World \ {w, p}})
                           \union Members(Buffered(w)) : MessageAt(q).entity = b
         \/ \E q \in gone[w] : MessageAt(q).entity = b
         \/ \E q \in contains[w] : MessageAt(q).entity = b /\ MessageAt(q).kind = "remove"
<1> DEFINE n == Head(inbox[w][p])
           m == MessageAt(<<p, n>>)
<1>0. /\ SyncInv /\ SyncTypeOK /\ ReferencesAddedFirst /\ HistoryOf(w) /\ PositionsOf(w)
      /\ OrderOf(w) /\ KeepsAll(w)
  BY OrderByWorld, KeepsByWorld DEF WorldInv, Histories, SyncInv, Ordered, PositionsPublished
<1>1. Listening(w) /\ connection[w] # "absent"
  BY <1>0 DEF PositionsOf, Listening
<1>2. /\ inbox[w][p] \in Seq(Nat \ {0}) /\ n = inbox[w][p][1] /\ 1 \in DOMAIN inbox[w][p]
      /\ DOMAIN inbox[w][p] = 1..Len(inbox[w][p])
  <2>1. inbox[w][p] \in Seq(Nat \ {0})
    BY <1>0 DEF SyncTypeOK
  <2>2. Len(inbox[w][p]) >= 1
    BY <2>1, EmptySeq
  <2> QED
    BY <2>1, <2>2
<1>3. n \in 1..Len(stream[p]) /\ <<p, n>> \in Published /\ n \in Nat
  BY <1>0, <1>2, PublishedPositions DEF PositionsOf
<1>5. CASE b \in Met(w)
  BY <1>1, <1>5, LacksForAReason
<1>6. CASE p = w
  <2>1. <<p, n>> \in {w} \X (1..Len(stream[w]))
    BY <1>3, <1>6
  <2>2. b \in Met(w)
    BY <2>1 DEF Met, Named
  <2> QED
    BY <1>5, <2>2
<1>7. CASE p # w /\ b \notin Met(w)
  <2>1. b \notin Initially \union {Root} /\ b \notin EntitiesOf("add", contains[w])
    BY <1>7 DEF Met
  <2>2. PICK r \in Published : /\ MessageAt(r).kind = "add" /\ MessageAt(r).entity = b
                               /\ r[1] = p => r[2] < n
    BY <1>0, <1>3, <2>1 DEF ReferencesAddedFirst
  <2>3. /\ r[1] \in World /\ r[2] \in 1..Len(stream[r[1]]) /\ r = <<r[1], r[2]>>
        /\ r \notin contains[w]
    BY <1>0, <2>1, <2>2, PublishedPositions DEF EntitiesOf, Position
  <2>4. r[1] # w
    BY <1>0, <2>3 DEF HistoryOf
  <2>5. r[2] \in Members(inbox[w][r[1]]) \/ r \in Members(Buffered(w)) \union gone[w]
    BY <1>0, <1>1, <2>3, <2>4 DEF KeepsAll
  <2>6. CASE r \in Members(Buffered(w)) \union gone[w]
    BY <1>7, <2>2, <2>6
  <2>7. CASE r[2] \in Members(inbox[w][r[1]])
    <3>1. CASE r[1] = p
      <4>1. PICK k \in DOMAIN inbox[w][p] : r[2] = inbox[w][p][k]
        BY <2>7, <3>1 DEF Members
      <4>2. k = 1 \/ inbox[w][p][1] < inbox[w][p][k]
        BY <1>0, <1>2, <1>7 DEF OrderOf, InOrder
      <4> QED
        BY <1>2, <1>3, <2>2, <2>3, <3>1, <4>1, <4>2
    <3>2. CASE r[1] # p
      <4>1. r \in UNION {{x} \X Members(inbox[w][x]) : x \in World \ {w, p}}
        BY <2>3, <2>4, <2>7, <3>2
      <4> QED
        BY <1>7, <2>2, <4>1
    <3> QED
      BY <3>1, <3>2
  <2> QED
    BY <2>5, <2>6, <2>7
<1> QED
  BY <1>5, <1>6, <1>7
-----------------------------------------------------------------------------
\* Each variable keeps its type.
THEOREM SynchronizationTyped == SyncSpec => []SyncTypeOK
<1>1. SyncInv => SyncTypeOK
  BY DEF SyncInv, Ordered
<1> QED
  BY Init_SyncInv, Next_SyncInv, <1>1, PTL DEF SyncSpec

\* The messages of a publisher never overtake each other, whatever the depth of the
\* queues, whoever defers, and however often the buffer is drained
\* (_apply_leading_messages, _subscription_callback).
THEOREM MessagesKeepTheirOrder == SyncSpec => []AppliedInStreamOrder
<1>1. SyncInv => AppliedInStreamOrder
  BY DEF SyncInv, Ordered
<1> QED
  BY Init_SyncInv, Next_SyncInv, <1>1, PTL DEF SyncSpec

\* No message vanishes between the topic and the world: it waits, was applied, or was
\* lost where the code loses one.
THEOREM NoMessageVanishes == SyncSpec => []NothingVanishes
<1>1. SyncInv => NothingVanishes
  BY DEF SyncInv
<1> QED
  BY Init_SyncInv, Next_SyncInv, <1>1, PTL DEF SyncSpec

\* What has_applied tells: the position was reached, and nothing up to it is still to
\* come.
THEOREM AppliedPositionsAreFinal == SyncSpec => []HasAppliedMeansContainedOrGone
<1> QED
  BY Init_SyncInv, Next_SyncInv, AppliedPositions, PTL DEF SyncSpec

\* The three together: for any number of worlds, every message is accounted for.
THEOREM EveryMessageIsAccountedFor == SyncSpec => []MessagesAreAccountedFor
BY MessagesKeepTheirOrder, NoMessageVanishes, AppliedPositionsAreFinal, PTL
   DEF MessagesAreAccountedFor

\* A world is what the messages it contains make of it, for any number of worlds and of
\* entities built on each other: no path a message takes into a world (applied at once,
\* buffered, or with a copy of another world) leaves one out or counts one twice.
THEOREM WorldsAreTheirMessages == SyncSpec => []WorldIsItsMessages
<1>1. WorldInv => WorldIsItsMessages
  BY DEF WorldInv, ModelOf, Made, WorldIsItsMessages
<1> QED
  BY Init_WorldInv, Next_WorldInv, <1>1, PTL DEF SyncSpec

\* What a message refers to and its receiver lacks (subscription_callback) was in the
\* world of the publisher: another world has it still to come, lost a message about it or
\* removed it; the publisher itself, whose callback raises on the removal of its own
\* branches as well, lost a message about it or removed it.
THEOREM UnreadableMessagesHaveAReason == SyncSpec => UnreadableForAReason
<1>1. WorldInv /\ [SyncNext]_syncVars =>
        [\A w, p \in World :
           LET m == MessageAt(<<p, Head(inbox[w][p])>>)
               OnTheWay == UNION {{x} \X Members(inbox[w][x]) : x \in World \ {w, p}}
           IN  inbox[w][p] # <<>> /\ inbox'[w][p] = Tail(inbox[w][p]) =>
                 \A e \in References(m) \ (model[w] \union {Root}) :
                   \/ /\ p # w
                      /\ \E q \in OnTheWay \union Members(Buffered(w)) : MessageAt(q).entity = e
                   \/ \E q \in gone[w] : MessageAt(q).entity = e
                   \/ \E q \in contains[w] :
                         MessageAt(q).entity = e /\ MessageAt(q).kind = "remove"]_syncVars
  <2> SUFFICES ASSUME WorldInv, NEW w \in World, NEW p \in World, inbox[w][p] # <<>>,
                      NEW e \in References(MessageAt(<<p, Head(inbox[w][p])>>)),
                      e \notin model[w] \union {Root}
               PROVE  \/ /\ p # w
                         /\ \E q \in (UNION {{x} \X Members(inbox[w][x]) : x \in World \ {w, p}})
                                        \union Members(Buffered(w)) : MessageAt(q).entity = e
                      \/ \E q \in gone[w] : MessageAt(q).entity = e
                      \/ \E q \in contains[w] :
                           MessageAt(q).entity = e /\ MessageAt(q).kind = "remove"
    OBVIOUS
  <2> QED
    BY Unreadable, Zenon
<1> QED
  BY Init_WorldInv, Next_WorldInv, <1>1, PTL DEF SyncSpec, UnreadableForAReason
=============================================================================
