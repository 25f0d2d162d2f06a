------------------------ MODULE WorldSynchronization ------------------------
(***************************************************************************)
(* The receiving half of world synchronization (semantic_digital_twin      *)
(* adapters/ros/world_synchronizer.py and world_fetcher.py): worlds of     *)
(* several processes that publish what they change on one topic and apply  *)
(* what the others publish.  WorldPublication models how a change gets     *)
(* into the stream of its world; here it is in the stream at once.         *)
(*                                                                         *)
(* A message adds an entity on top of one that must be known, removes one, *)
(* alone or as a branch, or positions one.  The topic keeps the order of   *)
(* each publisher, drops the oldest message of a full queue and reaches    *)
(* the publisher as well.                                                  *)
(***************************************************************************)
EXTENDS Integers, Sequences, FiniteSets

CONSTANTS
  World,
  Deferring,    \* the worlds created with defer_incoming_updates
  Latecomer,    \* the worlds fetched from another one when they are needed
  Entity,
  Root,         \* what every world is built on
  Base,         \* the entity each one is connected to
  Initially,    \* the entities of the worlds that are there from the start
  QueueDepth,   \* message_queue_depth
  MaxMessages   \* bounds the messages published altogether

IsTree(entities) == \A e \in entities : Base[e] \in entities \union {Root}

ASSUME SynchronizationAssumption ==
  /\ Deferring \subseteq World \ Latecomer
  /\ Latecomer \subseteq World
  /\ Root \notin Entity
  /\ Base \in [Entity -> Entity \union {Root}]
  /\ \A e \in Entity : Base[e] # e
  /\ Initially \subseteq Entity /\ IsTree(Initially)
  /\ QueueDepth \in Nat \ {0}
  /\ MaxMessages \in Nat

VARIABLES
  model,       \* the entities of each world
  stream,      \* what each world published; a message's place is its sequence number
  inbox,       \* inbox[w][p]: the places in p's stream that wait for w's callback
  missed,      \* missed_messages: received and not applied yet
  batch,       \* taken out of missed_messages to be applied
  applying,    \* whether the batch holds the world lock
  applied,     \* applied[w][p]: w's _applied_sequence_numbers for p
  connection,  \* how far each world takes part in the topic
  contains,    \* history: the messages whose change each world contains
  gone         \* history: the messages that will never be applied to each world

syncVars == <<model, stream, inbox, missed, batch, applying, applied, connection,
              contains, gone>>

\* A removal is that of a branch (remove_branch_from_world, or the revert of an
\* addition) if it records the removal of the connection, too, and carries it along.
Message ==
  {m \in [kind : {"add", "remove", "state"}, entity : Entity, branch : BOOLEAN] :
     m.branch => m.kind = "remove"}
Position == World \X (Nat \ {0})

\* The message at a position, and the positions published so far.
MessageAt(position) == stream[position[1]][position[2]]
Published == UNION {{p} \X (1..Len(stream[p])) : p \in World}
EntitiesOf(kind, positions) ==
  {MessageAt(q).entity : q \in {r \in positions : MessageAt(r).kind = kind}}

SyncInit ==
  /\ model = [w \in World |-> IF w \in Latecomer THEN {} ELSE Initially]
  /\ stream = [w \in World |-> <<>>]
  /\ inbox = [w \in World |-> [p \in World |-> <<>>]]
  /\ missed = [w \in World |-> <<>>]
  /\ batch = [w \in World |-> <<>>]
  /\ applying = [w \in World |-> FALSE]
  /\ applied = [w \in World |-> [p \in World |-> 0]]
  /\ connection = [w \in World |-> IF w \in Latecomer THEN "absent" ELSE "connected"]
  /\ contains = [w \in World |-> {}]
  /\ gone = [w \in World |-> {}]
-----------------------------------------------------------------------------
\* What a message does to a world.

\* What the connection in a message starts at and leads to.  The body it leads to
\* comes with the message if it is added, and has to be there if it is removed.
References(m) ==
  {e \in {Base[m.entity]} : m.kind = "add" \/ m.branch} \union {e \in {m.entity} : m.branch}

\* A block that fails is not rolled back, and validate finds the broken tree only
\* after it; a branch is removed after both ends of its connection were looked up.
After(m, entities) ==
  CASE m.kind = "add" -> entities \union {m.entity}
    [] m.kind = "remove" /\ (m.branch => References(m) \subseteq entities \union {Root})
                      -> entities \ {m.entity}
    [] OTHER          -> entities

Applicable(m, entities) ==
  /\ m.kind \in {"remove", "state"} => m.entity \in entities
  /\ m.kind \in {"add", "remove"} => IsTree(After(m, entities))

\* from_json resolves what a connection refers to in the world as it is.
Deserializable(m, entities) == References(m) \subseteq entities \union {Root}

\* Mutant: the position itself is not yet applied when it is reached.
HasAppliedBeyond(w, p, n) == applied[w][p] > n

HasApplied(w, p, n) == applied[w][p] >= n

Largest(a, b) == IF a >= b THEN a ELSE b
-----------------------------------------------------------------------------
\* Publishing.

Listening(w) == connection[w] \in {"connected", "raised", "dead"}

\* The topic keeps the QueueDepth youngest messages for a callback.
Enqueue(queue, n) ==
  IF Len(queue) < QueueDepth THEN Append(queue, n) ELSE Append(Tail(queue), n)

Publish(w, m) ==
  LET n == Len(stream[w]) + 1 IN
    /\ Cardinality(Published) < MaxMessages
    /\ stream' = [stream EXCEPT ![w] = Append(@, m)]
    /\ contains' = [contains EXCEPT ![w] = @ \union {<<w, n>>}]
    /\ inbox' = [r \in World |->
         IF Listening(r) THEN [inbox[r] EXCEPT ![w] = Enqueue(@, n)] ELSE inbox[r]]
    /\ gone' = [r \in World |->
         IF Listening(r) /\ r # w /\ Len(inbox[r][w]) = QueueDepth
         THEN gone[r] \union {<<w, Head(inbox[r][w])>>} ELSE gone[r]]

\* Ids are unique: an entity is added once.
Created == Initially \union EntitiesOf("add", Published)

\* A thread of the process changes its world, the model under the world lock.
ChangeWorld(w, m) ==
  /\ Listening(w)
  /\ m.kind # "state" => ~ applying[w]
  /\ Applicable(m, model[w])
  /\ m.kind = "add" => m.entity \notin Created
  /\ model' = [model EXCEPT ![w] = After(m, @)]
  /\ Publish(w, m)
  /\ UNCHANGED <<missed, batch, applying, applied, connection>>
-----------------------------------------------------------------------------
\* Receiving.

Buffer(w, p, n) ==
  /\ missed' = [missed EXCEPT ![w] = Append(@, <<p, n>>)]
  /\ UNCHANGED <<model, applied, contains, gone, connection>>

\* Mutant: a message that carries a modification is recorded without applying it.
ApplyStateOnly(w, p, n) ==
  /\ applied' = [applied EXCEPT ![w][p] = Largest(@, n)]
  /\ contains' = [contains EXCEPT ![w] = @ \union {<<p, n>>}]
  /\ UNCHANGED model

\* apply_message and record_applied, which it does not reach if it raises.
ApplyMessage(w, p, n) ==
  LET m == MessageAt(<<p, n>>) IN
    /\ model' = [model EXCEPT ![w] = After(m, @)]
    /\ IF Applicable(m, model[w])
       THEN /\ applied' = [applied EXCEPT ![w][p] = Largest(@, n)]
            /\ contains' = [contains EXCEPT ![w] = @ \union {<<p, n>>}]
       ELSE UNCHANGED <<applied, contains>>

\* A callback that raises makes the thread that spins the node raise, too.
Raise(w) == connection' = [connection EXCEPT ![w] = "raised"]
Lose(w, positions) == gone' = [gone EXCEPT ![w] = @ \union positions]

ReceiveAndApply(w, p, n) ==
  /\ ApplyMessage(w, p, n)
  /\ IF Applicable(MessageAt(<<p, n>>), model[w]) THEN UNCHANGED <<gone, connection>>
     ELSE Raise(w) /\ Lose(w, {<<p, n>>})
  /\ UNCHANGED missed

\* The subscription callback, under the world lock: the message is deserialized
\* before anything else, a message of the world itself as well.
SubscriptionCallback(w, p) ==
  /\ connection[w] \in {"connected", "raised"} /\ ~ applying[w]
  /\ inbox[w][p] # <<>>
  /\ LET n == Head(inbox[w][p]) IN
       \/ /\ ~ Deserializable(MessageAt(<<p, n>>), model[w])
          /\ Raise(w)
          /\ Lose(w, IF p = w THEN {} ELSE {<<p, n>>})
          /\ UNCHANGED <<model, missed, applied, contains>>
       \/ /\ Deserializable(MessageAt(<<p, n>>), model[w])
          /\ \/ p = w /\ UNCHANGED <<model, missed, applied, contains, gone, connection>>
             \/ p # w /\ w \in Deferring /\ Buffer(w, p, n)
             \/ p # w /\ w \notin Deferring /\ ReceiveAndApply(w, p, n)
  /\ inbox' = [inbox EXCEPT ![w][p] = Tail(@)]
  /\ UNCHANGED <<stream, batch, applying>>

\* The executor passes the exception on when it looks at the callback again, and
\* the thread that spins the node ends.
SpinningEnds(w) ==
  /\ connection[w] = "raised"
  /\ connection' = [connection EXCEPT ![w] = "dead"]
  /\ UNCHANGED <<model, stream, inbox, missed, batch, applying, applied, contains, gone>>
-----------------------------------------------------------------------------
\* Applying what was buffered.

ChangesModel(position) == MessageAt(position).kind # "state"
HasBufferedModelModification(w) == \E i \in DOMAIN missed[w] : ChangesModel(missed[w][i])

\* The messages before the first one that carries a model modification.
LeadingStateOnly(w) ==
  CHOOSE k \in 0..Len(missed[w]) :
    /\ \A i \in 1..k : ~ ChangesModel(missed[w][i])
    /\ k < Len(missed[w]) => ChangesModel(missed[w][k + 1])

\* Mutant: one message too many leaves the buffer.
TakeOneTooMany(w, count) ==
  /\ batch[w] = <<>> /\ count \in 1..Len(missed[w])
  /\ batch' = [batch EXCEPT ![w] = SubSeq(missed[w], 1, count)]
  /\ missed' = [missed EXCEPT ![w] = SubSeq(@, count + 2, Len(@))]
  /\ UNCHANGED <<model, stream, inbox, applying, applied, connection, contains, gone>>

\* _apply_leading_messages takes them out of the buffer before it locks the world,
TakeLeading(w, count) ==
  /\ batch[w] = <<>> /\ count \in 1..Len(missed[w])
  /\ batch' = [batch EXCEPT ![w] = SubSeq(missed[w], 1, count)]
  /\ missed' = [missed EXCEPT ![w] = SubSeq(@, count + 1, Len(@))]
  /\ UNCHANGED <<model, stream, inbox, applying, applied, connection, contains, gone>>

\* Mutant: a message that fails is skipped without the ones behind it.
ApplyNextToTheEnd(w) ==
  /\ batch[w] # <<>>
  /\ LET q == Head(batch[w]) IN
       /\ ApplyMessage(w, q[1], q[2])
       /\ batch' = [batch EXCEPT ![w] = Tail(@)]
       /\ UNCHANGED gone
  /\ applying' = [applying EXCEPT ![w] = batch'[w] # <<>>]
  /\ UNCHANGED <<stream, inbox, missed, connection>>

\* and applies one after the other; what is behind one that raises is lost.
ApplyNext(w) ==
  /\ batch[w] # <<>>
  /\ LET q == Head(batch[w]) IN
       /\ ApplyMessage(w, q[1], q[2])
       /\ IF Applicable(MessageAt(q), model[w])
          THEN batch' = [batch EXCEPT ![w] = Tail(@)] /\ UNCHANGED gone
          ELSE /\ batch' = [batch EXCEPT ![w] = <<>>]
               /\ Lose(w, {batch[w][i] : i \in DOMAIN batch[w]})
  /\ applying' = [applying EXCEPT ![w] = batch'[w] # <<>>]
  /\ UNCHANGED <<stream, inbox, missed, connection>>
-----------------------------------------------------------------------------
\* A world that is needed later is fetched from one that is there, as that one is with
\* all it lost, and only then gets a synchronizer.

FetchWorld(w, p) ==
  /\ connection[w] = "absent" /\ Listening(p)
  /\ model' = [model EXCEPT ![w] = model[p]]
  /\ contains' = [contains EXCEPT ![w] = contains[p]]
  /\ gone' = [gone EXCEPT ![w] = gone[p]]
  /\ connection' = [connection EXCEPT ![w] = "fetched"]
  /\ UNCHANGED <<stream, inbox, missed, batch, applying, applied>>

Subscribe(w) ==
  /\ connection[w] = "fetched"
  /\ connection' = [connection EXCEPT ![w] = "connected"]
  /\ Lose(w, {q \in Published : q[1] # w} \ contains[w])
  /\ UNCHANGED <<model, stream, inbox, missed, batch, applying, applied, contains>>

SyncNext ==
  \E w \in World :
    \/ \E m \in Message : ChangeWorld(w, m)
    \/ \E p \in World : SubscriptionCallback(w, p) \/ FetchWorld(w, p)
    \/ SpinningEnds(w) \/ Subscribe(w) \/ ApplyNext(w)
    \/ \E count \in 1..Len(missed[w]) : TakeLeading(w, count)

SyncSpec == SyncInit /\ [][SyncNext]_syncVars
-----------------------------------------------------------------------------
SyncTypeOK ==
  /\ model \in [World -> SUBSET Entity]
  /\ stream \in [World -> Seq(Message)]
  /\ inbox \in [World -> [World -> Seq(Nat \ {0})]]
  /\ missed \in [World -> Seq(Position)]
  /\ batch \in [World -> Seq(Position)]
  /\ applying \in [World -> BOOLEAN]
  /\ applied \in [World -> [World -> Nat]]
  /\ connection \in [World -> {"absent", "fetched", "connected", "raised", "dead"}]
  /\ contains \in [World -> SUBSET Position]
  /\ gone \in [World -> SUBSET Position]

\* What waits to be applied, in the order it will be.
Buffered(w) == batch[w] \o missed[w]

\* "Everything up to a position was applied" can be told from the highest position
\* applied (has_applied) because the messages of a publisher never overtake each
\* other, on the topic, in missed_messages or while it is drained.
AppliedInStreamOrder ==
  \A w, p \in World : w # p =>
    /\ \A i \in DOMAIN Buffered(w) : Buffered(w)[i][1] = p =>
         /\ applied[w][p] < Buffered(w)[i][2]
         /\ \A j \in DOMAIN Buffered(w) :
              i < j /\ Buffered(w)[j][1] = p => Buffered(w)[i][2] < Buffered(w)[j][2]
         /\ \A k \in DOMAIN inbox[w][p] : Buffered(w)[i][2] < inbox[w][p][k]
    /\ \A k \in DOMAIN inbox[w][p] :
         /\ applied[w][p] < inbox[w][p][k]
         /\ \A l \in DOMAIN inbox[w][p] : k < l => inbox[w][p][k] < inbox[w][p][l]

Members(positions) == {positions[i] : i \in DOMAIN positions}

\* No message vanishes: what another world published since this one listens is on its
\* way, in the world, or was lost by a full queue or by an exception ("its message must
\* survive the drain", _apply_leading_messages).
NothingVanishes ==
  \A w, p \in World : Listening(w) /\ w # p =>
    \A n \in 1..Len(stream[p]) :
      \/ n \in Members(inbox[w][p])
      \/ <<p, n>> \in Members(Buffered(w)) \union contains[w] \union gone[w]

\* A world is what the messages it contains make of it, whichever thread applied them
\* and through which queues they came, unless one of them got lost.
WorldIsItsMessages ==
  \A w \in World : gone[w] = {} /\ connection[w] # "absent" =>
    model[w] = (Initially \union EntitiesOf("add", contains[w])) \ EntitiesOf("remove", contains[w])

\* "Whether everything up to `position' was applied to this world" (has_applied), as
\* far as the code can know: it was applied or given up.
HasAppliedMeansContainedOrGone ==
  \A w, p \in World : w # p /\ Listening(w) =>
    \A n \in 1..applied[w][p] : <<p, n>> \in contains[w] \union gone[w]

\* Every message is accounted for at all times, which is why the latest position applied
\* tells of everything before it (has_applied, _apply_leading_messages).
MessagesAreAccountedFor ==
  AppliedInStreamOrder /\ NothingVanishes /\ HasAppliedMeansContainedOrGone


\* What a message refers to is missing in a world that cannot deserialize it for a
\* reason.  In another world than the publisher's: the message that adds it still waits
\* in the buffer or comes from a third world, a message about it was lost, or one
\* removed it.  In the publisher's own world, where it was when the message was written:
\* only that something about it was lost, or that it was removed, since then or by the
\* message itself.  Publishers and threads may interleave anyhow.
UnreadableForAReason ==
  [][\A w, p \in World :
       LET m == MessageAt(<<p, Head(inbox[w][p])>>)
           OnTheWay == UNION {{x} \X Members(inbox[w][x]) : x \in World \ {w, p}}
       IN  inbox[w][p] # <<>> /\ inbox'[w][p] = Tail(inbox[w][p]) =>
             \A e \in References(m) \ (model[w] \union {Root}) :
               \/ /\ p # w
                  /\ \E q \in OnTheWay \union Members(Buffered(w)) : MessageAt(q).entity = e
               \/ \E q \in gone[w] : MessageAt(q).entity = e
               \/ \E q \in contains[w] :
                     MessageAt(q).entity = e /\ MessageAt(q).kind = "remove"]_syncVars
=============================================================================
