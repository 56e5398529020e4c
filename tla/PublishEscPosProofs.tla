------------------------- MODULE PublishEscPosProofs -------------------------
(* Proofs about PublishEscPos, for every number of calls, every length of   *)
(* payloads and every chunk size, the ones that are not positive too.       *)
EXTENDS PublishEscPos, CommonLemmas, TLAPS

-----------------------------------------------------------------------------
(* Chunks.                                                                  *)

\* Only a payload without bytes can have a chunk size of 0.
LEMMA ChunkSizeType ==
    ASSUME NEW length \in Lengths
    PROVE  /\ ChunkSize(length) \in Nat
           /\ length > 0 => ChunkSize(length) > 0
BY PublishAssumption DEF ChunkSize, Lengths

\* The number of chunks that is reported.
LEMMA ChunksType ==
    ASSUME NEW length \in Lengths
    PROVE  Chunks(length) \in Nat \cup {NaN}
<1> DEFINE size == ChunkSize(length)
<1>1. length \in Nat /\ size \in Nat
  BY ChunkSizeType, PublishAssumption DEF Lengths
<1>2. CASE size = 0 \/ length = 0
  BY <1>2 DEF Chunks
<1>3. CASE size # 0 /\ length # 0
  <2> HIDE DEF size
  <2>1. length + size - 1 \in Nat /\ size \in Nat \ {0}
    BY <1>1, <1>3
  <2>2. (length + size - 1) \div size \in Nat
    BY <2>1, Quotient
  <2> QED
    BY <1>3, <2>2 DEF Chunks, size
<1> QED
  BY <1>2, <1>3

\* The end of the chunk that begins at offset.
LEMMA NextOffsetProperties ==
    ASSUME NEW length \in Lengths, NEW offset \in Lengths
    PROVE  /\ NextOffset(offset, length) \in Lengths
           /\ NextOffset(offset, length) <= length
           /\ NextOffset(offset, length) <= offset + ChunkSize(length)
           /\ NextOffset(offset, length) < length =>
                 NextOffset(offset, length) = offset + ChunkSize(length)
           /\ offset < length => offset < NextOffset(offset, length)
<1>1. /\ ChunkSize(length) \in Nat /\ (length > 0 => ChunkSize(length) > 0)
      /\ length \in Nat /\ offset \in Nat /\ MaxLength \in Nat /\ length <= MaxLength
  BY ChunkSizeType, PublishAssumption DEF Lengths
<1> QED
  BY <1>1 DEF NextOffset, Lengths

-----------------------------------------------------------------------------
(* The messages the client keeps, and those the broker has taken.           *)

Offered == ToSet(outbox)
Taken == ToSet(topic)

Accepted == {"awaiting", "resolved", "rejected"}

\* The chunk of a call that begins at offset from.
Piece(c, from) == [call |-> c, from |-> from, to |-> NextOffset(from, call[c].length)]

OneEach(box) == \A i, j \in DOMAIN box : box[i].chunk.call = box[j].chunk.call => i = j

\* The box holds the messages of all calls but c.
OthersThan(c, box) ==
    /\ box \in Seq(Message)
    /\ OneEach(box)
    /\ ToSet(box) = {n \in Offered : n.chunk.call # c}

\* A message that is offered is the chunk before the offset of a call that awaits it.
OfferedFits ==
    \A n \in Offered :
        /\ call[n.chunk.call].state = "awaiting"
        /\ n.chunk = Piece(n.chunk.call, n.chunk.from)
        /\ n.chunk.from < n.chunk.to
        /\ call[n.chunk.call].offset = n.chunk.to

EachHasOne ==
    \A c \in Calls : call[c].state = "awaiting" => \E n \in Offered : n.chunk.call = c

ChunksCounted ==
    \A c \in Calls : call[c].state \in Accepted => call[c].chunks = Chunks(call[c].length)

\* Each call that awaits has its one message, and no other call has any.
Awaited == OneEach(outbox) /\ OfferedFits /\ EachHasOne /\ ChunksCounted

\* The types of what is in the two sequences.
LEMMA ElementTypes ==
    ASSUME TypeOK
    PROVE  /\ \A n \in Offered : /\ n \in Message /\ n.chunk \in Chunk /\ n.chunk.call \in Calls
                                 /\ n.chunk.from \in Lengths /\ n.chunk.to \in Lengths
           /\ \A m \in Taken : /\ m \in Chunk /\ m.call \in Calls
                               /\ m.from \in Lengths /\ m.to \in Lengths
           /\ \A c \in Calls : call[c] \in Call /\ call[c].length \in Lengths
                               /\ call[c].offset \in Lengths
<1>1. ASSUME NEW n \in Offered
      PROVE  n \in Message
  <2>1. PICK i \in 1 .. Len(outbox) : n = outbox[i]
    BY DEF TypeOK, Offered, ToSet
  <2> QED
    BY <2>1, ElementOfSeq DEF TypeOK
<1>2. ASSUME NEW m \in Taken
      PROVE  m \in Chunk
  <2>1. PICK i \in 1 .. Len(topic) : m = topic[i]
    BY DEF TypeOK, Taken, ToSet
  <2> QED
    BY <2>1, ElementOfSeq DEF TypeOK
<1>3. \A m \in Chunk : m.call \in Calls /\ m.from \in Lengths /\ m.to \in Lengths
  BY DEF Chunk
<1>4. \A n \in Message : n.chunk \in Chunk
  BY DEF Message
<1>5. \A c \in Calls : call[c] \in Call
  BY DEF TypeOK
<1>6. \A r \in Call : r.length \in Lengths /\ r.offset \in Lengths
  BY DEF Call
<1> QED
  BY <1>1, <1>2, <1>3, <1>4, <1>5, <1>6

\* A message of c is added to those of the other calls.
LEMMA AppendOne ==
    ASSUME NEW c, NEW box, OthersThan(c, box), NEW n \in Message, n.chunk.call = c
    PROVE  /\ Append(box, n) \in Seq(Message)
           /\ OneEach(Append(box, n))
           /\ ToSet(Append(box, n)) = ToSet(box) \cup {n}
<1> DEFINE longer == Append(box, n)
<1>1. /\ box \in Seq(Message) /\ OneEach(box)
      /\ \A i \in DOMAIN box : box[i].chunk.call # c
  BY DEF OthersThan, ToSet
<1>2. /\ Len(box) \in Nat /\ DOMAIN box = 1 .. Len(box)
      /\ longer \in Seq(Message) /\ DOMAIN longer = 1 .. Len(box) + 1
      /\ \A i \in 1 .. Len(box) : longer[i] = box[i]
      /\ longer[Len(box) + 1] = n
  BY <1>1
<1> HIDE DEF longer
<1>3. \A i \in 1 .. Len(box) + 1 : i \in 1 .. Len(box) \/ i = Len(box) + 1
  BY <1>2
<1>4. OneEach(longer)
  BY <1>1, <1>2, <1>3 DEF OneEach
<1>5. ToSet(longer) = ToSet(box) \cup {n}
  <2>1. ToSet(longer) \subseteq ToSet(box) \cup {n}
    BY <1>2, <1>3 DEF ToSet
  <2>2. \A i \in 1 .. Len(box) : i \in 1 .. Len(box) + 1 /\ box[i] = longer[i]
    BY <1>2
  <2>3. ToSet(box) \subseteq ToSet(longer)
    BY <1>2, <2>2 DEF ToSet
  <2>4. n \in ToSet(longer)
    <3>1. Len(box) + 1 \in 1 .. Len(box) + 1
      BY <1>2
    <3> QED
      BY <1>2, <3>1 DEF ToSet
  <2> QED
    BY <2>1, <2>3, <2>4
<1> QED
  BY <1>2, <1>4, <1>5 DEF longer

\* Before a call is made nothing is offered for it.
LEMMA OthersWhenNew ==
    ASSUME TypeOK, Awaited, NEW c \in Calls, call[c].state # "awaiting"
    PROVE  OthersThan(c, outbox)
BY DEF TypeOK, Awaited, OfferedFits, OthersThan, Offered

\* When the message of a call is taken out of the outbox, those of the others remain.
LEMMA OthersWhenRemoved ==
    ASSUME TypeOK, Awaited, NEW i \in DOMAIN outbox
    PROVE  OthersThan(outbox[i].chunk.call, RemoveAt(outbox, i))
<1> DEFINE box == RemoveAt(outbox, i)
           from(k) == IF k < i THEN k ELSE k + 1
<1>1. /\ outbox \in Seq(Message) /\ DOMAIN outbox = 1 .. Len(outbox)
      /\ Len(outbox) \in Nat /\ i \in 1 .. Len(outbox) /\ i \in Nat
  BY DEF TypeOK
<1>2. OneEach(outbox)
  BY Zenon DEF Awaited
<1>3. /\ box \in Seq(Message) /\ Len(box) = Len(outbox) - 1
      /\ \A k \in 1 .. i - 1 : box[k] = outbox[k]
      /\ \A k \in i .. Len(outbox) - 1 : box[k] = outbox[k + 1]
  BY <1>1, RemoveAtProperties, Zenon
<1>4. IsInjective(outbox)
  BY <1>2 DEF IsInjective, OneEach
<1>5. ToSet(box) = Offered \ {outbox[i]}
  BY <1>1, <1>4, RemoveFromInjective DEF Offered
<1> HIDE DEF box
<1>6. DOMAIN box = 1 .. Len(outbox) - 1
  BY <1>3
<1>7. ASSUME NEW k \in 1 .. Len(outbox) - 1
      PROVE  from(k) \in 1 .. Len(outbox) /\ box[k] = outbox[from(k)]
  BY <1>1, <1>3, SMTT(30)
<1>8. \A k, l \in 1 .. Len(outbox) - 1 : from(k) = from(l) => k = l
  BY <1>1
<1> HIDE DEF from
<1>9. OneEach(box)
  BY <1>1, <1>2, <1>6, <1>7, <1>8 DEF OneEach
<1>10. \A n \in Offered : n.chunk.call = outbox[i].chunk.call <=> n = outbox[i]
  BY <1>1, <1>2 DEF OneEach, Offered, ToSet
<1>11. ToSet(box) = {n \in Offered : n.chunk.call # outbox[i].chunk.call}
  BY <1>5, <1>10
<1> QED
  BY <1>3, <1>9, <1>11 DEF OthersThan, box

\* What publishNext does, whichever step calls it.
LEMMA PublishNextEffect ==
    ASSUME TypeOK, NEW c \in Calls, NEW length \in Lengths, NEW offset \in Lengths,
           NEW box, OthersThan(c, box), publishNext(c, length, offset, box)
    PROVE  /\ outbox' \in Seq(Message) /\ OneEach(outbox')
           /\ call' \in [Calls -> Call]
           /\ \A d \in Calls \ {c} : call'[d] = call[d]
           /\ call'[c].length = length /\ call'[c].chunks = Chunks(length)
           /\ \/ /\ offset >= length
                 /\ call'[c].state = "resolved"
                 /\ Offered' = {n \in Offered : n.chunk.call # c}
              \/ /\ offset < length
                 /\ call'[c].state = "awaiting"
                 /\ call'[c].offset = NextOffset(offset, length)
                 /\ Offered' = {n \in Offered : n.chunk.call # c} \cup
                        {[chunk |-> [call |-> c, from |-> offset,
                                     to |-> NextOffset(offset, length)],
                          sent |-> FALSE]}
<1> DEFINE to == NextOffset(offset, length)
           at(state, o) == [state |-> state, length |-> length, offset |-> o,
                            chunks |-> Chunks(length)]
           new == [chunk |-> [call |-> c, from |-> offset, to |-> to], sent |-> FALSE]
<1>1. to \in Lengths /\ Chunks(length) \in Nat \cup {NaN}
  BY NextOffsetProperties, ChunksType
<1>2. call \in [Calls -> Call]
  BY DEF TypeOK
<1>3. CASE offset >= length
  <2>1. call' = [call EXCEPT ![c] = at("resolved", offset)] /\ outbox' = box
    BY <1>3 DEF publishNext, Lengths
  <2>2. at("resolved", offset) \in Call
    BY <1>1 DEF Call, State
  <2>3. /\ call' \in [Calls -> Call] /\ \A d \in Calls \ {c} : call'[d] = call[d]
        /\ call'[c] = at("resolved", offset)
    BY <1>2, <2>1, <2>2
  <2>4. /\ outbox' \in Seq(Message) /\ OneEach(outbox')
        /\ Offered' = {n \in Offered : n.chunk.call # c}
    BY <2>1 DEF OthersThan, Offered
  <2> QED
    BY <1>3, <2>3, <2>4
<1>4. CASE offset < length
  <2>1. call' = [call EXCEPT ![c] = at("awaiting", to)] /\ outbox' = Append(box, new)
    BY <1>4 DEF publishNext, Lengths
  <2>2. at("awaiting", to) \in Call
    BY <1>1 DEF Call, State
  <2>3. /\ call' \in [Calls -> Call] /\ \A d \in Calls \ {c} : call'[d] = call[d]
        /\ call'[c] = at("awaiting", to)
    BY <1>2, <2>1, <2>2
  <2>4. new \in Message /\ new.chunk.call = c
    BY <1>1 DEF Message, Chunk
  <2> HIDE DEF new
  <2>5. /\ Append(box, new) \in Seq(Message) /\ OneEach(Append(box, new))
        /\ ToSet(Append(box, new)) = ToSet(box) \cup {new}
    BY <2>4, AppendOne
  <2>6. Offered' = {n \in Offered : n.chunk.call # c} \cup {new}
    BY <2>1, <2>5 DEF OthersThan, Offered
  <2> QED
    BY <1>4, <2>1, <2>3, <2>5, <2>6 DEF new
<1> QED
  BY <1>3, <1>4, PublishAssumption DEF Lengths

-----------------------------------------------------------------------------
(* Types, and one awaited message for each call.                            *)

\* publishNext leaves the call with the message it awaits, or settled without one.
LEMMA PublishNextAwaits ==
    ASSUME TypeOK, Awaited, NEW c \in Calls, NEW length \in Lengths, NEW offset \in Lengths,
           NEW box, OthersThan(c, box), publishNext(c, length, offset, box)
    PROVE  Awaited'
<1> DEFINE others == {n \in Offered : n.chunk.call # c}
           to == NextOffset(offset, length)
           new == [chunk |-> [call |-> c, from |-> offset, to |-> to], sent |-> FALSE]
<1>1. /\ OneEach(outbox')
      /\ \A d \in Calls \ {c} : call'[d] = call[d]
      /\ call'[c].length = length /\ call'[c].chunks = Chunks(length)
      /\ \/ call'[c].state = "resolved" /\ Offered' = others
         \/ /\ offset < length
            /\ call'[c].state = "awaiting" /\ call'[c].offset = to
            /\ Offered' = others \cup {new}
  BY PublishNextEffect
<1>2. OfferedFits /\ EachHasOne /\ ChunksCounted
  BY DEF Awaited
<1>3. \A n \in Offered : n.chunk.call \in Calls
  BY ElementTypes
<1>4. ASSUME NEW n \in others
      PROVE  /\ call'[n.chunk.call].state = "awaiting"
             /\ n.chunk = Piece(n.chunk.call, n.chunk.from)'
             /\ n.chunk.from < n.chunk.to
             /\ call'[n.chunk.call].offset = n.chunk.to
  BY <1>1, <1>2, <1>3 DEF OfferedFits, Piece
<1>5. ChunksCounted'
  BY <1>1, <1>2 DEF ChunksCounted
<1>6. ASSUME NEW d \in Calls \ {c}, call'[d].state = "awaiting"
      PROVE  \E n \in others : n.chunk.call = d
  BY <1>1, <1>2, <1>6 DEF EachHasOne
<1>7. CASE call'[c].state = "resolved" /\ Offered' = others
  <2>1. OfferedFits'
    BY <1>4, <1>7 DEF OfferedFits
  <2>2. EachHasOne'
    BY <1>6, <1>7 DEF EachHasOne
  <2> QED
    BY <1>1, <1>5, <2>1, <2>2 DEF Awaited
<1>8. CASE /\ offset < length
           /\ call'[c].state = "awaiting" /\ call'[c].offset = to
           /\ Offered' = others \cup {new}
  <2>1. /\ new.chunk.call = c /\ new.chunk.from = offset /\ new.chunk.to = to
        /\ new.chunk = Piece(c, offset)' /\ offset < to
    BY <1>1, <1>8, NextOffsetProperties DEF Piece
  <2> HIDE DEF new
  <2>2. OfferedFits'
    BY <1>4, <1>8, <2>1 DEF OfferedFits
  <2>3. EachHasOne'
    BY <1>6, <1>8, <2>1 DEF EachHasOne
  <2> QED
    BY <1>1, <1>5, <2>2, <2>3 DEF Awaited
<1> QED
  BY <1>1, <1>7, <1>8

\* The offset and the length of the call whose message is acknowledged.
LEMMA CallOfMessage ==
    ASSUME TypeOK, Awaited, NEW i \in DOMAIN outbox
    PROVE  /\ outbox[i] \in Offered
           /\ outbox[i].chunk.call \in Calls
           /\ call[outbox[i].chunk.call].state = "awaiting"
           /\ call[outbox[i].chunk.call].length \in Lengths
           /\ call[outbox[i].chunk.call].offset \in Lengths
           /\ call[outbox[i].chunk.call].offset = outbox[i].chunk.to
<1>1. outbox[i] \in Offered
  BY DEF Offered, ToSet
<1> QED
  BY <1>1, ElementTypes DEF Awaited, OfferedFits

\* The messages after one of them has been sent, or none is any more.
LEMMA ChunksStay ==
    ASSUME outbox \in Seq(Message), outbox' \in Seq(Message),
           Len(outbox') = Len(outbox),
           \A k \in DOMAIN outbox : outbox'[k].chunk = outbox[k].chunk
    PROVE  /\ {n.chunk : n \in Offered'} = {n.chunk : n \in Offered}
           /\ OneEach(outbox) => OneEach(outbox')
<1>1. DOMAIN outbox' = DOMAIN outbox
  OBVIOUS
<1> QED
  BY <1>1 DEF Offered, ToSet, OneEach

\* Awaited is about the calls and the chunks that are offered.
LEMMA AwaitedByChunks ==
    ASSUME Awaited, {n.chunk : n \in Offered'} = {n.chunk : n \in Offered},
           OneEach(outbox'), call' = call
    PROVE  Awaited'
<1>1. OneEach(outbox) /\ OfferedFits /\ EachHasOne /\ ChunksCounted
  BY DEF Awaited
<1>2. \A n \in Offered' : \E o \in Offered : o.chunk = n.chunk
  OBVIOUS
<1>3. \A o \in Offered : \E n \in Offered' : n.chunk = o.chunk
  OBVIOUS
<1>4. OfferedFits'
  BY <1>1, <1>2 DEF OfferedFits, Piece
<1>5. EachHasOne'
  BY <1>1, <1>3 DEF EachHasOne
<1>6. ChunksCounted'
  BY <1>1 DEF ChunksCounted
<1> QED
  BY <1>4, <1>5, <1>6 DEF Awaited

\* A call is refused before it has a message, and rejected when it loses its message.
LEMMA FailureKeeps ==
    ASSUME TypeOK, Awaited, NEW c \in Calls, NEW r \in Call,
           OthersThan(c, outbox'), call' = [call EXCEPT ![c] = r],
           r.state \in {"refused", "rejected"}, r.state = "rejected" => r.chunks = Chunks(r.length)
    PROVE  Awaited'
<1>1. OfferedFits /\ EachHasOne /\ ChunksCounted
  BY DEF Awaited
<1>2. /\ \A d \in Calls \ {c} : call'[d] = call[d]
      /\ call'[c] = r
  BY DEF TypeOK
<1>3. Offered' = {n \in Offered : n.chunk.call # c} /\ OneEach(outbox')
  BY DEF OthersThan, Offered
<1>4. \A n \in Offered : n.chunk.call \in Calls
  BY ElementTypes
<1>5. OfferedFits'
  BY <1>1, <1>2, <1>3, <1>4 DEF OfferedFits, Piece
<1>6. EachHasOne'
  BY <1>1, <1>2, <1>3 DEF EachHasOne
<1>7. ChunksCounted'
  BY <1>1, <1>2 DEF ChunksCounted, Accepted
<1> QED
  BY <1>3, <1>5, <1>6, <1>7 DEF Awaited

\* Init gives the variables their types, and no call has a message.
LEMMA InitAwaited ==
    ASSUME Init
    PROVE  TypeOK /\ Awaited
<1>1. 0 \in Lengths /\ 0 \in 0 .. MaxDrops
  BY PublishAssumption DEF Lengths
<1>2. TypeOK
  <2>1. [state |-> "new", length |-> 0, offset |-> 0, chunks |-> 0] \in Call
    BY <1>1 DEF Call, State
  <2>2. call \in [Calls -> Call]
    BY <2>1 DEF Init
  <2>3. outbox \in Seq(Message) /\ topic \in Seq(Chunk)
    BY DEF Init
  <2> QED
    BY <1>1, <2>2, <2>3 DEF Init, TypeOK
<1>3. Awaited
  BY DEF Init, Awaited, OneEach, OfferedFits, EachHasOne, ChunksCounted, Offered, ToSet, Accepted
<1> QED
  BY <1>2, <1>3

\* Every step keeps the types, and one message for each call that awaits.
LEMMA NextAwaited ==
    ASSUME TypeOK, Awaited, [Next]_vars
    PROVE  TypeOK' /\ Awaited'
<1> USE DEF TypeOK
<1>1. ASSUME NEW c \in Calls, NEW length \in Lengths, Publish(c, length)
      PROVE  TypeOK' /\ Awaited'
  <2>1. /\ publishNext(c, length, 0, outbox) /\ call[c].state # "awaiting"
        /\ UNCHANGED <<linked, mqttConnected, drops, topic>> /\ 0 \in Lengths
    BY <1>1, PublishAssumption DEF Publish, Lengths
  <2>2. OthersThan(c, outbox)
    BY <2>1, OthersWhenNew
  <2>3. outbox' \in Seq(Message) /\ call' \in [Calls -> Call]
    BY <2>1, <2>2, PublishNextEffect
  <2>4. Awaited'
    BY <2>1, <2>2, PublishNextAwaits
  <2> QED
    BY <2>1, <2>3, <2>4
<1>2. ASSUME NEW c \in Calls, NEW length \in Lengths, Refuse(c, length)
      PROVE  TypeOK' /\ Awaited'
  <2> DEFINE r == [call[c] EXCEPT !.state = "refused", !.length = length]
  <2>1. call' = [call EXCEPT ![c] = r] /\ UNCHANGED <<linked, mqttConnected, drops, outbox, topic>>
    BY <1>2 DEF Refuse
  <2>2. r \in Call /\ r.state = "refused"
    <3>1. call[c] \in Call
      OBVIOUS
    <3> QED
      BY <3>1 DEF Call, State
  <2> HIDE DEF r
  <2>3. OthersThan(c, outbox')
    <3>1. call[c].state # "awaiting"
      BY <1>2 DEF Refuse
    <3> QED
      BY <2>1, <3>1, OthersWhenNew
  <2>4. Awaited'
    BY <2>1, <2>2, <2>3, FailureKeeps
  <2> QED
    BY <2>1, <2>2, <2>4
<1>3. ASSUME NEW i \in DOMAIN outbox, Acknowledge(i)
      PROVE  TypeOK' /\ Awaited'
  <2> DEFINE c == outbox[i].chunk.call
             box == RemoveAt(outbox, i)
  <2>1. /\ publishNext(c, call[c].length, call[c].offset, box)
        /\ UNCHANGED <<linked, mqttConnected, drops, topic>>
    BY <1>3 DEF Acknowledge
  <2>2. c \in Calls /\ call[c].length \in Lengths /\ call[c].offset \in Lengths
    BY CallOfMessage
  <2>3. OthersThan(c, box)
    BY OthersWhenRemoved
  <2> HIDE DEF c, box
  <2>4. outbox' \in Seq(Message) /\ call' \in [Calls -> Call]
    BY <2>1, <2>2, <2>3, PublishNextEffect
  <2>5. Awaited'
    BY <2>1, <2>2, <2>3, PublishNextAwaits
  <2> QED
    BY <2>1, <2>4, <2>5
<1>4. ASSUME NEW i \in DOMAIN outbox, Fail(i)
      PROVE  TypeOK' /\ Awaited'
  <2> DEFINE c == outbox[i].chunk.call
             r == [call[c] EXCEPT !.state = "rejected"]
  <2>1. /\ call' = [call EXCEPT ![c] = r] /\ outbox' = RemoveAt(outbox, i)
        /\ UNCHANGED <<linked, mqttConnected, drops, topic>>
    BY <1>4 DEF Fail
  <2>2. c \in Calls /\ call[c].state = "awaiting"
    BY CallOfMessage
  <2>3. OthersThan(c, RemoveAt(outbox, i))
    BY OthersWhenRemoved
  <2> HIDE DEF c
  <2>4. r \in Call /\ r.state = "rejected" /\ r.length = call[c].length /\ r.chunks = call[c].chunks
    <3>1. call[c] \in Call
      BY <2>2
    <3> QED
      BY <3>1 DEF Call, State
  <2>5. r.chunks = Chunks(r.length)
    BY <2>2, <2>4 DEF Awaited, ChunksCounted, Accepted
  <2> HIDE DEF r
  <2>6. Awaited'
    BY <2>1, <2>2, <2>3, <2>4, <2>5, FailureKeeps
  <2>7. outbox' \in Seq(Message)
    BY <2>1, <2>3 DEF OthersThan
  <2> QED
    BY <2>1, <2>2, <2>4, <2>6, <2>7
<1>5. ASSUME NEW i \in DOMAIN outbox, Send(i)
      PROVE  TypeOK' /\ Awaited'
  <2>1. /\ outbox' = [outbox EXCEPT ![i].sent = TRUE]
        /\ topic' = Append(topic, outbox[i].chunk)
        /\ UNCHANGED <<linked, mqttConnected, drops, call>>
    BY <1>5 DEF Send
  <2>2. outbox[i] \in Message
    BY ElementOfSeq
  <2>3. topic' \in Seq(Chunk)
    BY <2>1, <2>2 DEF Message
  <2>4. /\ outbox' \in Seq(Message) /\ Len(outbox') = Len(outbox)
        /\ \A k \in DOMAIN outbox : outbox'[k].chunk = outbox[k].chunk
    <3>1. [outbox[i] EXCEPT !.sent = TRUE] \in Message
      BY <2>2 DEF Message
    <3>2. outbox' = [outbox EXCEPT ![i] = [outbox[i] EXCEPT !.sent = TRUE]]
      BY <2>1
    <3>3. [outbox[i] EXCEPT !.sent = TRUE].chunk = outbox[i].chunk
      BY <2>2 DEF Message
    <3> QED
      BY <3>1, <3>2, <3>3
  <2>5. Awaited'
    BY <2>1, <2>4, ChunksStay, AwaitedByChunks DEF Awaited
  <2> QED
    BY <2>1, <2>3, <2>4, <2>5
<1>6. CASE CloseEvent
  <2>1. /\ drops < MaxDrops /\ drops' = drops + 1 /\ linked' = FALSE /\ mqttConnected' = FALSE
        /\ outbox' = [k \in DOMAIN outbox |-> [outbox[k] EXCEPT !.sent = FALSE]]
        /\ call' = call /\ topic' = topic
    BY <1>6 DEF CloseEvent
  <2>2. \A k \in DOMAIN outbox : outbox[k] \in Message
    BY ElementOfSeq
  <2>3. /\ outbox' \in Seq(Message) /\ Len(outbox') = Len(outbox)
        /\ \A k \in DOMAIN outbox : outbox'[k].chunk = outbox[k].chunk
    <3>1. \A n \in Message : [n EXCEPT !.sent = FALSE] \in Message
                             /\ [n EXCEPT !.sent = FALSE].chunk = n.chunk
      BY DEF Message
    <3>2. DOMAIN outbox = 1 .. Len(outbox) /\ Len(outbox) \in Nat
      OBVIOUS
    <3>3. \A k \in 1 .. Len(outbox) : /\ outbox'[k] \in Message
                                      /\ outbox'[k].chunk = outbox[k].chunk
      BY <2>1, <2>2, <3>1, <3>2
    <3>4. outbox' \in [1 .. Len(outbox) -> Message]
      BY <2>1, <3>2, <3>3
    <3> QED
      BY <3>2, <3>3, <3>4
  <2>4. Awaited'
    BY <2>1, <2>3, ChunksStay, AwaitedByChunks DEF Awaited
  <2>5. drops' \in 0 .. MaxDrops
    BY <2>1, PublishAssumption
  <2> QED
    BY <2>1, <2>3, <2>4, <2>5
<1>7. CASE Link \/ ConnectEvent \/ UNCHANGED vars
  <2>1. /\ UNCHANGED <<drops, call, outbox, topic>>
        /\ linked' \in BOOLEAN /\ mqttConnected' \in BOOLEAN
    BY <1>7 DEF Link, ConnectEvent, vars
  <2>2. Awaited'
    BY <2>1 DEF Awaited, OneEach, OfferedFits, EachHasOne, ChunksCounted, Offered, Piece
  <2> QED
    BY <2>1, <2>2
<1> QED
  BY <1>1, <1>2, <1>3, <1>4, <1>5, <1>6, <1>7 DEF Next

\* The variables always have their types.
THEOREM TypeCorrect == Spec => []TypeOK
<1>1. Init => TypeOK /\ Awaited
  BY InitAwaited
<1>2. TypeOK /\ Awaited /\ [Next]_vars => TypeOK' /\ Awaited'
  BY NextAwaited
<1> QED
  BY <1>1, <1>2, PTL DEF Spec

\* A call that awaits has exactly one message with the client, and every other call
\* has none: a payload does not go on behind an error.
THEOREM OneAwaited == Spec => []OneMessageAwaited
<1>1. Init => TypeOK /\ Awaited
  BY InitAwaited
<1>2. TypeOK /\ Awaited /\ [Next]_vars => TypeOK' /\ Awaited'
  BY NextAwaited
<1>3. TypeOK /\ Awaited => OneMessageAwaited
  <2> SUFFICES ASSUME TypeOK, Awaited, NEW c \in Calls
               PROVE  Cardinality({i \in DOMAIN outbox : outbox[i].chunk.call = c}) =
                          IF call[c].state = "awaiting" THEN 1 ELSE 0
    BY DEF OneMessageAwaited
  <2> DEFINE his == {i \in DOMAIN outbox : outbox[i].chunk.call = c}
  <2>1. CASE call[c].state = "awaiting"
    <3>1. PICK n \in Offered : n.chunk.call = c
      BY <2>1 DEF Awaited, EachHasOne
    <3>2. PICK i \in DOMAIN outbox : outbox[i] = n
      BY DEF Offered, ToSet
    <3>3. his = {i}
      BY <3>1, <3>2 DEF Awaited, OneEach
    <3> QED
      BY <2>1, <3>3, FS_Singleton
  <2>2. CASE call[c].state # "awaiting"
    <3>1. his = {}
      BY <2>2, CallOfMessage
    <3> QED
      BY <2>2, <3>1, FS_EmptySet
  <2> QED
    BY <2>1, <2>2
<1> QED
  BY <1>1, <1>2, <1>3, PTL DEF Spec

-----------------------------------------------------------------------------
(* The order of the messages.                                               *)

\* What the broker took are chunks of calls that were accepted.
TakenFits ==
    \A m \in Taken :
        /\ call[m.call].state \in Accepted
        /\ m = Piece(m.call, m.from)
        /\ m.from < m.to

SentIsTaken == \A n \in Offered : n.sent => n.chunk \in Taken

\* What is offered follows on something the broker has taken, unless it is the first.
FollowsOn ==
    \A n \in Offered :
        n.chunk.from = 0 \/ \E t \in Taken : t.call = n.chunk.call /\ t.to = n.chunk.from

\* It is new to the broker or repeats the last thing it took.
ComesAfter ==
    \A n \in Offered, t \in Taken :
        t.call = n.chunk.call => t = n.chunk \/ t.to <= n.chunk.from

InTurn == TakenFits /\ SentIsTaken /\ FollowsOn /\ ComesAfter

\* The part of Reassembly that is about two messages.
TopicInOrder ==
    /\ \A i \in DOMAIN topic :
          \/ topic[i].from = 0
          \/ \E j \in 1 .. i - 1 : topic[j].call = topic[i].call /\ topic[j].to = topic[i].from
    /\ \A i, j \in DOMAIN topic :
          i < j /\ topic[i].call = topic[j].call =>
              topic[i] = topic[j] \/ topic[i].to <= topic[j].from

\* publishNext offers what comes next if the offset is the end of what was taken.
LEMMA PublishNextInTurn ==
    ASSUME TypeOK, Awaited, InTurn,
           NEW c \in Calls, NEW length \in Lengths, NEW offset \in Lengths,
           NEW box, OthersThan(c, box), publishNext(c, length, offset, box), topic' = topic,
           offset = 0 \/ \E t \in Taken : t.call = c /\ t.to = offset,
           \A t \in Taken : t.call = c => t.to <= offset /\ call[c].length = length
    PROVE  InTurn'
<1> DEFINE others == {n \in Offered : n.chunk.call # c}
           to == NextOffset(offset, length)
           new == [chunk |-> [call |-> c, from |-> offset, to |-> to], sent |-> FALSE]
<1>1. /\ \A d \in Calls \ {c} : call'[d] = call[d]
      /\ call'[c].length = length
      /\ call'[c].state \in {"resolved", "awaiting"}
      /\ Offered' = others \/ Offered' = others \cup {new}
  BY PublishNextEffect
<1>2. /\ new.chunk.call = c /\ new.chunk.from = offset /\ ~new.sent
  OBVIOUS
<1>3. Taken' = Taken
  BY DEF Taken
<1>4. TakenFits /\ SentIsTaken /\ FollowsOn /\ ComesAfter
  BY DEF InTurn
<1> HIDE DEF new
<1>5. TakenFits'
  <2> SUFFICES ASSUME NEW m \in Taken
               PROVE  /\ call'[m.call].state \in Accepted
                      /\ m = Piece(m.call, m.from)'
                      /\ m.from < m.to
    BY <1>3 DEF TakenFits
  <2>1. m.call \in Calls
    BY ElementTypes
  <2>2. call'[m.call].length = call[m.call].length
    BY <1>1, <2>1
  <2>3. call'[m.call].state \in Accepted
    BY <1>1, <1>4, <2>1 DEF TakenFits, Accepted
  <2> QED
    BY <1>4, <2>2, <2>3 DEF TakenFits, Piece
<1>6. \A n \in Offered' : n \in others \/ n = new
  BY <1>1
<1>7. SentIsTaken' /\ FollowsOn' /\ ComesAfter'
  BY <1>2, <1>3, <1>4, <1>6 DEF SentIsTaken, FollowsOn, ComesAfter
<1> QED
  BY <1>5, <1>7 DEF InTurn

\* A failure changes the state of one call, not what was taken of it.
LEMMA FailureInTurn ==
    ASSUME TypeOK, InTurn, NEW c \in Calls, NEW r \in Call,
           Offered' \subseteq Offered, topic' = topic, call' = [call EXCEPT ![c] = r],
           \A t \in Taken : t.call = c => r.length = call[c].length /\ r.state \in Accepted
    PROVE  InTurn'
<1>1. /\ \A d \in Calls \ {c} : call'[d] = call[d]
      /\ call'[c] = r
  BY DEF TypeOK
<1>2. Taken' = Taken
  BY DEF Taken
<1>3. TakenFits'
  BY <1>1, <1>2, ElementTypes DEF InTurn, TakenFits, Piece
<1> QED
  BY <1>2, <1>3 DEF InTurn, SentIsTaken, FollowsOn, ComesAfter

\* A message that is sent adds its chunk to what the broker has taken.
LEMMA SendEffect ==
    ASSUME TypeOK, NEW i \in DOMAIN outbox, Send(i)
    PROVE  /\ call' = call
           /\ \A n \in Offered' : \E o \in Offered : o.chunk = n.chunk /\ (n.sent => o.sent \/ o = outbox[i])
           /\ Taken' = Taken \cup {outbox[i].chunk}
<1>1. /\ outbox' = [outbox EXCEPT ![i].sent = TRUE]
      /\ topic' = Append(topic, outbox[i].chunk) /\ call' = call
  BY DEF Send
<1>2. outbox[i] \in Message /\ outbox \in Seq(Message) /\ topic \in Seq(Chunk)
  BY ElementOfSeq DEF TypeOK
<1>3. outbox[i].chunk \in Chunk
  BY <1>2 DEF Message
<1>4. Taken' = Taken \cup {outbox[i].chunk}
  <2>1. Append(topic, outbox[i].chunk) \in Seq(Chunk)
    BY <1>2, <1>3
  <2>2. /\ DOMAIN topic = 1 .. Len(topic) /\ DOMAIN topic' = 1 .. Len(topic) + 1
        /\ \A k \in 1 .. Len(topic) : topic'[k] = topic[k] /\ k \in 1 .. Len(topic) + 1
        /\ topic'[Len(topic) + 1] = outbox[i].chunk /\ Len(topic) + 1 \in 1 .. Len(topic) + 1
        /\ \A k \in 1 .. Len(topic) + 1 : k \in 1 .. Len(topic) \/ k = Len(topic) + 1
    BY <1>1, <1>2, <1>3
  <2>3. Taken' \subseteq Taken \cup {outbox[i].chunk}
    BY <2>2 DEF Taken, ToSet
  <2>4. Taken \cup {outbox[i].chunk} \subseteq Taken'
    BY <2>2 DEF Taken, ToSet
  <2> QED
    BY <2>3, <2>4
<1>5. ASSUME NEW n \in Offered'
      PROVE  \E o \in Offered : o.chunk = n.chunk /\ (n.sent => o.sent \/ o = outbox[i])
  <2>1. PICK k \in DOMAIN outbox' : n = outbox'[k]
    BY DEF Offered, ToSet
  <2>2. k \in DOMAIN outbox /\ outbox[k] \in Offered
    BY <1>1, <2>1 DEF Offered, ToSet
  <2>3. outbox[k].chunk = n.chunk /\ (n.sent => outbox[k].sent \/ outbox[k] = outbox[i])
    BY <1>1, <1>2, <2>1, <2>2 DEF Message
  <2> QED
    BY <2>2, <2>3
<1> QED
  BY <1>1, <1>4, <1>5

\* When the connection is lost every chunk remains offered, and none is sent.
LEMMA CloseEffect ==
    ASSUME TypeOK, CloseEvent
    PROVE  \A n \in Offered' : ~n.sent /\ \E o \in Offered : o.chunk = n.chunk
<1> SUFFICES ASSUME NEW n \in Offered'
             PROVE  ~n.sent /\ \E o \in Offered : o.chunk = n.chunk
  OBVIOUS
<1>1. outbox' = [k \in DOMAIN outbox |-> [outbox[k] EXCEPT !.sent = FALSE]]
  BY DEF CloseEvent
<1>2. PICK k \in DOMAIN outbox : n = [outbox[k] EXCEPT !.sent = FALSE]
  BY <1>1 DEF Offered, ToSet
<1>3. outbox[k] \in Message /\ outbox[k] \in Offered
  BY ElementOfSeq DEF TypeOK, Offered, ToSet
<1>4. ~n.sent /\ outbox[k].chunk = n.chunk
  BY <1>2, <1>3 DEF Message
<1> QED
  BY <1>3, <1>4

\* The message that is acknowledged ends what the broker has taken of its call.
LEMMA AcknowledgedIsLast ==
    ASSUME TypeOK, Awaited, InTurn, NEW i \in DOMAIN outbox, outbox[i].sent
    PROVE  /\ outbox[i].chunk \in Taken
           /\ \A t \in Taken : t.call = outbox[i].chunk.call => t.to <= outbox[i].chunk.to
<1>1. /\ outbox[i] \in Offered
      /\ outbox[i].chunk.from < outbox[i].chunk.to
      /\ outbox[i].chunk.from \in Nat /\ outbox[i].chunk.to \in Nat
  BY CallOfMessage, ElementTypes, PublishAssumption DEF Awaited, OfferedFits, Lengths
<1>2. \A t \in Taken : t.to \in Nat
  BY ElementTypes, PublishAssumption DEF Lengths
<1> QED
  BY <1>1, <1>2 DEF InTurn, SentIsTaken, ComesAfter

\* Every step keeps the order.
LEMMA NextInTurn ==
    ASSUME TypeOK, Awaited, InTurn, [Next]_vars
    PROVE  InTurn'
<1>1. ASSUME NEW c \in Calls, NEW length \in Lengths, Publish(c, length)
      PROVE  InTurn'
  <2>1. /\ publishNext(c, length, 0, outbox) /\ call[c].state = "new"
        /\ topic' = topic /\ 0 \in Lengths
    BY <1>1, PublishAssumption DEF Publish, Lengths
  <2>2. OthersThan(c, outbox)
    BY <2>1, OthersWhenNew
  <2>3. \A t \in Taken : t.call # c
    BY <2>1 DEF InTurn, TakenFits, Accepted
  <2> QED
    BY <2>1, <2>2, <2>3, PublishNextInTurn
<1>2. ASSUME NEW c \in Calls, NEW length \in Lengths, Refuse(c, length)
      PROVE  InTurn'
  <2> DEFINE r == [call[c] EXCEPT !.state = "refused", !.length = length]
  <2>1. /\ call' = [call EXCEPT ![c] = r] /\ outbox' = outbox /\ topic' = topic
        /\ call[c].state = "new"
    BY <1>2 DEF Refuse
  <2>2. r \in Call
    BY ElementTypes DEF Call, State
  <2>3. \A t \in Taken : t.call # c
    BY <2>1 DEF InTurn, TakenFits, Accepted
  <2>4. Offered' \subseteq Offered
    BY <2>1 DEF Offered
  <2> HIDE DEF r
  <2> QED
    BY <2>1, <2>2, <2>3, <2>4, FailureInTurn
<1>3. ASSUME NEW i \in DOMAIN outbox, Acknowledge(i)
      PROVE  InTurn'
  <2> DEFINE m == outbox[i].chunk
             c == m.call
             box == RemoveAt(outbox, i)
  <2>1. /\ publishNext(c, call[c].length, call[c].offset, box)
        /\ topic' = topic /\ outbox[i].sent
    BY <1>3 DEF Acknowledge
  <2>2. /\ c \in Calls /\ call[c].length \in Lengths
        /\ call[c].offset \in Lengths /\ call[c].offset = m.to
    BY CallOfMessage
  <2>3. OthersThan(c, box)
    BY OthersWhenRemoved
  <2>4. m \in Taken /\ \A t \in Taken : t.call = c => t.to <= m.to
    BY <2>1, AcknowledgedIsLast
  <2> HIDE DEF m, box
  <2>5. \E t \in Taken : t.call = c /\ t.to = call[c].offset
    BY <2>2, <2>4
  <2>6. \A t \in Taken : t.call = c => t.to <= call[c].offset
    BY <2>2, <2>4
  <2> HIDE DEF c
  <2> QED
    BY <2>1, <2>2, <2>3, <2>5, <2>6, PublishNextInTurn
<1>4. ASSUME NEW i \in DOMAIN outbox, Fail(i)
      PROVE  InTurn'
  <2> DEFINE c == outbox[i].chunk.call
             r == [call[c] EXCEPT !.state = "rejected"]
  <2>1. /\ call' = [call EXCEPT ![c] = r] /\ outbox' = RemoveAt(outbox, i)
        /\ topic' = topic
    BY <1>4 DEF Fail
  <2>2. c \in Calls
    BY CallOfMessage
  <2>3. Offered' \subseteq Offered
    BY <2>1, OthersWhenRemoved DEF OthersThan, Offered
  <2> HIDE DEF c
  <2>4. r \in Call /\ r.length = call[c].length /\ r.state \in Accepted
    BY <2>2, ElementTypes DEF Call, State, Accepted
  <2> HIDE DEF r
  <2> QED
    BY <2>1, <2>2, <2>3, <2>4, FailureInTurn
<1>5. ASSUME NEW i \in DOMAIN outbox, Send(i)
      PROVE  InTurn'
  <2> DEFINE m == outbox[i].chunk
  <2>1. /\ call' = call
        /\ \A n \in Offered' : \E o \in Offered : o.chunk = n.chunk
                                                  /\ (n.sent => o.sent \/ o = outbox[i])
        /\ Taken' = Taken \cup {m}
    BY <1>5, SendEffect
  <2>2. /\ outbox[i] \in Offered /\ call[m.call].state = "awaiting"
        /\ m = Piece(m.call, m.from) /\ m.from < m.to
    BY CallOfMessage DEF Awaited, OfferedFits
  <2>3. \A o \in Offered : o.chunk.call = m.call => o.chunk = m
    BY DEF Awaited, OneEach, Offered, ToSet
  <2> HIDE DEF m
  <2>4. TakenFits'
    BY <2>1, <2>2 DEF InTurn, TakenFits, Piece, Accepted
  <2>5. SentIsTaken'
    <3> SUFFICES ASSUME NEW n \in Offered', n.sent
                 PROVE  n.chunk \in Taken \cup {m}
      BY <2>1 DEF SentIsTaken
    <3>1. PICK o \in Offered : o.chunk = n.chunk /\ (o.sent \/ o = outbox[i])
      BY <2>1
    <3> QED
      BY <3>1 DEF m, InTurn, SentIsTaken
  <2>6. FollowsOn'
    BY <2>1 DEF InTurn, FollowsOn
  <2>7. ComesAfter'
    <3> SUFFICES ASSUME NEW n \in Offered', NEW t \in Taken', t.call = n.chunk.call
                 PROVE  t = n.chunk \/ t.to <= n.chunk.from
      BY DEF ComesAfter
    <3>1. PICK o \in Offered : o.chunk = n.chunk
      BY <2>1
    <3>2. CASE t = m
      BY <2>3, <3>1, <3>2
    <3>3. CASE t \in Taken
      BY <3>1, <3>3 DEF InTurn, ComesAfter
    <3> QED
      BY <2>1, <3>2, <3>3
  <2> QED
    BY <2>4, <2>5, <2>6, <2>7 DEF InTurn
<1>6. CASE CloseEvent
  <2>1. call' = call /\ topic' = topic
    BY <1>6 DEF CloseEvent
  <2>2. Taken' = Taken
    BY <2>1 DEF Taken
  <2>3. \A n \in Offered' : ~n.sent /\ \E o \in Offered : o.chunk = n.chunk
    BY <1>6, CloseEffect
  <2>4. TakenFits'
    BY <2>1, <2>2 DEF InTurn, TakenFits, Piece
  <2>5. SentIsTaken' /\ FollowsOn' /\ ComesAfter'
    BY <2>2, <2>3 DEF InTurn, SentIsTaken, FollowsOn, ComesAfter
  <2> QED
    BY <2>4, <2>5 DEF InTurn
<1>7. CASE Link \/ ConnectEvent \/ UNCHANGED vars
  <2>1. call' = call /\ outbox' = outbox /\ topic' = topic
    BY <1>7 DEF Link, ConnectEvent, vars
  <2> QED
    BY <2>1 DEF InTurn, TakenFits, SentIsTaken, FollowsOn, ComesAfter, Offered, Taken, Piece
<1> QED
  BY <1>1, <1>2, <1>3, <1>4, <1>5, <1>6, <1>7 DEF Next

\* The topic grows in order.
LEMMA NextTopicInOrder ==
    ASSUME TypeOK, InTurn, TopicInOrder, [Next]_vars
    PROVE  TopicInOrder'
<1>1. ASSUME NEW i \in DOMAIN outbox, topic' = Append(topic, outbox[i].chunk)
      PROVE  TopicInOrder'
  <2> DEFINE m == outbox[i].chunk
             last == Len(topic) + 1
  <2>1. outbox[i] \in Offered /\ m \in Chunk /\ topic \in Seq(Chunk)
    BY ElementTypes DEF TypeOK, Offered, ToSet
  <2>2. /\ DOMAIN topic = 1 .. Len(topic) /\ DOMAIN topic' = 1 .. last
        /\ \A k \in 1 .. Len(topic) : topic'[k] = topic[k] /\ topic[k] \in Taken
        /\ topic'[last] = m /\ Len(topic) \in Nat
    BY <1>1, <2>1 DEF Taken, ToSet
  <2>3. \A t \in Taken : \E k \in 1 .. Len(topic) : t = topic[k]
    BY <2>2 DEF Taken, ToSet
  <2>4. m.from = 0 \/ \E j \in 1 .. Len(topic) : topic[j].call = m.call /\ topic[j].to = m.from
    BY <2>1, <2>3 DEF InTurn, FollowsOn
  <2>5. \A j \in 1 .. Len(topic) : topic[j].call = m.call => topic[j] = m \/ topic[j].to <= m.from
    BY <2>1, <2>2 DEF InTurn, ComesAfter
  <2> HIDE DEF m
  <2>6. ASSUME NEW k \in DOMAIN topic'
        PROVE  \/ topic'[k].from = 0
               \/ \E j \in 1 .. k - 1 : topic'[j].call = topic'[k].call /\ topic'[j].to = topic'[k].from
    <3>1. CASE k = last
      <4>1. 1 .. k - 1 = 1 .. Len(topic)
        BY <2>2, <3>1
      <4> QED
        BY <2>2, <2>4, <3>1, <4>1
    <3>2. CASE k \in 1 .. Len(topic)
      <4>1. \A j \in 1 .. k - 1 : j \in 1 .. Len(topic)
        BY <3>2, <2>2
      <4>2. \/ topic[k].from = 0
            \/ \E j \in 1 .. k - 1 : topic[j].call = topic[k].call /\ topic[j].to = topic[k].from
        BY <2>2, <3>2 DEF TopicInOrder
      <4> QED
        BY <2>2, <3>2, <4>1, <4>2
    <3> QED
      BY <2>2, <3>1, <3>2
  <2>7. ASSUME NEW k \in DOMAIN topic', NEW l \in DOMAIN topic',
               k < l, topic'[k].call = topic'[l].call
        PROVE  topic'[k] = topic'[l] \/ topic'[k].to <= topic'[l].from
    <3>1. k \in 1 .. Len(topic)
      BY <2>2, <2>7
    <3>2. CASE l = last
      BY <2>2, <2>5, <2>7, <3>1, <3>2
    <3>3. CASE l \in 1 .. Len(topic)
      <4>1. topic[k] = topic[l] \/ topic[k].to <= topic[l].from
        BY <2>2, <2>7, <3>1, <3>3 DEF TopicInOrder
      <4> QED
        BY <2>2, <3>1, <3>3, <4>1
    <3> QED
      BY <2>2, <3>2, <3>3
  <2> QED
    BY <2>6, <2>7 DEF TopicInOrder
<1>2. CASE topic' = topic
  BY <1>2 DEF TopicInOrder
<1> QED
  BY <1>1, <1>2
  DEF Next, Publish, Refuse, Acknowledge, Fail, Send, Link, ConnectEvent, CloseEvent, vars

\* The messages of each call come in order, without a gap or an overlap, and none is
\* larger than a chunk, whatever the other calls do and however often the connection is
\* lost.
THEOREM PayloadsCanBeReassembled == Spec => []Reassembly
<1> DEFINE Inv == TypeOK /\ Awaited /\ InTurn /\ TopicInOrder
<1>1. Init => Inv
  <2> SUFFICES ASSUME Init PROVE Inv
    OBVIOUS
  <2>1. TypeOK /\ Awaited
    BY InitAwaited
  <2>2. outbox = <<>> /\ topic = <<>>
    BY DEF Init
  <2>3. Offered = {} /\ Taken = {}
    BY <2>2 DEF Offered, Taken, ToSet
  <2> QED
    BY <2>1, <2>2, <2>3 DEF InTurn, TakenFits, SentIsTaken, FollowsOn, ComesAfter, TopicInOrder
<1>2. Inv /\ [Next]_vars => Inv'
  BY NextAwaited, NextInTurn, NextTopicInOrder
<1>3. Inv => Reassembly
  <2> SUFFICES ASSUME Inv PROVE Reassembly
    OBVIOUS
  <2>1. ASSUME NEW i \in DOMAIN topic
        PROVE  /\ topic[i].from < topic[i].to
               /\ topic[i].to - topic[i].from <= ChunkSize(call[topic[i].call].length)
    <3> DEFINE m == topic[i]
               length == call[m.call].length
    <3>1. m \in Taken
      BY DEF Taken, ToSet
    <3>2. /\ m = Piece(m.call, m.from) /\ m.from < m.to
      BY <3>1 DEF InTurn, TakenFits
    <3>3. m.from \in Lengths /\ length \in Lengths
      BY <3>1, ElementTypes
    <3>4. m.to = NextOffset(m.from, length)
      BY <3>2 DEF Piece
    <3> HIDE DEF m, length
    <3>5. /\ m.to <= m.from + ChunkSize(length) /\ m.to \in Lengths
      BY <3>3, <3>4, NextOffsetProperties
    <3>6. m.to - m.from <= ChunkSize(length)
      BY <3>3, <3>5, ChunkSizeType, PublishAssumption DEF Lengths
    <3> QED
      BY <3>2, <3>6 DEF m, length
  <2> QED
    BY <2>1 DEF Reassembly, TopicInOrder
<1> QED
  BY <1>1, <1>2, <1>3, PTL DEF Spec

-----------------------------------------------------------------------------
(* All of the payload.                                                      *)

\* Where the chunk k of a call begins.
Start(c, k) == k * ChunkSize(call[c].length)

\* A chunk begins at a multiple of the chunk size.
OnBoundary ==
    \A m \in Taken \cup {n.chunk : n \in Offered} : \E k \in Nat : m.from = Start(m.call, k)

\* The broker has every chunk of c that begins before the byte end.
TakenUpTo(c, end) == \A k \in Nat : Start(c, k) < end => Piece(c, Start(c, k)) \in Taken

Complete ==
    /\ OnBoundary
    /\ \A n \in Offered : TakenUpTo(n.chunk.call, n.chunk.from)
    /\ \A c \in Calls : call[c].state = "resolved" => TakenUpTo(c, call[c].length)

\* The chunk size is a number, and so are the places where chunks begin.
LEMMA StartType ==
    ASSUME TypeOK, NEW c \in Calls
    PROVE  /\ ChunkSize(call[c].length) \in Nat
           /\ \A k \in Nat : /\ Start(c, k) \in Nat
                             /\ Start(c, k + 1) = Start(c, k) + ChunkSize(call[c].length)
<1>1. ChunkSize(call[c].length) \in Nat
  BY ElementTypes, ChunkSizeType
<1>2. \A n \in Nat : \A k \in Nat : k * n \in Nat /\ (k + 1) * n = k * n + n
  OBVIOUS
<1> QED
  BY <1>1, <1>2 DEF Start

\* When a chunk is taken and all that begins before it, all is taken that begins before
\* the end of the chunk.
LEMMA TakenToItsEnd ==
    ASSUME TypeOK, NEW m \in Taken, m = Piece(m.call, m.from),
           NEW k \in Nat, m.from = Start(m.call, k), TakenUpTo(m.call, m.from)
    PROVE  /\ TakenUpTo(m.call, m.to)
           /\ m.to < call[m.call].length => m.to = Start(m.call, k + 1)
<1> DEFINE c == m.call
           length == call[m.call].length
           size == ChunkSize(length)
<1>1. /\ c \in Calls /\ length \in Lengths /\ m.from \in Lengths
      /\ length \in Nat /\ m.from \in Nat
  BY ElementTypes, PublishAssumption DEF Lengths
<1>2. m.to = NextOffset(m.from, length)
  BY DEF Piece
<1>3. /\ m.to \in Lengths /\ m.to <= m.from + size
      /\ m.to < length => m.to = m.from + size
  BY <1>1, <1>2, NextOffsetProperties
<1>4. size \in Nat /\ Start(c, k + 1) = m.from + size
  BY <1>1, StartType
<1>5. ASSUME NEW l \in Nat, Start(c, l) < m.to
      PROVE  Piece(c, Start(c, l)) \in Taken
  <2>1. Start(c, l) \in Nat /\ m.to \in Nat /\ Start(c, k + 1) \in Nat
    BY <1>1, <1>3, StartType, PublishAssumption DEF Lengths
  <2>2. l <= k
    <3> SUFFICES ASSUME k + 1 <= l PROVE FALSE
      OBVIOUS
    <3>1. Start(c, k + 1) <= Start(c, l)
      BY <1>4, TimesMonotonic DEF Start
    <3> QED
      BY <1>1, <1>3, <1>4, <1>5, <2>1, <3>1
  <2>3. CASE l = k
    BY <2>3
  <2>4. CASE l < k
    <3>1. Start(c, l + 1) <= Start(c, k)
      BY <1>4, <2>4, TimesMonotonic DEF Start
    <3>2. Start(c, l) <= m.from
      BY <1>1, <1>4, <2>1, <3>1, StartType
    <3>3. CASE Start(c, l) = m.from
      BY <3>3
    <3>4. CASE Start(c, l) < m.from
      BY <3>4 DEF TakenUpTo
    <3> QED
      BY <1>1, <2>1, <3>2, <3>3, <3>4
  <2> QED
    BY <2>2, <2>3, <2>4
<1> QED
  BY <1>3, <1>4, <1>5 DEF TakenUpTo

\* publishNext offers a chunk when all before it is taken, and resolves when all is.
LEMMA PublishNextComplete ==
    ASSUME TypeOK, Awaited, Complete,
           NEW c \in Calls, NEW length \in Lengths, NEW offset \in Lengths,
           NEW box, OthersThan(c, box), publishNext(c, length, offset, box), topic' = topic,
           \A t \in Taken : t.call = c => call[c].length = length,
           \A k \in Nat : k * ChunkSize(length) < offset =>
               [call |-> c, from |-> k * ChunkSize(length),
                to |-> NextOffset(k * ChunkSize(length), length)] \in Taken,
           offset < length => \E k \in Nat : offset = k * ChunkSize(length)
    PROVE  Complete'
<1> DEFINE others == {n \in Offered : n.chunk.call # c}
           to == NextOffset(offset, length)
           new == [chunk |-> [call |-> c, from |-> offset, to |-> to], sent |-> FALSE]
<1>1. /\ \A d \in Calls \ {c} : call'[d] = call[d]
      /\ call'[c].length = length
      /\ \/ offset >= length /\ Offered' = others
         \/ offset < length /\ call'[c].state = "awaiting" /\ Offered' = others \cup {new}
  BY PublishNextEffect
<1>2. new.chunk.call = c /\ new.chunk.from = offset
  OBVIOUS
<1> HIDE DEF new
<1>3. Taken' = Taken
  BY DEF Taken
<1>4. \A d \in Calls \ {c} : \A k : /\ Start(d, k)' = Start(d, k)
                                    /\ Piece(d, Start(d, k))' = Piece(d, Start(d, k))
  BY <1>1 DEF Start, Piece
<1>5. TakenUpTo(c, offset)'
  BY <1>1, <1>3 DEF TakenUpTo, Start, Piece
<1>6. \A n \in Offered : n.chunk.call \in Calls
  BY ElementTypes
<1>7. ASSUME NEW d \in Calls \ {c}, NEW end, TakenUpTo(d, end)
      PROVE  \A k \in Nat : Start(d, k)' < end => Piece(d, Start(d, k))' \in Taken'
  BY <1>3, <1>4, <1>7 DEF TakenUpTo
<1>8. OnBoundary'
  <2>1. ASSUME NEW m \in Taken
        PROVE  \E k \in Nat : m.from = Start(m.call, k)'
    <3>1. PICK k \in Nat : m.from = Start(m.call, k)
      BY DEF Complete, OnBoundary
    <3>2. m.call \in Calls /\ call'[m.call].length = call[m.call].length
      BY <1>1, ElementTypes
    <3> QED
      BY <3>1, <3>2 DEF Start
  <2>2. ASSUME NEW n \in others
        PROVE  \E k \in Nat : n.chunk.from = Start(n.chunk.call, k)'
    <3>1. PICK k \in Nat : n.chunk.from = Start(n.chunk.call, k)
      BY DEF Complete, OnBoundary
    <3> QED
      BY <1>4, <1>6, <3>1
  <2>3. offset < length => \E k \in Nat : new.chunk.from = Start(c, k)'
    BY <1>1, <1>2 DEF Start
  <2>4. \A n \in Offered' : n \in others \/ (n = new /\ offset < length)
    BY <1>1
  <2> QED
    BY <1>2, <1>3, <2>1, <2>2, <2>3, <2>4 DEF OnBoundary
<1>9. ASSUME NEW n \in Offered'
      PROVE  TakenUpTo(n.chunk.call, n.chunk.from)'
  <2>1. CASE n = new
    BY <1>2, <1>5, <2>1
  <2>2. CASE n \in others
    <3>1. TakenUpTo(n.chunk.call, n.chunk.from) /\ n.chunk.call \in Calls \ {c}
      BY <1>6, <2>2 DEF Complete
    <3> QED
      BY <1>7, <3>1 DEF TakenUpTo
  <2> QED
    BY <1>1, <2>1, <2>2
<1>10. ASSUME NEW d \in Calls, call'[d].state = "resolved"
       PROVE  TakenUpTo(d, call[d].length)'
  <2>1. CASE d = c
    <3>1. offset >= length
      BY <1>1, <1>10, <2>1
    <3>2. \A k \in Nat : Start(c, k)' < length => Start(c, k)' < offset
      <4>1. \A k \in Nat : Start(c, k)' \in Int
        BY <1>1, ChunkSizeType DEF Start
      <4> QED
        BY <3>1, <4>1, PublishAssumption DEF Lengths
    <3> QED
      BY <1>1, <1>5, <2>1, <3>2 DEF TakenUpTo
  <2>2. CASE d # c
    <3>1. TakenUpTo(d, call[d].length) /\ d \in Calls \ {c} /\ call'[d] = call[d]
      BY <1>1, <1>10, <2>2 DEF Complete
    <3> QED
      BY <1>7, <3>1 DEF TakenUpTo
  <2> QED
    BY <2>1, <2>2
<1> QED
  BY <1>8, <1>9, <1>10 DEF Complete

\* Complete is about the chunks, and about the calls that are not new.
LEMMA CompleteByChunks ==
    ASSUME TypeOK, Awaited, InTurn, Complete, Taken \subseteq Taken',
           \A m \in Taken' : m \in Taken \/ \E o \in Offered : m = o.chunk,
           \A n \in Offered' : \E o \in Offered : o.chunk = n.chunk,
           \A d \in Calls : \/ call'[d].length = call[d].length
                            \/ call[d].state = "new",
           \A d \in Calls : call'[d].state = "resolved" => call'[d] = call[d]
    PROVE  Complete'
<1>1. \A m \in Taken : m.call \in Calls /\ call[m.call].state # "new"
  BY ElementTypes DEF InTurn, TakenFits, Accepted
<1>2. \A n \in Offered : n.chunk.call \in Calls /\ call[n.chunk.call].state # "new"
  BY ElementTypes DEF Awaited, OfferedFits
<1>3. \A d \in Calls : call'[d].length = call[d].length =>
         \A k : Start(d, k)' = Start(d, k) /\ Piece(d, Start(d, k))' = Piece(d, Start(d, k))
  BY DEF Start, Piece
<1>4. ASSUME NEW d \in Calls, call'[d].length = call[d].length, NEW end, TakenUpTo(d, end)
      PROVE  \A k \in Nat : Start(d, k)' < end => Piece(d, Start(d, k))' \in Taken'
  BY <1>3, <1>4 DEF TakenUpTo
<1>5. ASSUME NEW m \in Taken \cup {o.chunk : o \in Offered}
      PROVE  \E k \in Nat : m.from = Start(m.call, k)'
  <2>1. PICK k \in Nat : m.from = Start(m.call, k)
    BY DEF Complete, OnBoundary
  <2>2. m.call \in Calls /\ call'[m.call].length = call[m.call].length
    BY <1>1, <1>2
  <2> QED
    BY <1>3, <2>1, <2>2
<1>6. OnBoundary'
  <2>1. \A m \in Taken' \cup {n.chunk : n \in Offered'} : m \in Taken \cup {o.chunk : o \in Offered}
    OBVIOUS
  <2> QED
    BY <1>5, <2>1 DEF OnBoundary
<1>7. ASSUME NEW n \in Offered'
      PROVE  TakenUpTo(n.chunk.call, n.chunk.from)'
  <2>1. PICK o \in Offered : o.chunk = n.chunk
    OBVIOUS
  <2>2. TakenUpTo(n.chunk.call, n.chunk.from)
    BY <2>1 DEF Complete
  <2> QED
    BY <1>2, <1>4, <2>1, <2>2 DEF TakenUpTo
<1>8. ASSUME NEW d \in Calls, call'[d].state = "resolved"
      PROVE  TakenUpTo(d, call[d].length)'
  <2>1. call'[d] = call[d] /\ TakenUpTo(d, call[d].length)
    BY <1>8 DEF Complete
  <2> QED
    BY <1>4, <2>1 DEF TakenUpTo
<1> QED
  BY <1>6, <1>7, <1>8 DEF Complete

\* Every step keeps that what was offered, or resolved, lacks nothing before it.
LEMMA NextComplete ==
    ASSUME TypeOK, Awaited, InTurn, Complete, [Next]_vars
    PROVE  Complete'
<1>1. ASSUME NEW c \in Calls, NEW length \in Lengths, Publish(c, length)
      PROVE  Complete'
  <2>1. /\ publishNext(c, length, 0, outbox) /\ call[c].state = "new"
        /\ topic' = topic /\ 0 \in Lengths
    BY <1>1, PublishAssumption DEF Publish, Lengths
  <2>2. OthersThan(c, outbox)
    BY <2>1, OthersWhenNew
  <2>3. \A t \in Taken : t.call # c
    BY <2>1 DEF InTurn, TakenFits, Accepted
  <2>4. ChunkSize(length) \in Nat
    BY ChunkSizeType
  <2>5. \A n \in Nat : \A k \in Nat : ~(k * n < 0)
    OBVIOUS
  <2>6. 0 = 0 * ChunkSize(length)
    BY <2>4
  <2> QED
    BY <2>1, <2>2, <2>3, <2>4, <2>5, <2>6, PublishNextComplete
<1>2. ASSUME NEW c \in Calls, NEW length \in Lengths, Refuse(c, length)
      PROVE  Complete'
  <2>1. /\ call' = [call EXCEPT ![c].state = "refused", ![c].length = length]
        /\ outbox' = outbox /\ topic' = topic /\ call[c].state = "new"
    BY <1>2 DEF Refuse
  <2>2. /\ \A d \in Calls \ {c} : call'[d] = call[d]
        /\ call'[c].state = "refused"
    BY <2>1 DEF TypeOK, Call
  <2>3. Offered' = Offered /\ Taken' = Taken
    BY <2>1 DEF Offered, Taken
  <2> QED
    BY <2>1, <2>2, <2>3, CompleteByChunks
<1>3. ASSUME NEW i \in DOMAIN outbox, Acknowledge(i)
      PROVE  Complete'
  <2> DEFINE m == outbox[i].chunk
             c == m.call
             length == call[c].length
             box == RemoveAt(outbox, i)
  <2>1. /\ publishNext(c, length, call[c].offset, box)
        /\ topic' = topic /\ outbox[i].sent
    BY <1>3 DEF Acknowledge
  <2>2. /\ c \in Calls /\ length \in Lengths /\ outbox[i] \in Offered
        /\ call[c].offset \in Lengths /\ call[c].offset = m.to
    BY CallOfMessage
  <2>3. OthersThan(c, box)
    BY OthersWhenRemoved
  <2>4. m \in Taken
    BY <2>1, AcknowledgedIsLast
  <2>5. m = Piece(m.call, m.from)
    BY <2>4 DEF InTurn, TakenFits
  <2>6. TakenUpTo(m.call, m.from)
    BY <2>2 DEF Complete
  <2>7. PICK k \in Nat : m.from = Start(m.call, k)
    BY <2>4 DEF Complete, OnBoundary
  <2> HIDE DEF m, box
  <2>8. TakenUpTo(c, m.to) /\ (m.to < length => m.to = Start(c, k + 1))
    BY <2>4, <2>5, <2>6, <2>7, TakenToItsEnd
  <2>9. \A l \in Nat : l * ChunkSize(length) < call[c].offset =>
               [call |-> c, from |-> l * ChunkSize(length),
                to |-> NextOffset(l * ChunkSize(length), length)] \in Taken
    BY <2>2, <2>8 DEF TakenUpTo, Start, Piece
  <2>10. call[c].offset < length => \E l \in Nat : call[c].offset = l * ChunkSize(length)
    BY <2>2, <2>7, <2>8 DEF Start
  <2>11. \A t \in Taken : t.call = c => call[c].length = length
    OBVIOUS
  <2> HIDE DEF c, length
  <2> QED
    BY <2>1, <2>2, <2>3, <2>9, <2>10, <2>11, PublishNextComplete
<1>4. ASSUME NEW i \in DOMAIN outbox, Fail(i)
      PROVE  Complete'
  <2> DEFINE c == outbox[i].chunk.call
  <2>1. /\ call' = [call EXCEPT ![c].state = "rejected"] /\ outbox' = RemoveAt(outbox, i)
        /\ topic' = topic
    BY <1>4 DEF Fail
  <2>2. c \in Calls
    BY CallOfMessage
  <2>3. Offered' \subseteq Offered /\ Taken' = Taken
    BY <2>1, OthersWhenRemoved DEF OthersThan, Offered, Taken
  <2> HIDE DEF c
  <2>4. /\ \A d \in Calls \ {c} : call'[d] = call[d]
        /\ call'[c].state = "rejected" /\ call'[c].length = call[c].length
    BY <2>1, <2>2 DEF TypeOK, Call
  <2> QED
    BY <2>3, <2>4, CompleteByChunks
<1>5. ASSUME NEW i \in DOMAIN outbox, Send(i)
      PROVE  Complete'
  <2>1. /\ call' = call
        /\ \A n \in Offered' : \E o \in Offered : o.chunk = n.chunk
        /\ Taken' = Taken \cup {outbox[i].chunk}
    BY <1>5, SendEffect
  <2>2. outbox[i] \in Offered
    BY CallOfMessage
  <2> QED
    BY <2>1, <2>2, CompleteByChunks
<1>6. CASE CloseEvent
  <2>1. call' = call /\ topic' = topic
    BY <1>6 DEF CloseEvent
  <2>2. Taken' = Taken
    BY <2>1 DEF Taken
  <2>3. \A n \in Offered' : \E o \in Offered : o.chunk = n.chunk
    BY <1>6, CloseEffect
  <2> QED
    BY <2>1, <2>2, <2>3, CompleteByChunks
<1>7. CASE Link \/ ConnectEvent \/ UNCHANGED vars
  <2>1. call' = call /\ outbox' = outbox /\ topic' = topic
    BY <1>7 DEF Link, ConnectEvent, vars
  <2>2. Offered' = Offered /\ Taken' = Taken
    BY <2>1 DEF Offered, Taken
  <2> QED
    BY <2>1, <2>2, CompleteByChunks
<1> QED
  BY <1>1, <1>2, <1>3, <1>4, <1>5, <1>6, <1>7 DEF Next

\* How many chunks there are: the last begins before the end of the payload and no
\* other one would.
LEMMA ChunkCount ==
    ASSUME NEW length \in Lengths, length > 0
    PROVE  /\ Chunks(length) \in Nat \ {0}
           /\ (Chunks(length) - 1) * ChunkSize(length) < length
           /\ length <= Chunks(length) * ChunkSize(length)
<1> DEFINE size == ChunkSize(length)
           n == (length + size - 1) \div size
<1>1. length \in Nat /\ size \in Nat \ {0}
  BY ChunkSizeType, PublishAssumption DEF Lengths
<1>2. Chunks(length) = n
  BY <1>1 DEF Chunks
<1> HIDE DEF size
<1>3. length + size - 1 \in Nat
  BY <1>1
<1>4. /\ n \in Nat /\ n * size <= length + size - 1
      /\ length + size - 1 < n * size + size
  BY <1>1, <1>3, Quotient
<1> HIDE DEF n
<1>5. n # 0
  <2> SUFFICES ASSUME n = 0 PROVE FALSE
    OBVIOUS
  <2>1. n * size = 0
    BY <1>1
  <2> QED
    BY <1>1, <1>4, <2>1
<1>6. n * size \in Nat /\ (n - 1) * size = n * size - size
  BY <1>1, <1>4
<1>7. (n - 1) * size < length /\ length <= n * size
  BY <1>1, <1>4, <1>6
<1> QED
  BY <1>2, <1>4, <1>5, <1>7 DEF size

\* A call that resolved has put as many messages on the topic as it reports.
LEMMA AllChunksTaken ==
    ASSUME TypeOK, Awaited, InTurn, Complete,
           NEW c \in Calls, call[c].state = "resolved", call[c].length > 0
    PROVE  LET mine == {m \in Taken : m.call = c}
           IN  /\ \E m \in mine : m.to = call[c].length
               /\ Cardinality(mine) = call[c].chunks
<1> DEFINE length == call[c].length
           size == ChunkSize(length)
           n == Chunks(length)
           mine == {m \in Taken : m.call = c}
           piece == [k \in 1 .. n |-> Piece(c, Start(c, k - 1))]
<1>1. length \in Lengths /\ length \in Nat /\ size \in Nat \ {0}
  BY ElementTypes, ChunkSizeType, PublishAssumption DEF Lengths
<1>2. n \in Nat \ {0} /\ (n - 1) * size < length /\ length <= n * size
  BY <1>1, ChunkCount
<1>3. call[c].chunks = n
  BY DEF Awaited, ChunksCounted, Accepted
<1>4. \A k \in Nat : Start(c, k) = k * size /\ Start(c, k) \in Nat
  BY StartType DEF Start
<1>5. TakenUpTo(c, length)
  BY DEF Complete
<1> HIDE DEF n
<1>6. ASSUME NEW k \in 1 .. n
      PROVE  /\ k - 1 \in Nat /\ Start(c, k - 1) < length
             /\ piece[k] \in mine /\ piece[k].from = Start(c, k - 1)
  <2>1. k - 1 \in Nat /\ k - 1 <= n - 1 /\ n - 1 \in Nat
    BY <1>2
  <2>2. (k - 1) * size <= (n - 1) * size
    BY <1>1, <2>1, TimesMonotonic
  <2>3. Start(c, k - 1) < length
    BY <1>1, <1>2, <1>4, <2>1, <2>2
  <2>4. Piece(c, Start(c, k - 1)) \in Taken
    BY <1>5, <2>1, <2>3 DEF TakenUpTo
  <2> QED
    BY <2>1, <2>3, <2>4 DEF Piece
<1>7. ASSUME NEW m \in mine
      PROVE  \E k \in 1 .. n : piece[k] = m
  <2>1. PICK k \in Nat : m.from = Start(c, k)
    BY DEF Complete, OnBoundary
  <2>2. /\ m = Piece(c, m.from) /\ m.from < m.to
        /\ m.from \in Nat /\ m.to \in Nat
    BY ElementTypes, PublishAssumption DEF InTurn, TakenFits, Lengths
  <2>3. m.to <= length
    <3>1. m.to = NextOffset(m.from, length) /\ m.from \in Lengths
      BY <2>2, ElementTypes DEF Piece
    <3> QED
      BY <1>1, <3>1, NextOffsetProperties
  <2>4. k < n
    <3> SUFFICES ASSUME n <= k PROVE FALSE
      BY <1>2
    <3>1. n * size <= k * size
      BY <1>1, <1>2, TimesMonotonic
    <3> QED
      BY <1>1, <1>2, <1>4, <2>1, <2>2, <2>3, <3>1
  <2>5. k + 1 \in 1 .. n /\ k + 1 - 1 = k
    BY <1>2, <2>4
  <2> QED
    BY <2>1, <2>2, <2>5
<1>8. ASSUME NEW k \in 1 .. n, NEW l \in 1 .. n, k < l
      PROVE  piece[k].from < piece[l].from
  <2>1. k - 1 \in Nat /\ l - 1 \in Nat /\ k <= l - 1 /\ k \in Nat
    BY <1>2, <1>8
  <2>2. k * size <= (l - 1) * size
    BY <1>1, <2>1, TimesMonotonic
  <2>3. Start(c, k - 1) + size = Start(c, k)
    <3>1. k - 1 + 1 = k
      BY <2>1
    <3> QED
      BY <2>1, <3>1, StartType
  <2> QED
    BY <1>1, <1>4, <1>6, <2>1, <2>2, <2>3
<1>9. Cardinality(mine) = n
  <2>1. piece \in Bijection(1 .. n, mine)
    <3>1. piece \in [1 .. n -> mine]
      BY <1>6
    <3>2. \A k, l \in 1 .. n : piece[k] = piece[l] => k = l
      <4> SUFFICES ASSUME NEW k \in 1 .. n, NEW l \in 1 .. n, k # l
                   PROVE  piece[k].from # piece[l].from
        OBVIOUS
      <4>1. piece[k].from \in Nat /\ piece[l].from \in Nat
        BY <1>4, <1>6
      <4> HIDE DEF piece
      <4>2. k < l \/ l < k
        BY <1>2
      <4> QED
        BY <1>8, <4>1, <4>2
    <3> HIDE DEF piece
    <3> QED
      BY <1>7, <3>1, <3>2 DEF Bijection, Injection, Surjection, IsInjective
  <2>2. ExistsBijection(1 .. n, mine)
    BY <2>1 DEF ExistsBijection
  <2> QED
    BY <1>2, <2>2, FS_CountingElements
<1>10. \E m \in mine : m.to = length
  <2>1. n \in 1 .. n /\ n - 1 \in Nat
    BY <1>2
  <2>2. piece[n].to = NextOffset(Start(c, n - 1), length)
    BY <2>1 DEF Piece
  <2>3. (n - 1) * size + size = n * size
    BY <1>1, <1>2
  <2>4. Start(c, n - 1) + size >= length
    BY <1>1, <1>2, <1>4, <2>1, <2>3
  <2>5. NextOffset(Start(c, n - 1), length) = length
    BY <1>1, <1>4, <2>1, <2>4 DEF NextOffset
  <2> QED
    BY <1>6, <2>1, <2>2, <2>5
<1> QED
  BY <1>3, <1>9, <1>10

\* A call that resolved has put its whole payload on the topic, in as many messages as
\* it reports.
THEOREM ResolvedPayloadsAreComplete == Spec => []ResolvedIsComplete
<1> DEFINE Inv == TypeOK /\ Awaited /\ InTurn /\ Complete
<1>1. Init => Inv
  <2> SUFFICES ASSUME Init PROVE Inv
    OBVIOUS
  <2>1. TypeOK /\ Awaited
    BY InitAwaited
  <2>2. Offered = {} /\ Taken = {}
    BY DEF Init, Offered, Taken, ToSet
  <2>3. \A c \in Calls : call[c].state # "resolved"
    BY DEF Init
  <2> QED
    BY <2>1, <2>2, <2>3
    DEF InTurn, TakenFits, SentIsTaken, FollowsOn, ComesAfter, Complete, OnBoundary
<1>2. Inv /\ [Next]_vars => Inv'
  BY NextAwaited, NextInTurn, NextComplete
<1>3. Inv => ResolvedIsComplete
  BY AllChunksTaken DEF ResolvedIsComplete, Taken, ToSet
<1> QED
  BY <1>1, <1>2, <1>3, PTL DEF Spec
=============================================================================
