------------------------ MODULE ContextManagerProofs ------------------------
(***************************************************************************)
(* Proofs about ContextManagerProtocol, for every number of slots, every   *)
(* set of streams and every batch length.                                  *)
(***************************************************************************)
EXTENDS ContextManagerProtocol, SequenceTheorems, TLAPS

\* Head and tail of a nonempty sequence, element by element.
LEMMA HeadTail ==
    ASSUME NEW S, NEW s \in Seq(S), s # <<>>
    PROVE  /\ Tail(s) \in Seq(S)
           /\ Head(s) \in S
           /\ Len(s) \in Nat /\ Len(s) > 0 /\ Head(s) = s[1]
           /\ Len(Tail(s)) = Len(s) - 1
           /\ DOMAIN s = 1 .. Len(s)
           /\ DOMAIN Tail(s) = 1 .. Len(s) - 1
           /\ \A i \in 1 .. Len(s) - 1 : Tail(s)[i] = s[i + 1]
BY HeadTailProperties

\* The part of the invariant that is about the slot table alone.
TableInv ==
    /\ DOMAIN streamidx2slotidx \subseteq Streams
    /\ streamidx2slotidx \in [DOMAIN streamidx2slotidx -> Slots]
    /\ DOMAIN slotidx2streamidx \subseteq Slots
    /\ slotidx2streamidx \in [DOMAIN slotidx2streamidx -> Streams]
    /\ free_slots \in Seq(Slots)
    /\ DictsInverse
    /\ QueueHoldsTheRest

\* get_context: giving the first free slot to a stream that has none keeps the
\* dictionaries inverse and the queue exact.
LEMMA AssignKeepsTable ==
    ASSUME TableInv, NEW sid \in Streams, AssignSlot(sid)
    PROVE  TableInv'
<1>1. CASE Known(sid)
  BY <1>1 DEF TableInv, AssignSlot, DictsInverse, QueueHoldsTheRest
<1>2. CASE ~Known(sid)
  <2> DEFINE h == Head(free_slots)
  <2>1. /\ free_slots # <<>>
        /\ streamidx2slotidx' = Put(streamidx2slotidx, sid, h)
        /\ slotidx2streamidx' = Put(slotidx2streamidx, h, sid)
        /\ free_slots' = Tail(free_slots)
    BY <1>2 DEF AssignSlot
  <2>2. /\ free_slots' \in Seq(Slots)
        /\ h \in Slots
        /\ Len(free_slots) \in Nat /\ Len(free_slots) > 0 /\ h = free_slots[1]
        /\ DOMAIN free_slots = 1 .. Len(free_slots)
        /\ DOMAIN free_slots' = 1 .. Len(free_slots) - 1
        /\ \A i \in 1 .. Len(free_slots) - 1 : free_slots'[i] = free_slots[i + 1]
    BY <2>1, HeadTail DEF TableInv
  <2>3. h \notin DOMAIN slotidx2streamidx
    BY <2>2 DEF TableInv, QueueHoldsTheRest
  <2>4. DictsInverse'
    BY <1>2, <2>1, <2>3 DEF TableInv, DictsInverse, Put, Known
  <2>5. QueueHoldsTheRest'
    <3>1. \A i, j \in DOMAIN free_slots' : free_slots'[i] = free_slots'[j] => i = j
      <4> SUFFICES ASSUME NEW i \in DOMAIN free_slots', NEW j \in DOMAIN free_slots',
                          free_slots'[i] = free_slots'[j]
                   PROVE  i = j
        OBVIOUS
      <4>1. /\ i \in Nat /\ j \in Nat
            /\ i + 1 \in DOMAIN free_slots /\ j + 1 \in DOMAIN free_slots
            /\ free_slots[i + 1] = free_slots[j + 1]
        BY <2>2
      <4>2. i + 1 = j + 1
        BY <4>1 DEF TableInv, QueueHoldsTheRest
      <4> QED
        BY <4>1, <4>2
    <3>2. ASSUME NEW s \in Slots
          PROVE  s \in DOMAIN slotidx2streamidx' <=> \A i \in DOMAIN free_slots' : free_slots'[i] # s
      <4>1. s \in DOMAIN slotidx2streamidx' <=> s \in DOMAIN slotidx2streamidx \/ s = h
        BY <2>1 DEF Put
      <4>2. s \in DOMAIN slotidx2streamidx <=> \A i \in DOMAIN free_slots : free_slots[i] # s
        BY DEF TableInv, QueueHoldsTheRest
      <4>3. CASE s = h
        <5>1. ASSUME NEW i \in DOMAIN free_slots', free_slots'[i] = h PROVE FALSE
          <6>1. i \in Nat /\ i >= 1 /\ i + 1 \in DOMAIN free_slots /\ 1 \in DOMAIN free_slots
            BY <2>2
          <6>2. free_slots[i + 1] = free_slots[1]
            BY <2>2, <5>1
          <6>3. i + 1 = 1
            BY <6>1, <6>2 DEF TableInv, QueueHoldsTheRest
          <6> QED
            BY <6>1, <6>3
        <5> QED
          BY <4>1, <4>3, <5>1
      <4>4. CASE s # h
        <5>1. ASSUME NEW i \in DOMAIN free_slots, free_slots[i] = s
              PROVE  \E k \in DOMAIN free_slots' : free_slots'[k] = s
          <6>1. i \in Nat /\ i # 1 /\ i - 1 \in 1 .. Len(free_slots) - 1
            BY <2>2, <4>4, <5>1
          <6>2. free_slots'[i - 1] = free_slots[(i - 1) + 1] /\ (i - 1) + 1 = i
            BY <2>2, <6>1
          <6> QED
            BY <2>2, <5>1, <6>1, <6>2
        <5>2. ASSUME NEW k \in DOMAIN free_slots', free_slots'[k] = s
              PROVE  \E i \in DOMAIN free_slots : free_slots[i] = s
          BY <2>2, <5>2
        <5> QED
          BY <4>1, <4>2, <4>4, <5>1, <5>2
      <4> QED
        BY <4>3, <4>4
    <3> QED
      BY <3>1, <3>2 DEF QueueHoldsTheRest
  <2> QED
    BY <2>1, <2>2, <2>4, <2>5 DEF TableInv, Put
<1> QED
  BY <1>1, <1>2

\* _reset_slots: giving a held slot back keeps the dictionaries inverse and the
\* queue exact.
LEMMA FreeKeepsTable ==
    ASSUME TableInv, NEW sid \in Streams, Known(sid), FreeSlot(sid)
    PROVE  TableInv'
<1> DEFINE slot == streamidx2slotidx[sid]
<1>1. /\ free_slots' = Append(free_slots, slot)
      /\ slotidx2streamidx' = Delete(slotidx2streamidx, slot)
      /\ streamidx2slotidx' = Delete(streamidx2slotidx, slotidx2streamidx[slot])
  BY DEF FreeSlot
<1>2. /\ slot \in Slots
      /\ slot \in DOMAIN slotidx2streamidx
      /\ slotidx2streamidx[slot] = sid
  BY DEF TableInv, DictsInverse, Known
<1>3. /\ free_slots' \in Seq(Slots)
      /\ Len(free_slots) \in Nat
      /\ DOMAIN free_slots = 1 .. Len(free_slots)
      /\ DOMAIN free_slots' = 1 .. Len(free_slots) + 1
      /\ \A i \in 1 .. Len(free_slots) : free_slots'[i] = free_slots[i]
      /\ free_slots'[Len(free_slots) + 1] = slot
  BY <1>1, <1>2, AppendProperties DEF TableInv
<1>4. \A i \in DOMAIN free_slots : free_slots[i] # slot
  BY <1>2 DEF TableInv, QueueHoldsTheRest
<1>5. DictsInverse'
  BY <1>1, <1>2 DEF TableInv, DictsInverse, Delete
<1>6. QueueHoldsTheRest'
  BY <1>1, <1>2, <1>3, <1>4 DEF TableInv, QueueHoldsTheRest, Delete
<1> QED
  BY <1>1, <1>2, <1>3, <1>5, <1>6 DEF TableInv, Delete

-----------------------------------------------------------------------------
\* The streams a loop has left are the one it handles now and those after it.
LEMMA MembersTail ==
    ASSUME NEW s \in Seq(Streams), s # <<>>
    PROVE  /\ Head(s) \in Members(s)
           /\ Members(Tail(s)) \subseteq Members(s)
           /\ \A x \in Members(s) : x = Head(s) \/ x \in Members(Tail(s))
<1>1. /\ Len(s) \in Nat /\ Len(s) > 0 /\ Head(s) = s[1]
      /\ DOMAIN s = 1 .. Len(s)
      /\ DOMAIN Tail(s) = 1 .. Len(s) - 1
      /\ \A i \in 1 .. Len(s) - 1 : Tail(s)[i] = s[i + 1]
  BY HeadTail
<1>2. Head(s) \in Members(s)
  BY <1>1 DEF Members
<1>3. Members(Tail(s)) \subseteq Members(s)
  <2> SUFFICES ASSUME NEW i \in DOMAIN Tail(s) PROVE Tail(s)[i] \in Members(s)
    BY DEF Members
  <2>1. i + 1 \in DOMAIN s /\ Tail(s)[i] = s[i + 1]
    BY <1>1
  <2> QED
    BY <2>1 DEF Members
<1>4. ASSUME NEW i \in DOMAIN s, s[i] # Head(s) PROVE s[i] \in Members(Tail(s))
  <2>1. i \in Nat /\ i # 1 /\ i - 1 \in DOMAIN Tail(s) /\ (i - 1) + 1 = i
    BY <1>1, <1>4
  <2>2. Tail(s)[i - 1] = s[i]
    BY <1>1, <2>1
  <2> QED
    BY <2>1, <2>2 DEF Members
<1> QED
  BY <1>2, <1>3, <1>4 DEF Members

\* A loop over distinct streams handles each of them once.
LEMMA DistinctTail ==
    ASSUME NEW s \in Seq(Streams), s # <<>>,
           \A i, j \in DOMAIN s : s[i] = s[j] => i = j
    PROVE  /\ Head(s) \notin Members(Tail(s))
           /\ \A i, j \in DOMAIN Tail(s) : Tail(s)[i] = Tail(s)[j] => i = j
<1>1. /\ Len(s) \in Nat /\ Len(s) > 0 /\ Head(s) = s[1]
      /\ DOMAIN s = 1 .. Len(s)
      /\ DOMAIN Tail(s) = 1 .. Len(s) - 1
      /\ \A i \in 1 .. Len(s) - 1 : Tail(s)[i] = s[i + 1]
  BY HeadTail
<1>2. ASSUME NEW i \in DOMAIN Tail(s) PROVE Tail(s)[i] # Head(s)
  <2>1. i \in Nat /\ i >= 1 /\ i + 1 \in DOMAIN s /\ 1 \in DOMAIN s /\ Tail(s)[i] = s[i + 1]
    BY <1>1
  <2>2. i + 1 # 1
    BY <2>1
  <2> QED
    BY <1>1, <2>1, <2>2
<1>3. ASSUME NEW i \in DOMAIN Tail(s), NEW j \in DOMAIN Tail(s), Tail(s)[i] = Tail(s)[j]
      PROVE  i = j
  <2>1. /\ i \in Nat /\ j \in Nat
        /\ i + 1 \in DOMAIN s /\ j + 1 \in DOMAIN s /\ s[i + 1] = s[j + 1]
    BY <1>1, <1>3
  <2>2. i + 1 = j + 1
    BY <2>1
  <2> QED
    BY <2>1, <2>2
<1> QED
  BY <1>2, <1>3 DEF Members

\* Between steps the conjuncts about the batch say nothing.
LEMMA BackToCallerKeepsInv ==
    ASSUME IndInv, BackToCaller, UNCHANGED cmVars
    PROVE  IndInv'
<1>1. Members(<<>>) = {}
  BY DEF Members
<1>2. TypeOK'
  BY DEF IndInv, TypeOK, BackToCaller, cmVars
<1>3. DictsInverse' /\ QueueHoldsTheRest' /\ RowsPrivate'
  BY DEF IndInv, DictsInverse, QueueHoldsTheRest, RowsPrivate, cmVars
<1>4. ContextInBatchOrder' /\ StepInv'
  BY <1>1 DEF BackToCaller, ContextInBatchOrder, StepInv
<1> QED
  BY <1>2, <1>3, <1>4 DEF IndInv

\* IndInv holds of the table that reset() builds.
LEMMA InitInv == Init => IndInv
<1> SUFFICES ASSUME Init PROVE IndInv
  OBVIOUS
<1> USE SlotsAssumption, BatchesAssumption DEF Blank
<1>1. TypeOK
  BY DEF Init, CMInit, TypeOK, Slots, NoEntries
<1>2. QueueHoldsTheRest
  <2>1. \A i, j \in DOMAIN free_slots : free_slots[i] = free_slots[j] => i = j
    BY DEF Init, CMInit
  <2>2. ASSUME NEW s \in Slots PROVE \E i \in DOMAIN free_slots : free_slots[i] = s
    <3>1. s + 1 \in 1 .. num_slots /\ (s + 1) - 1 = s
      BY DEF Slots
    <3> QED
      BY <3>1 DEF Init, CMInit
  <2> QED
    BY <2>1, <2>2 DEF QueueHoldsTheRest, Init, CMInit, NoEntries
<1>3. DictsInverse /\ RowsPrivate
  BY DEF Init, CMInit, DictsInverse, RowsPrivate, NoEntries
<1>4. ContextInBatchOrder /\ StepInv
  BY DEF Init, ContextInBatchOrder, StepInv, Members
<1> QED
  BY <1>1, <1>2, <1>3, <1>4 DEF IndInv

\* A new batch of distinct streams.
LEMMA StartStepKeepsInv ==
    ASSUME IndInv, StartStep
    PROVE  IndInv'
<1>1. /\ stream_ids' \in Seq(Streams)
      /\ \A i, j \in DOMAIN stream_ids' : stream_ids'[i] = stream_ids'[j] => i = j
      /\ eos' \subseteq Members(stream_ids')
      /\ todo' = stream_ids'
      /\ pc' = "assign"
  BY DEF StartStep, Batches
<1>2. Members(stream_ids') \subseteq Streams
  BY <1>1 DEF Members
<1>3. TypeOK'
  BY <1>1, <1>2 DEF IndInv, TypeOK, StartStep, cmVars
<1>4. DictsInverse' /\ QueueHoldsTheRest' /\ RowsPrivate'
  BY DEF IndInv, DictsInverse, QueueHoldsTheRest, RowsPrivate, StartStep, cmVars
<1>5. ContextInBatchOrder' /\ StepInv'
  BY <1>1 DEF ContextInBatchOrder, StepInv, Members
<1> QED
  BY <1>3, <1>4, <1>5 DEF IndInv

\* One iteration of get_context's loop.
LEMMA AssignKeepsInv ==
    ASSUME IndInv, Assign
    PROVE  IndInv'
<1>0. PICK sid \in Streams : sid = Head(todo)
  BY HeadTail DEF Assign, IndInv, TypeOK
<1>1. /\ pc = "assign" /\ pc' = "assign"
      /\ todo # <<>> /\ todo' = Tail(todo)
      /\ AssignSlot(sid)
      /\ UNCHANGED <<stream_ids, eos, cache, context, mapping>>
  BY <1>0 DEF Assign, AssignSlot
<1>2. sid \in Streams /\ todo' \in Seq(Streams)
  BY <1>1, HeadTail DEF IndInv, TypeOK
<1>3. TableInv'
  BY <1>1, <1>2, AssignKeepsTable DEF IndInv, TypeOK, TableInv
<1>4. TypeOK'
  BY <1>1, <1>2, <1>3 DEF IndInv, TypeOK, TableInv
<1>5. \A s \in Slots : s \in DOMAIN slotidx2streamidx =>
          s \in DOMAIN slotidx2streamidx' /\ slotidx2streamidx'[s] = slotidx2streamidx[s]
  <2>1. CASE Known(sid)
    BY <1>1, <2>1 DEF AssignSlot
  <2>2. CASE ~Known(sid)
    <3>1. Head(free_slots) = free_slots[1] /\ 1 \in DOMAIN free_slots /\ Head(free_slots) \in Slots
      BY <1>1, <2>2, HeadTail DEF IndInv, TypeOK, AssignSlot
    <3>2. Head(free_slots) \notin DOMAIN slotidx2streamidx
      BY <3>1 DEF IndInv, QueueHoldsTheRest
    <3> QED
      BY <1>1, <2>2, <3>2 DEF AssignSlot, Put
  <2> QED
    BY <2>1, <2>2
<1>6. RowsPrivate'
  BY <1>1, <1>5 DEF IndInv, RowsPrivate
<1>7. Known(sid)' /\ \A x \in Streams : Known(x) => Known(x)'
  BY <1>1 DEF AssignSlot, Put, Known
<1>8. StepInv'
  <2>1. todo \in Seq(Streams)
    BY DEF IndInv, TypeOK
  <2>2. /\ Members(todo') \subseteq Members(todo)
        /\ \A x \in Members(todo) : x = sid \/ x \in Members(todo')
    BY <1>0, <1>1, <2>1, MembersTail
  <2>3. Members(stream_ids)' = Members(stream_ids) /\ Members(stream_ids) \subseteq Streams
    BY <1>1 DEF Members, IndInv, TypeOK
  <2>4. \A x \in Members(stream_ids)' : Known(x)' \/ x \in Members(todo)'
    BY <1>1, <1>7, <2>2, <2>3 DEF IndInv, StepInv
  <2>5. eos' \subseteq Members(stream_ids)' /\ Members(todo)' \subseteq Members(stream_ids)'
    BY <1>1, <2>2, <2>3 DEF IndInv, StepInv
  <2>6. \A i, j \in DOMAIN stream_ids' : stream_ids'[i] = stream_ids'[j] => i = j
    BY <1>1 DEF IndInv, StepInv
  <2> QED
    BY <1>1, <2>4, <2>5, <2>6 DEF StepInv
<1> QED
  BY <1>1, <1>3, <1>4, <1>6, <1>8 DEF IndInv, TableInv, ContextInBatchOrder

\* get_context copies the rows of the batch: each row is its stream's own.
LEMMA ReadKeepsInv ==
    ASSUME IndInv, Read
    PROVE  IndInv'
<1>1. /\ pc = "assign" /\ pc' = "encode" /\ todo = <<>>
      /\ context' = [i \in DOMAIN stream_ids |-> cache[streamidx2slotidx[stream_ids[i]]]]
      /\ mapping' = [s \in {streamidx2slotidx[stream_ids[i]] : i \in DOMAIN stream_ids} |->
                       CHOOSE i \in DOMAIN stream_ids : streamidx2slotidx[stream_ids[i]] = s]
      /\ UNCHANGED <<streamidx2slotidx, slotidx2streamidx, free_slots, cache, stream_ids, eos, todo>>
  BY DEF Read, ReadContext
<1>2. \A i \in DOMAIN stream_ids :
        /\ stream_ids[i] \in DOMAIN streamidx2slotidx
        /\ streamidx2slotidx[stream_ids[i]] \in Slots
        /\ streamidx2slotidx[stream_ids[i]] \in DOMAIN slotidx2streamidx
        /\ slotidx2streamidx[streamidx2slotidx[stream_ids[i]]] = stream_ids[i]
  BY <1>1 DEF IndInv, StepInv, Members, Known, DictsInverse, TypeOK
<1>3. \A i, j \in DOMAIN stream_ids :
        streamidx2slotidx[stream_ids[i]] = streamidx2slotidx[stream_ids[j]] => i = j
  BY <1>2 DEF IndInv, StepInv
<1>4. /\ Len(stream_ids) \in Nat /\ DOMAIN stream_ids = 1 .. Len(stream_ids)
  BY DEF IndInv, TypeOK
<1>5. context' \in Seq(SUBSET Streams)
  BY <1>1, <1>2, <1>4 DEF IndInv, TypeOK
<1>6. DOMAIN mapping' \subseteq Slots /\ mapping' \in [DOMAIN mapping' -> Nat]
  <2>1. \A s \in DOMAIN mapping' : mapping'[s] \in DOMAIN stream_ids
    BY <1>1
  <2>2. DOMAIN stream_ids \subseteq Nat
    BY <1>4
  <2>3. mapping' = [s \in DOMAIN mapping' |-> mapping'[s]]
    BY <1>1
  <2>4. DOMAIN mapping' \subseteq Slots
    BY <1>1, <1>2
  <2> QED
    BY <2>1, <2>2, <2>3, <2>4
<1>7. TypeOK'
  BY <1>1, <1>5, <1>6 DEF IndInv, TypeOK
<1>8. DictsInverse' /\ QueueHoldsTheRest' /\ RowsPrivate'
  BY <1>1 DEF IndInv, DictsInverse, QueueHoldsTheRest, RowsPrivate
<1>9. ContextInBatchOrder'
  BY <1>1, <1>2 DEF ContextInBatchOrder, IndInv, RowsPrivate
<1>10. \A i \in DOMAIN stream_ids :
          /\ streamidx2slotidx[stream_ids[i]] \in DOMAIN mapping'
          /\ mapping'[streamidx2slotidx[stream_ids[i]]] = i
  BY <1>1, <1>3
<1>11. StepInv'
  <2>1. Members(todo) = {}
    BY <1>1 DEF Members
  <2>2. Members(stream_ids)' = Members(stream_ids) /\ Members(todo)' = Members(todo)
    BY <1>1 DEF Members
  <2>3. DOMAIN context' = DOMAIN stream_ids'
    BY <1>1
  <2>4. \A x \in Members(stream_ids)' : Known(x)'
    BY <1>1, <2>1, <2>2 DEF IndInv, StepInv, Known
  <2> QED
    BY <1>1, <1>10, <2>2, <2>3, <2>4 DEF IndInv, StepInv
<1> QED
  BY <1>7, <1>8, <1>9, <1>11 DEF IndInv

\* update_cache writes each row to the slot it was read from.
LEMMA EncodeKeepsInv ==
    ASSUME IndInv, EncodeAndUpdate
    PROVE  IndInv'
<1> DEFINE new == [i \in DOMAIN stream_ids |-> context[i] \cup {stream_ids[i]}]
<1>1. /\ pc = "encode" /\ pc' = "wipe"
      /\ cache' = [s \in Slots |->
            IF \E i \in DOMAIN stream_ids : streamidx2slotidx[stream_ids[i]] = s
            THEN new[mapping[s]]
            ELSE cache[s]]
      /\ UNCHANGED <<streamidx2slotidx, slotidx2streamidx, free_slots, context, mapping,
                     stream_ids, eos, todo>>
  BY DEF EncodeAndUpdate, UpdateCache
<1>2. \A i \in DOMAIN stream_ids :
        /\ stream_ids[i] \in Streams
        /\ streamidx2slotidx[stream_ids[i]] \in DOMAIN slotidx2streamidx
        /\ slotidx2streamidx[streamidx2slotidx[stream_ids[i]]] = stream_ids[i]
        /\ mapping[streamidx2slotidx[stream_ids[i]]] = i
        /\ new[i] \subseteq {stream_ids[i]}
  BY <1>1 DEF IndInv, StepInv, Members, Known, DictsInverse, TypeOK, ContextInBatchOrder
<1>3. ASSUME NEW s \in Slots
      PROVE  /\ cache'[s] \subseteq IF s \in DOMAIN slotidx2streamidx
                                    THEN {slotidx2streamidx[s]} ELSE {}
             /\ cache'[s] \subseteq Streams
  <2>1. CASE \E i \in DOMAIN stream_ids : streamidx2slotidx[stream_ids[i]] = s
    <3>1. PICK i \in DOMAIN stream_ids : streamidx2slotidx[stream_ids[i]] = s
      BY <2>1
    <3>2. cache'[s] = new[i]
      BY <1>1, <1>2, <2>1, <3>1
    <3>3. /\ s \in DOMAIN slotidx2streamidx /\ slotidx2streamidx[s] = stream_ids[i]
          /\ stream_ids[i] \in Streams /\ cache'[s] \subseteq {stream_ids[i]}
      BY <1>2, <3>1, <3>2
    <3> QED
      BY <3>3
  <2>2. CASE ~\E i \in DOMAIN stream_ids : streamidx2slotidx[stream_ids[i]] = s
    BY <1>1, <2>2 DEF IndInv, RowsPrivate, TypeOK
  <2> QED
    BY <2>1, <2>2
<1>4. RowsPrivate'
  BY <1>1, <1>3 DEF RowsPrivate
<1>5. cache' \in [Slots -> SUBSET Streams]
  BY <1>1, <1>3
<1>6. TypeOK'
  BY <1>1, <1>5 DEF IndInv, TypeOK
<1>7. DictsInverse' /\ QueueHoldsTheRest' /\ ContextInBatchOrder'
  BY <1>1 DEF IndInv, DictsInverse, QueueHoldsTheRest, ContextInBatchOrder
<1>8. StepInv'
  BY <1>1 DEF IndInv, StepInv, Members, Known
<1> QED
  BY <1>4, <1>6, <1>7, <1>8 DEF IndInv

\* reset_slots wipes the rows of the streams that ended before it frees any.
LEMMA WipeKeepsInv ==
    ASSUME IndInv, Wipe
    PROVE  IndInv'
<1> USE BatchesAssumption DEF Blank
<1>1. /\ pc = "wipe" /\ pc' = "free" /\ todo' = stream_ids
      /\ cache' = [s \in Slots |->
            IF \E sid \in eos : streamidx2slotidx[sid] = s THEN {} ELSE cache[s]]
      /\ UNCHANGED <<streamidx2slotidx, slotidx2streamidx, free_slots, context, mapping,
                     stream_ids, eos>>
  BY DEF Wipe, WipeSlots
<1>2. TypeOK'
  BY <1>1 DEF IndInv, TypeOK
<1>3. RowsPrivate'
  BY <1>1 DEF IndInv, RowsPrivate
<1>4. DictsInverse' /\ QueueHoldsTheRest' /\ ContextInBatchOrder'
  BY <1>1 DEF IndInv, DictsInverse, QueueHoldsTheRest, ContextInBatchOrder
<1>5. \A sid \in eos : Known(sid) /\ streamidx2slotidx[sid] \in Slots
  BY <1>1 DEF IndInv, StepInv, TypeOK, Known
<1>6. \A sid \in eos : Known(sid)' /\ cache'[streamidx2slotidx'[sid]] = {}
  BY <1>1, <1>5 DEF Known
<1>7. StepInv'
  BY <1>1, <1>6 DEF IndInv, StepInv, Members
<1> QED
  BY <1>2, <1>3, <1>4, <1>7 DEF IndInv

\* One iteration of the loop that frees: the row is blank when its slot is freed.
LEMMA FreeKeepsInv ==
    ASSUME IndInv, Free
    PROVE  IndInv'
<1>0. PICK sid \in Streams : sid = Head(todo)
  BY HeadTail DEF Free, IndInv, TypeOK
<1>1. /\ pc = "free" /\ pc' = "free"
      /\ todo # <<>> /\ todo' = Tail(todo)
      /\ IF sid \in eos THEN FreeSlot(sid) ELSE UNCHANGED cmVars
      /\ UNCHANGED <<stream_ids, eos, cache, context, mapping>>
  BY <1>0 DEF Free, FreeSlot, cmVars
<1>2. /\ todo \in Seq(Streams) /\ todo' \in Seq(Streams)
      /\ \A i, j \in DOMAIN todo : todo[i] = todo[j] => i = j
      /\ sid \in Members(todo)
      /\ Members(todo') \subseteq Members(todo)
      /\ sid \notin Members(todo')
      /\ \A i, j \in DOMAIN todo' : todo'[i] = todo'[j] => i = j
  <2>1. todo \in Seq(Streams) /\ \A i, j \in DOMAIN todo : todo[i] = todo[j] => i = j
    BY <1>1 DEF IndInv, TypeOK, StepInv
  <2> QED
    BY <1>0, <1>1, <2>1, HeadTail, MembersTail, DistinctTail
<1>3. Members(stream_ids)' = Members(stream_ids) /\ Members(todo)' = Members(todo')
  BY <1>1 DEF Members
<1>4. CASE sid \notin eos
  <2>1. TypeOK'
    BY <1>1, <1>2, <1>4 DEF IndInv, TypeOK, cmVars
  <2>2. DictsInverse' /\ QueueHoldsTheRest' /\ RowsPrivate' /\ ContextInBatchOrder'
    BY <1>1, <1>4
       DEF IndInv, DictsInverse, QueueHoldsTheRest, RowsPrivate, ContextInBatchOrder, cmVars
  <2>3. StepInv'
    BY <1>1, <1>2, <1>3, <1>4 DEF IndInv, StepInv, Known, cmVars
  <2> QED
    BY <2>1, <2>2, <2>3 DEF IndInv
<1>5. CASE sid \in eos
  <2>1. /\ FreeSlot(sid)
        /\ Known(sid)
        /\ cache[streamidx2slotidx[sid]] = {}
    BY <1>1, <1>2, <1>5 DEF IndInv, StepInv
  <2>2. TableInv'
    BY <2>1, FreeKeepsTable DEF IndInv, TypeOK, TableInv
  <2>3. TypeOK'
    BY <1>1, <1>2, <2>2 DEF IndInv, TypeOK, TableInv
  <2>4. /\ streamidx2slotidx[sid] \in DOMAIN slotidx2streamidx
        /\ slotidx2streamidx[streamidx2slotidx[sid]] = sid
        /\ slotidx2streamidx' = Delete(slotidx2streamidx, streamidx2slotidx[sid])
        /\ streamidx2slotidx' = Delete(streamidx2slotidx, sid)
    BY <2>1 DEF FreeSlot, IndInv, DictsInverse, Known
  <2>5. RowsPrivate'
    BY <1>1, <2>1, <2>4 DEF IndInv, RowsPrivate, Delete
  <2>6. \A x \in eos \cap Members(todo') :
            Known(x)' /\ cache'[streamidx2slotidx'[x]] = {}
    BY <1>1, <1>2, <2>4 DEF IndInv, StepInv, Known, Delete
  <2>7. StepInv'
    BY <1>1, <1>2, <1>3, <2>6 DEF IndInv, StepInv
  <2> QED
    BY <1>1, <2>2, <2>3, <2>5, <2>7 DEF IndInv, TableInv, ContextInBatchOrder
<1> QED
  BY <1>4, <1>5

\* A stuttering step.
LEMMA StutterKeepsInv ==
    ASSUME IndInv, UNCHANGED vars
    PROVE  IndInv'
<1>1. TypeOK'
  BY DEF IndInv, TypeOK, vars, cmVars
<1>2. DictsInverse' /\ QueueHoldsTheRest' /\ RowsPrivate' /\ ContextInBatchOrder'
  BY DEF IndInv, DictsInverse, QueueHoldsTheRest, RowsPrivate, ContextInBatchOrder, vars, cmVars
<1>3. StepInv'
  BY DEF IndInv, StepInv, Members, Known, vars, cmVars
<1> QED
  BY <1>1, <1>2, <1>3 DEF IndInv

-----------------------------------------------------------------------------
\* The invariant the theorems below rest on: types, the exact slot table, the
\* private rows and what holds between the loops of cache_aware_transcribe_step.
THEOREM Invariance == Spec => []IndInv
<1>1. Init => IndInv
  BY InitInv
<1>2. IndInv /\ [Next]_vars => IndInv'
  <2> SUFFICES ASSUME IndInv, [Next]_vars PROVE IndInv'
    OBVIOUS
  <2>1. CASE StartStep
    BY <2>1, StartStepKeepsInv
  <2>2. CASE Assign
    BY <2>2, AssignKeepsInv
  <2>3. CASE AssignRaises
    BY <2>3, BackToCallerKeepsInv DEF AssignRaises
  <2>4. CASE Read
    BY <2>4, ReadKeepsInv
  <2>5. CASE EncodeAndUpdate
    BY <2>5, EncodeKeepsInv
  <2>6. CASE EncodeRaises
    BY <2>6, BackToCallerKeepsInv DEF EncodeRaises
  <2>7. CASE Wipe
    BY <2>7, WipeKeepsInv
  <2>8. CASE Free
    BY <2>8, FreeKeepsInv
  <2>9. CASE EndStep
    BY <2>9, BackToCallerKeepsInv DEF EndStep
  <2>10. CASE UNCHANGED vars
    BY <2>10, StutterKeepsInv
  <2> QED
    BY <2>1, <2>2, <2>3, <2>4, <2>5, <2>6, <2>7, <2>8, <2>9, <2>10 DEF Next
<1> QED
  BY <1>1, <1>2, PTL DEF Spec

\* Types of the manager's fields and of the locals of cache_aware_transcribe_step.
THEOREM TypeCorrect == Spec => []TypeOK
<1>1. IndInv => TypeOK
  BY DEF IndInv
<1> QED
  BY <1>1, Invariance, PTL

\* No stream has two cache slots and no slot two streams, whatever raises.
THEOREM DictsAlwaysInverse == Spec => []DictsInverse
<1>1. IndInv => DictsInverse
  BY DEF IndInv
<1> QED
  BY <1>1, Invariance, PTL

\* No cache slot leaks and none is queued twice, whatever raises.
THEOREM NoSlotLeaks == Spec => []QueueHoldsTheRest
<1>1. IndInv => QueueHoldsTheRest
  BY DEF IndInv
<1> QED
  BY <1>1, Invariance, PTL

\* A row of the cache only ever holds audio of the stream that owns its slot.
THEOREM RowsStayPrivate == Spec => []RowsPrivate
<1>1. IndInv => RowsPrivate
  BY DEF IndInv
<1> QED
  BY <1>1, Invariance, PTL

\* The encoder is given each stream's own row, in the order of the batch.
THEOREM ContextOrdered == Spec => []ContextInBatchOrder
<1>1. IndInv => ContextInBatchOrder
  BY DEF IndInv
<1> QED
  BY <1>1, Invariance, PTL

\* get_context raises "No free slots available" only when every slot is held.
THEOREM RaisesWhenFull == Spec => RaisesOnlyWhenFull
<1>1. IndInv /\ [Next]_vars =>
        [pc = "assign" /\ pc' = "idle" => DOMAIN slotidx2streamidx = Slots]_vars
  <2> SUFFICES ASSUME IndInv, Next, pc = "assign", pc' = "idle"
               PROVE  DOMAIN slotidx2streamidx = Slots
    OBVIOUS
  <2>1. AssignRaises
    BY DEF Next, StartStep, Assign, Read, EncodeAndUpdate, EncodeRaises, Wipe, Free, EndStep
  <2>2. DOMAIN free_slots = {}
    BY <2>1 DEF AssignRaises, NoFreeSlot
  <2> QED
    BY <2>2 DEF IndInv, QueueHoldsTheRest, TypeOK
<1> QED
  BY <1>1, Invariance, PTL DEF Spec, RaisesOnlyWhenFull

\* No step, of any batch, changes the cache row of a stream outside the batch.
THEOREM OtherStreamsUntouched == Spec => OthersUntouched
<1> DEFINE Untouched ==
      \A sid \in DOMAIN streamidx2slotidx :
          (\A i \in DOMAIN stream_ids : stream_ids[i] # sid) =>
              cache'[streamidx2slotidx[sid]] = cache[streamidx2slotidx[sid]]
<1>1. IndInv /\ [Next]_vars => [Untouched]_vars
  <2> SUFFICES ASSUME IndInv, Next,
                      NEW sid \in DOMAIN streamidx2slotidx,
                      \A i \in DOMAIN stream_ids : stream_ids[i] # sid
               PROVE  cache'[streamidx2slotidx[sid]] = cache[streamidx2slotidx[sid]]
    OBVIOUS
  <2> DEFINE s == streamidx2slotidx[sid]
  <2>1. s \in Slots /\ slotidx2streamidx[s] = sid
    BY DEF IndInv, TypeOK, DictsInverse
  <2>2. CASE EncodeAndUpdate
    <3>1. \A i \in DOMAIN stream_ids : streamidx2slotidx[stream_ids[i]] # s
      BY <2>1, <2>2 DEF EncodeAndUpdate, IndInv, StepInv, Members, Known, DictsInverse
    <3> QED
      BY <2>1, <2>2, <3>1 DEF EncodeAndUpdate, UpdateCache
  <2>3. CASE Wipe
    <3>1. \A x \in eos : streamidx2slotidx[x] # s
      BY <2>1, <2>3 DEF Wipe, IndInv, StepInv, Members, Known, DictsInverse
    <3> QED
      BY <2>1, <2>3, <3>1 DEF Wipe, WipeSlots
  <2>4. CASE Free
    BY <2>4 DEF Free, FreeSlot, cmVars
  <2>5. CASE Assign
    BY <2>5 DEF Assign, AssignSlot
  <2>6. CASE UNCHANGED cmVars
    BY <2>6 DEF cmVars
  <2>7. CASE Read
    BY <2>7 DEF Read, ReadContext
  <2> QED
    BY <2>2, <2>3, <2>4, <2>5, <2>6, <2>7
       DEF Next, StartStep, AssignRaises, EncodeRaises, EndStep
<1> QED
  BY <1>1, Invariance, PTL DEF Spec, OthersUntouched

-----------------------------------------------------------------------------
\* What the end of a step needs besides IndInv: update_cache leaves in every row of
\* the batch its stream's audio, and the loop of _reset_slots takes the streams that
\* ended, one by one, and no other.
ReleaseInv ==
    /\ pc = "wipe" => \A sid \in Members(stream_ids) : cache[streamidx2slotidx[sid]] = {sid}
    /\ pc = "free" =>
          /\ \A sid \in eos : Known(sid) => sid \in Members(todo)
          /\ \A sid \in Members(stream_ids) : sid \notin eos =>
                Known(sid) /\ cache[streamidx2slotidx[sid]] = {sid}

\* update_cache: the row of each stream of the batch is its new context.
LEMMA EncodeKeepsRelease ==
    ASSUME IndInv, EncodeAndUpdate
    PROVE  ReleaseInv'
<1> DEFINE new == [i \in DOMAIN stream_ids |-> context[i] \cup {stream_ids[i]}]
<1>1. /\ pc = "encode" /\ pc' = "wipe"
      /\ cache' = [s \in Slots |->
            IF \E i \in DOMAIN stream_ids : streamidx2slotidx[stream_ids[i]] = s
            THEN new[mapping[s]]
            ELSE cache[s]]
      /\ UNCHANGED <<streamidx2slotidx, stream_ids>>
  BY DEF EncodeAndUpdate, UpdateCache
<1>2. ASSUME NEW i \in DOMAIN stream_ids
      PROVE  cache'[streamidx2slotidx[stream_ids[i]]] = {stream_ids[i]}
  <2>1. /\ streamidx2slotidx[stream_ids[i]] \in Slots
        /\ mapping[streamidx2slotidx[stream_ids[i]]] = i
        /\ new[i] = {stream_ids[i]}
    BY <1>1 DEF IndInv, StepInv, Members, Known, TypeOK, ContextInBatchOrder
  <2> QED
    BY <1>1, <2>1
<1>3. Members(stream_ids)' = {stream_ids[i] : i \in DOMAIN stream_ids}
  BY <1>1 DEF Members
<1>4. \A sid \in Members(stream_ids)' : cache'[streamidx2slotidx'[sid]] = {sid}
  <2> HIDE DEF new
  <2> QED
    BY <1>1, <1>2, <1>3
<1> QED
  BY <1>1, <1>4 DEF ReleaseInv

\* reset_slots wipes the rows of the streams that ended only.
LEMMA WipeKeepsRelease ==
    ASSUME IndInv, ReleaseInv, Wipe
    PROVE  ReleaseInv'
<1>1. /\ pc = "wipe" /\ pc' = "free" /\ todo' = stream_ids
      /\ cache' = [s \in Slots |->
            IF \E sid \in eos : streamidx2slotidx[sid] = s THEN {} ELSE cache[s]]
      /\ UNCHANGED <<streamidx2slotidx, stream_ids, eos>>
  BY DEF Wipe, WipeSlots, Blank
<1>2. \A sid \in eos : sid \in Members(todo')
  BY <1>1 DEF IndInv, StepInv, Members
<1>3. ASSUME NEW sid \in Members(stream_ids), sid \notin eos
      PROVE  Known(sid) /\ cache'[streamidx2slotidx[sid]] = {sid}
  <2>1. /\ Known(sid) /\ streamidx2slotidx[sid] \in Slots
        /\ cache[streamidx2slotidx[sid]] = {sid}
    BY <1>1 DEF IndInv, StepInv, ReleaseInv, TypeOK, Known
  <2>2. \A x \in eos : streamidx2slotidx[x] # streamidx2slotidx[sid]
    BY <1>1, <1>3, <2>1 DEF IndInv, StepInv, DictsInverse, Known
  <2> QED
    BY <1>1, <2>1, <2>2
<1>4. /\ Members(stream_ids)' = Members(stream_ids)
      /\ Members(todo)' = Members(todo')
  BY <1>1 DEF Members
<1>5. \A sid \in Members(stream_ids)' : sid \notin eos' =>
         Known(sid)' /\ cache'[streamidx2slotidx'[sid]] = {sid}
  BY <1>1, <1>3, <1>4 DEF Known
<1> QED
  BY <1>1, <1>2, <1>4, <1>5 DEF ReleaseInv

\* One iteration of the loop that frees.
LEMMA FreeKeepsRelease ==
    ASSUME IndInv, ReleaseInv, Free
    PROVE  ReleaseInv'
<1>0. PICK h \in Streams : h = Head(todo)
  BY HeadTail DEF Free, IndInv, TypeOK
<1>1. /\ pc = "free" /\ pc' = "free" /\ todo # <<>> /\ todo' = Tail(todo)
      /\ IF h \in eos THEN FreeSlot(h) ELSE UNCHANGED cmVars
      /\ stream_ids' = stream_ids /\ eos' = eos
  BY <1>0 DEF Free
<1>2. \A sid \in Members(todo) : sid = h \/ sid \in Members(todo')
  BY <1>0, <1>1, MembersTail DEF IndInv, TypeOK
<1>3. /\ h \in eos => streamidx2slotidx' = Delete(streamidx2slotidx, h)
      /\ h \notin eos => streamidx2slotidx' = streamidx2slotidx
      /\ cache' = cache
  <2>1. h \in eos => Known(h)
    BY <1>0, <1>1, MembersTail DEF IndInv, StepInv, TypeOK
  <2>2. CASE h \in eos
    BY <1>1, <2>1, <2>2 DEF FreeSlot, IndInv, DictsInverse, Known
  <2>3. CASE h \notin eos
    BY <1>1, <2>3 DEF cmVars
  <2> QED
    BY <2>2, <2>3
<1>4. \A sid \in eos : Known(sid)' => sid \in Members(todo')
  BY <1>1, <1>2, <1>3 DEF ReleaseInv, Known, Delete
<1>5. \A sid \in Members(stream_ids) : sid \notin eos =>
         Known(sid)' /\ cache'[streamidx2slotidx'[sid]] = {sid}
  BY <1>1, <1>3 DEF ReleaseInv, Known, Delete
<1> QED
  BY <1>1, <1>4, <1>5 DEF ReleaseInv, Members

\* A step of cache_aware_transcribe_step that reaches its end has released the
\* slots of the streams that ended, and no other: the rest of its batch still has its
\* audio in its rows.
THEOREM EndedReleased == Spec => EndedStreamsReleased
<1> DEFINE Released ==
      pc = "free" /\ pc' = "idle" =>
          /\ \A sid \in eos : ~Known(sid)
          /\ \A i \in DOMAIN stream_ids : stream_ids[i] \notin eos =>
                /\ Known(stream_ids[i])
                /\ cache[streamidx2slotidx[stream_ids[i]]] = {stream_ids[i]}
<1>1. Init => ReleaseInv
  BY DEF Init, ReleaseInv
<1>2. IndInv /\ ReleaseInv /\ [Next]_vars => ReleaseInv'
  <2> SUFFICES ASSUME IndInv, ReleaseInv, [Next]_vars PROVE ReleaseInv'
    OBVIOUS
  <2>1. CASE EncodeAndUpdate
    BY <2>1, EncodeKeepsRelease
  <2>2. CASE Wipe
    BY <2>2, WipeKeepsRelease
  <2>3. CASE Free
    BY <2>3, FreeKeepsRelease
  <2>4. CASE pc' \notin {"wipe", "free"}
    BY <2>4 DEF ReleaseInv
  <2>5. CASE UNCHANGED vars
    BY <2>5 DEF ReleaseInv, Known, Members, vars, cmVars
  <2> QED
    BY <2>1, <2>2, <2>3, <2>4, <2>5
       DEF Next, StartStep, Assign, AssignRaises, Read, EncodeRaises, EndStep, BackToCaller
<1>3. IndInv /\ ReleaseInv /\ [Next]_vars => [Released]_vars
  <2> SUFFICES ASSUME ReleaseInv, Next, pc = "free", pc' = "idle"
               PROVE  Released
    OBVIOUS
  <2>1. todo = <<>>
    BY DEF Next, StartStep, Assign, AssignRaises, Read, EncodeAndUpdate, EncodeRaises,
           Wipe, Free, EndStep
  <2>2. Members(todo) = {}
    BY <2>1 DEF Members
  <2>3. \A i \in DOMAIN stream_ids : stream_ids[i] \in Members(stream_ids)
    BY DEF Members
  <2> QED
    BY <2>2, <2>3 DEF ReleaseInv
<1> QED
  BY <1>1, <1>2, <1>3, Invariance, PTL DEF Spec, EndedStreamsReleased

-----------------------------------------------------------------------------
\* The refinement: who holds each slot, as SlotAllocation sees it.
Owner == [s \in Slots |->
            IF s \in DOMAIN slotidx2streamidx THEN slotidx2streamidx[s] ELSE NoStream]

\* A stream without a slot that is given one is an Acquire of the abstract table.
LEMMA AssignAcquires ==
    ASSUME IndInv, Assign
    PROVE  Table!Acquire \/ Owner' = Owner
<1>0. PICK sid \in Streams : sid = Head(todo)
  BY HeadTail DEF Assign, IndInv, TypeOK
<1>1. AssignSlot(sid)
  BY <1>0 DEF Assign
<1>2. CASE Known(sid)
  BY <1>1, <1>2 DEF AssignSlot, Owner
<1>3. CASE ~Known(sid)
  <2> DEFINE h == Head(free_slots)
             new == {sid}
             place == [a \in new |-> h]
  <2>1. slotidx2streamidx' = Put(slotidx2streamidx, h, sid)
    BY <1>1, <1>3 DEF AssignSlot
  <2>2. h \in Slots /\ h = free_slots[1] /\ 1 \in DOMAIN free_slots
    BY <1>1, <1>3, HeadTail DEF AssignSlot, IndInv, TypeOK
  <2>3. h \notin DOMAIN slotidx2streamidx
    BY <2>2 DEF IndInv, QueueHoldsTheRest
  <2>4. sid # NoStream
    BY BatchesAssumption
  <2>5. \A s \in Slots : Owner[s] # sid
    BY <1>3, <2>4 DEF Owner, IndInv, DictsInverse, Known
  <2>6. new \in SUBSET (Streams \ Table!Holders)
    BY <2>5 DEF Table!Holders, Owner
  <2>7. place \in [new -> {s \in Slots : Owner[s] = NoStream}]
    BY <2>2, <2>3 DEF Owner
  <2>8. \A a, b \in new : place[a] = place[b] => a = b
    OBVIOUS
  <2>9. Owner' = [s \in Slots |->
                    IF \E a \in new : place[a] = s
                    THEN CHOOSE a \in new : place[a] = s
                    ELSE Owner[s]]
    <3>1. ASSUME NEW s \in Slots
          PROVE  (IF s \in DOMAIN slotidx2streamidx' THEN slotidx2streamidx'[s] ELSE NoStream)
                   = IF \E a \in new : place[a] = s
                     THEN CHOOSE a \in new : place[a] = s
                     ELSE Owner[s]
      <4>1. CASE s = h
        <5>1. \E a \in new : place[a] = s
          BY <4>1
        <5>2. (CHOOSE a \in new : place[a] = s) = sid
          BY <5>1
        <5>3. s \in DOMAIN slotidx2streamidx' /\ slotidx2streamidx'[s] = sid
          BY <2>1, <4>1 DEF Put
        <5> QED
          BY <5>1, <5>2, <5>3
      <4>2. CASE s # h
        BY <2>1, <4>2 DEF Put, Owner
      <4> QED
        BY <4>1, <4>2
    <3> QED
      BY <3>1 DEF Owner
  <2> QED
    BY <2>6, <2>7, <2>8, <2>9 DEF Table!Acquire, Owner
<1> QED
  BY <1>2, <1>3

\* The slot of a stream that ended is a Release of the abstract table.
LEMMA FreeReleases ==
    ASSUME IndInv, Free
    PROVE  Table!Release \/ Owner' = Owner
<1>1. CASE Head(todo) \in eos
  <2> DEFINE slot == streamidx2slotidx[Head(todo)]
  <2>1. slotidx2streamidx' = Delete(slotidx2streamidx, slot)
    BY <1>1 DEF Free, FreeSlot
  <2>2. todo \in Seq(Streams) /\ todo # <<>> /\ Head(todo) \in Members(todo)
    BY MembersTail DEF Free, IndInv, TypeOK
  <2>3. slot \in Slots
    BY <1>1, <2>2 DEF Free, IndInv, StepInv, Known, TypeOK
  <2>4. Owner' = [s \in Slots |-> IF s \in {slot} THEN NoStream ELSE Owner[s]]
    BY <2>1 DEF Owner, Delete
  <2>5. {slot} \in SUBSET Slots
    BY <2>3
  <2>6. \E freed \in SUBSET Slots :
            Owner' = [s \in Slots |-> IF s \in freed THEN NoStream ELSE Owner[s]]
    <3> HIDE DEF Owner, slot
    <3> QED
      BY <2>4, <2>5
  <2> QED
    BY <2>6 DEF Table!Release, Owner
<1>2. CASE Head(todo) \notin eos
  BY <1>2 DEF Free, cmVars, Owner
<1> QED
  BY <1>1, <1>2

\* The manager's dictionaries and queue, under any batches and any raise,
\* implement the abstract slot table.
THEOREM ImplementsTable == Spec => ImplementsSlotAllocation
<1>1. Init => Table!Init
  BY DEF Init, CMInit, NoEntries, Table!Init
<1>2. IndInv /\ [Next]_vars => [Table!Next]_Owner
  <2> SUFFICES ASSUME IndInv, [Next]_vars PROVE Table!Next \/ Owner' = Owner
    OBVIOUS
  <2>1. CASE Assign
    BY <2>1, AssignAcquires DEF Table!Next
  <2>2. CASE Free
    BY <2>2, FreeReleases DEF Table!Next
  <2>3. CASE UNCHANGED slotidx2streamidx
    BY <2>3 DEF Owner
  <2> QED
    BY <2>1, <2>2, <2>3
       DEF Next, StartStep, AssignRaises, Read, ReadContext, EncodeAndUpdate, UpdateCache,
           EncodeRaises, Wipe, WipeSlots, EndStep, vars, cmVars
<1> QED
  BY <1>1, <1>2, Invariance, PTL
     DEF Spec, ImplementsSlotAllocation, Table!Spec, Owner
=============================================================================
