-------------------------- MODULE SlotTablesProofs --------------------------
(***************************************************************************)
(* Theorems about SlotTables.  First those of the bufferer's protocol, for *)
(* every number of slots, every set of streams, every length of batch, any *)
(* limit on open streams, and raises in any call of update.  Then those    *)
(* that carry the context manager's theorems over: a behaviour of          *)
(* SlotTables is one of the context manager's protocol, and one of the     *)
(* bufferer's, so that what holds of each of them holds of the two.        *)
(***************************************************************************)
EXTENDS SlotTables, SequenceTheorems, FiniteSetTheorems, TLAPS


\* The dictionaries are inverse to each other.
DictsInverse ==
    /\ \A sid \in DOMAIN streamidx2slotidx :
          /\ streamidx2slotidx[sid] \in DOMAIN slotidx2streamidx
          /\ slotidx2streamidx[streamidx2slotidx[sid]] = sid
    /\ \A s \in DOMAIN slotidx2streamidx :
          /\ slotidx2streamidx[s] \in DOMAIN streamidx2slotidx
          /\ streamidx2slotidx[slotidx2streamidx[s]] = s

\* The queue lists the slots that nobody holds, each once.
AvailableHoldTheRest ==
    /\ \A i, j \in DOMAIN available_slots : available_slots[i] = available_slots[j] => i = j
    /\ \A s \in Slots : s \in DOMAIN slotidx2streamidx <=>
                            \A i \in DOMAIN available_slots : available_slots[i] # s

TableInv ==
    /\ DOMAIN streamidx2slotidx \subseteq Streams
    /\ streamidx2slotidx \in [DOMAIN streamidx2slotidx -> Slots]
    /\ DOMAIN slotidx2streamidx \subseteq Slots
    /\ slotidx2streamidx \in [DOMAIN slotidx2streamidx -> Streams]
    /\ available_slots \in Seq(Slots)
    /\ DictsInverse
    /\ AvailableHoldTheRest

\* The batch: distinct streams, all open; which of them have a slot at each place of
\* update.  A stream that has a slot is open.
BatchInv ==
    /\ \A i, j \in DOMAIN todo : todo[i] = todo[j] => i = j
    /\ Members(todo) \subseteq Members(stream_ids)
    /\ \A i, j \in DOMAIN stream_ids : stream_ids[i] = stream_ids[j] => i = j
    /\ last \subseteq Members(stream_ids) /\ Members(stream_ids) \subseteq open
    /\ IsFiniteSet(open) /\ DOMAIN streamidx2slotidx \subseteq open
    /\ pc = "assign" => \A x \in Members(stream_ids) : Known(x) \/ x \in Members(todo)
    /\ pc = "features" => \A x \in Members(stream_ids) : Known(x)
    /\ pc = "free" =>
          /\ \A x \in Members(todo) : Known(x)
          /\ \A x \in last : Known(x) => x \in Members(todo)
    /\ pc # "assign" => slots_to_reset = {}

\* A held slot has its owner's audio and features alone, unless it waits for
\* reset_slots or a raise has cut that short; those of the batch have them at the place
\* of update where they must.
RowsInv ==
    /\ \A s \in DOMAIN slotidx2streamidx \ (slots_to_reset \cup unreset) :
          /\ audio_bufferers[s] \subseteq {slotidx2streamidx[s]}
          /\ feature_buffer[s] \subseteq {slotidx2streamidx[s]}
    /\ pc = "features" =>
          \A s \in SlotsOf(Members(stream_ids)) \ unreset :
              audio_bufferers[s] = {slotidx2streamidx[s]}
    /\ FeaturesPrivate

IndInv == TypeOK /\ TableInv /\ BatchInv /\ RowsInv

-----------------------------------------------------------------------------
(* Loops over a batch.                                                     *)
LEMMA HeadTail ==
    ASSUME NEW S, NEW s \in Seq(S), s # <<>>
    PROVE  /\ Tail(s) \in Seq(S) /\ Head(s) \in S
           /\ Len(s) \in Nat /\ Len(s) > 0 /\ Head(s) = s[1]
           /\ DOMAIN s = 1 .. Len(s) /\ DOMAIN Tail(s) = 1 .. Len(s) - 1
           /\ \A i \in 1 .. Len(s) - 1 : Tail(s)[i] = s[i + 1]
BY HeadTailProperties

\* An iteration handles one stream; those after it are distinct from it.
LEMMA LoopStep ==
    ASSUME NEW s \in Seq(Streams), s # <<>>,
           \A i, j \in DOMAIN s : s[i] = s[j] => i = j
    PROVE  /\ Head(s) \in Members(s) /\ Head(s) \notin Members(Tail(s))
           /\ Members(Tail(s)) \subseteq Members(s)
           /\ \A x \in Members(s) : x = Head(s) \/ x \in Members(Tail(s))
           /\ \A i, j \in DOMAIN Tail(s) : Tail(s)[i] = Tail(s)[j] => i = j
<1>1. /\ Len(s) \in Nat /\ Len(s) > 0 /\ Head(s) = s[1]
      /\ DOMAIN s = 1 .. Len(s) /\ DOMAIN Tail(s) = 1 .. Len(s) - 1
      /\ \A i \in 1 .. Len(s) - 1 : Tail(s)[i] = s[i + 1]
  BY HeadTail
<1>2. \A i \in DOMAIN Tail(s) : i \in Nat /\ i + 1 \in DOMAIN s /\ i + 1 # 1
  BY <1>1
<1>3. 1 \in DOMAIN s
  BY <1>1
<1>4. \A i \in DOMAIN s : i = 1 \/ (i - 1 \in DOMAIN Tail(s) /\ Tail(s)[i - 1] = s[i])
  <2> SUFFICES ASSUME NEW i \in DOMAIN s, i # 1
               PROVE  i - 1 \in DOMAIN Tail(s) /\ Tail(s)[i - 1] = s[i]
    OBVIOUS
  <2>1. i \in Nat /\ i - 1 \in 1 .. Len(s) - 1 /\ (i - 1) + 1 = i
    BY <1>1
  <2> QED BY <1>1, <2>1
<1>5. Head(s) \in Members(s)
  BY <1>1, <1>3 DEF Members
<1>6. \A i \in DOMAIN Tail(s) : Tail(s)[i] # Head(s) /\ Tail(s)[i] \in Members(s)
  BY <1>1, <1>2, <1>3 DEF Members
<1>7. ASSUME NEW i \in DOMAIN s
      PROVE  s[i] = Head(s) \/ s[i] \in Members(Tail(s))
  <2>1. CASE i = 1
    BY <1>1, <2>1
  <2>2. CASE i - 1 \in DOMAIN Tail(s) /\ Tail(s)[i - 1] = s[i]
    BY <2>2 DEF Members
  <2> QED BY <1>4, <2>1, <2>2
<1>8. ASSUME NEW i \in DOMAIN Tail(s), NEW j \in DOMAIN Tail(s), Tail(s)[i] = Tail(s)[j]
      PROVE  i = j
  <2>1. i + 1 = j + 1
    BY <1>1, <1>2, <1>8
  <2> QED BY <1>2, <2>1
<1> QED BY <1>5, <1>6, <1>7, <1>8 DEF Members

\* A batch is a finite set of streams.
LEMMA BatchFinite ==
    ASSUME NEW b \in Seq(Streams)
    PROVE  IsFiniteSet(Members(b))
<1>1. b \in [1 .. Len(b) -> Streams] /\ DOMAIN b = 1 .. Len(b) /\ Len(b) \in Nat
  BY LenProperties
<1>2. b \in Surjection(1 .. Len(b), Members(b))
  BY <1>1 DEF Surjection, Members
<1>3. IsFiniteSet(1 .. Len(b))
  BY <1>1, FS_Interval
<1> QED BY <1>2, <1>3, FS_Surjection

-----------------------------------------------------------------------------
(* The dictionaries and the queue.                                         *)
LEMMA AssignKeepsTable ==
    ASSUME TableInv, NEW sid \in Streams, AssignSlot(sid)
    PROVE  TableInv'
<1>1. CASE Known(sid)
  BY <1>1 DEF TableInv, AssignSlot, DictsInverse, AvailableHoldTheRest
<1>2. CASE ~Known(sid)
  <2> DEFINE q == available_slots
             h == Head(q)
  <2>1. /\ q # <<>> /\ q' = Tail(q)
        /\ streamidx2slotidx' = Put(streamidx2slotidx, sid, h)
        /\ slotidx2streamidx' = Put(slotidx2streamidx, h, sid)
    BY <1>2 DEF AssignSlot
  <2>2. /\ q' \in Seq(Slots) /\ h \in Slots
        /\ Len(q) \in Nat /\ Len(q) > 0 /\ h = q[1]
        /\ DOMAIN q = 1 .. Len(q) /\ DOMAIN q' = 1 .. Len(q) - 1
        /\ \A i \in 1 .. Len(q) - 1 : q'[i] = q[i + 1]
    BY <2>1, HeadTail DEF TableInv
  <2>3. h \notin DOMAIN slotidx2streamidx
    BY <2>2 DEF TableInv, AvailableHoldTheRest
  <2>4. DictsInverse'
    BY <1>2, <2>1, <2>3 DEF TableInv, DictsInverse, Put, Known
  <2>5. \A i \in DOMAIN q' : i \in Nat /\ i + 1 \in DOMAIN q /\ i + 1 # 1
    BY <2>2
  <2>6. ASSUME NEW i \in DOMAIN q', NEW j \in DOMAIN q', q'[i] = q'[j]
        PROVE  i = j
    <3>1. i + 1 = j + 1
      BY <2>2, <2>5, <2>6 DEF TableInv, AvailableHoldTheRest
    <3> QED BY <2>5, <3>1
  <2>7. ASSUME NEW s \in Slots
        PROVE  s \in DOMAIN slotidx2streamidx' <=> \A i \in DOMAIN q' : q'[i] # s
    <3>1. s \in DOMAIN slotidx2streamidx' <=> s \in DOMAIN slotidx2streamidx \/ s = h
      BY <2>1 DEF Put
    <3>2. s \in DOMAIN slotidx2streamidx <=> \A i \in DOMAIN q : q[i] # s
      BY DEF TableInv, AvailableHoldTheRest
    <3>3. ASSUME s = h, NEW i \in DOMAIN q', q'[i] = h
          PROVE  FALSE
      <4>1. q[i + 1] = q[1] /\ 1 \in DOMAIN q /\ i + 1 \in DOMAIN q
        BY <2>2, <2>5, <3>3
      <4> QED BY <2>5, <4>1 DEF TableInv, AvailableHoldTheRest
    <3>4. ASSUME s # h, NEW i \in DOMAIN q, q[i] = s
          PROVE  \E k \in DOMAIN q' : q'[k] = s
      <4>1. i \in Nat /\ i # 1 /\ i - 1 \in 1 .. Len(q) - 1 /\ (i - 1) + 1 = i
        BY <2>2, <3>4
      <4> QED BY <2>2, <3>4, <4>1
    <3>5. ASSUME NEW k \in DOMAIN q', q'[k] = s
          PROVE  \E i \in DOMAIN q : q[i] = s
      BY <2>2, <2>5, <3>5
    <3> QED BY <3>1, <3>2, <3>3, <3>4, <3>5
  <2>8. AvailableHoldTheRest'
    BY <2>6, <2>7 DEF AvailableHoldTheRest
  <2> QED BY <2>1, <2>2, <2>4, <2>8 DEF TableInv, Put
<1> QED BY <1>1, <1>2

\* A slot that is given back leaves the table exact.
LEMMA FreeKeepsTable ==
    ASSUME TableInv, NEW sid \in Streams, Known(sid), FreeSlot(sid)
    PROVE  /\ TableInv'
           /\ DOMAIN streamidx2slotidx' = DOMAIN streamidx2slotidx \ {sid}
           /\ slotidx2streamidx' = Delete(slotidx2streamidx, streamidx2slotidx[sid])
           /\ \A x \in DOMAIN streamidx2slotidx' :
                 streamidx2slotidx'[x] = streamidx2slotidx[x]
<1> DEFINE slot == streamidx2slotidx[sid]
           q == available_slots
<1>1. /\ slot \in Slots /\ slot \in DOMAIN slotidx2streamidx
      /\ slotidx2streamidx[slot] = sid
  BY DEF TableInv, DictsInverse, Known
<1>2. /\ q' = Append(q, slot)
      /\ slotidx2streamidx' = Delete(slotidx2streamidx, slot)
      /\ streamidx2slotidx' = Delete(streamidx2slotidx, sid)
  BY <1>1 DEF FreeSlot
<1>3. /\ q' \in Seq(Slots) /\ Len(q) \in Nat
      /\ DOMAIN q = 1 .. Len(q) /\ DOMAIN q' = 1 .. Len(q) + 1
      /\ \A i \in 1 .. Len(q) : q'[i] = q[i]
      /\ q'[Len(q) + 1] = slot
  BY <1>1, <1>2, AppendProperties DEF TableInv
<1>4. \A i \in DOMAIN q : q[i] # slot
  BY <1>1 DEF TableInv, AvailableHoldTheRest
<1>5. DictsInverse'
  BY <1>1, <1>2 DEF TableInv, DictsInverse, Delete
<1>6. AvailableHoldTheRest'
  BY <1>1, <1>2, <1>3, <1>4 DEF TableInv, AvailableHoldTheRest, Delete
<1> QED BY <1>1, <1>2, <1>3, <1>5, <1>6 DEF TableInv, Delete

-----------------------------------------------------------------------------
(* The invariant.                                                          *)
LEMMA InitInv == Init => IndInv
<1> SUFFICES ASSUME Init PROVE IndInv
  OBVIOUS
<1> USE SlotsAssumption
<1>1. /\ available_slots \in Seq(Slots) /\ DOMAIN available_slots = 1 .. num_slots
      /\ \A i \in 1 .. num_slots : available_slots[i] = i - 1
  BY DEF Init, BufInit, Slots
<1>2. Members(<<>>) = {}
  BY DEF Members
<1>3. TypeOK
  BY <1>1 DEF Init, BufInit, TypeOK, NoEntries
<1>4. AvailableHoldTheRest
  <2>1. ASSUME NEW s \in Slots PROVE \E i \in DOMAIN available_slots : available_slots[i] = s
    <3>1. s + 1 \in 1 .. num_slots /\ (s + 1) - 1 = s
      BY DEF Slots
    <3> QED BY <1>1, <3>1
  <2> QED BY <1>1, <2>1 DEF AvailableHoldTheRest, Init, BufInit, NoEntries
<1>5. TableInv
  BY <1>1, <1>4 DEF Init, BufInit, TableInv, DictsInverse, NoEntries
<1>6. BatchInv
  BY <1>2, FS_EmptySet DEF Init, BufInit, BatchInv, NoEntries
<1>7. RowsInv
  BY DEF Init, BufInit, RowsInv, FeaturesPrivate, NoEntries
<1> QED BY <1>3, <1>5, <1>6, <1>7 DEF IndInv

\* The caller's batch: all of its streams are open from now on.
LEMMA UpdateKeepsInv ==
    ASSUME IndInv, Update
    PROVE  IndInv'
<1>1. /\ pc = "idle" /\ pc' = "assign" /\ UNCHANGED <<bufVars, unreset>>
      /\ stream_ids' \in Seq(Streams) /\ todo' = stream_ids'
      /\ \A i, j \in DOMAIN stream_ids' : stream_ids'[i] = stream_ids'[j] => i = j
      /\ last' \subseteq Members(stream_ids')
      /\ open' = open \cup Members(stream_ids')
  BY DEF Update, Batches
<1>2. Members(stream_ids') \subseteq Streams /\ IsFiniteSet(Members(stream_ids'))
  BY <1>1, BatchFinite DEF Members
<1>3. IsFiniteSet(open')
  BY <1>1, <1>2, FS_Union DEF IndInv, BatchInv
<1>4. TypeOK'
  BY <1>1, <1>2 DEF IndInv, TypeOK, bufVars
<1>5. TableInv'
  BY <1>1 DEF IndInv, TableInv, DictsInverse, AvailableHoldTheRest, bufVars
<1>6. BatchInv'
  BY <1>1, <1>3 DEF IndInv, BatchInv, Members, bufVars
<1>7. RowsInv'
  BY <1>1 DEF IndInv, RowsInv, FeaturesPrivate, bufVars
<1> QED BY <1>4, <1>5, <1>6, <1>7 DEF IndInv

\* One iteration of the loop that gives slots.
LEMMA AssignKeepsInv ==
    ASSUME IndInv, Assign
    PROVE  IndInv'
<1> DEFINE sid == Head(todo)
<1>1. /\ pc = "assign" /\ pc' = "assign" /\ todo # <<>> /\ todo' = Tail(todo)
      /\ AssignSlot(sid)
      /\ UNCHANGED <<stream_ids, last, open, unreset, audio_bufferers, feature_buffer>>
  BY DEF Assign, AssignSlot
<1>2. /\ sid \in Streams /\ todo' \in Seq(Streams) /\ sid \in Members(stream_ids)
      /\ Members(todo') \subseteq Members(todo)
      /\ \A x \in Members(todo) : x = sid \/ x \in Members(todo')
      /\ \A i, j \in DOMAIN todo' : todo'[i] = todo'[j] => i = j
  BY <1>1, HeadTail, LoopStep DEF IndInv, TypeOK, BatchInv
<1>3. TableInv'
  BY <1>1, <1>2, AssignKeepsTable DEF IndInv
<1> HIDE DEF sid
<1>4. /\ slots_to_reset' \subseteq Slots /\ slots_to_reset \subseteq slots_to_reset'
      /\ DOMAIN streamidx2slotidx' = DOMAIN streamidx2slotidx \cup {sid}
      /\ \A s \in DOMAIN slotidx2streamidx' \ slots_to_reset' :
            s \in DOMAIN slotidx2streamidx /\ slotidx2streamidx'[s] = slotidx2streamidx[s]
  <2>1. CASE Known(sid)
    BY <1>1, <2>1 DEF AssignSlot, Known, IndInv, TypeOK
  <2>2. CASE ~Known(sid)
    <3>1. Head(available_slots) \in Slots
      BY <1>1, <2>2, HeadTail DEF AssignSlot, IndInv, TableInv
    <3> QED BY <1>1, <2>2, <3>1 DEF AssignSlot, Put, IndInv, TypeOK
  <2> QED BY <2>1, <2>2
<1>5. TypeOK'
  BY <1>1, <1>2, <1>3, <1>4 DEF IndInv, TypeOK, TableInv
<1>6. BatchInv'
  <2>1. \A x \in Members(stream_ids) : Known(x)' \/ x \in Members(todo')
    BY <1>1, <1>2, <1>4 DEF IndInv, BatchInv, Known
  <2>2. Members(stream_ids)' = Members(stream_ids) /\ Members(todo)' = Members(todo')
    BY <1>1 DEF Members
  <2> QED BY <1>1, <1>2, <1>4, <2>1, <2>2 DEF IndInv, BatchInv
<1>7. RowsInv'
  BY <1>1, <1>4 DEF IndInv, RowsInv, FeaturesPrivate
<1> QED BY <1>3, <1>5, <1>6, <1>7 DEF IndInv

\* update raises: no slot is free, and the slots taken are not reset.
LEMMA AssignRaisesKeepsInv ==
    ASSUME IndInv, AssignRaises
    PROVE  IndInv'
<1>1. /\ stream_ids' = <<>> /\ todo' = <<>> /\ last' = {} /\ pc' = "idle"
      /\ slots_to_reset' = {} /\ unreset' = unreset \cup slots_to_reset
      /\ UNCHANGED <<streamidx2slotidx, slotidx2streamidx, available_slots, audio_bufferers,
                     feature_buffer, open>>
  BY DEF AssignRaises, AssignSlotRaises, BackToCaller
<1>2. Members(<<>>) = {}
  BY DEF Members
<1>3. TypeOK'
  BY <1>1 DEF IndInv, TypeOK
<1>4. TableInv'
  BY <1>1 DEF IndInv, TableInv, DictsInverse, AvailableHoldTheRest
<1>5. BatchInv'
  BY <1>1, <1>2 DEF IndInv, BatchInv
<1>6. RowsInv'
  BY <1>1 DEF IndInv, RowsInv, FeaturesPrivate
<1> QED BY <1>3, <1>4, <1>5, <1>6 DEF IndInv

\* A batch whose streams are known has its slots: each is held by one of its streams.
LEMMA SlotsOfBatch ==
    ASSUME IndInv, \A x \in Members(stream_ids) : Known(x)
    PROVE  \A s \in SlotsOf(Members(stream_ids)) :
              /\ s \in DOMAIN slotidx2streamidx
              /\ slotidx2streamidx[s] \in Members(stream_ids)
BY DEF IndInv, TableInv, DictsInverse, SlotsOf, Known

\* reset_slots and the audio of the batch: slots taken in this call are clean.
LEMMA BufferAudioKeepsInv ==
    ASSUME IndInv, BufferAudio
    PROVE  IndInv'
<1> DEFINE source == [sid \in Members(stream_ids) |-> sid]
<1>1. /\ pc = "assign" /\ pc' = "features" /\ todo = <<>>
      /\ ResetAndBufferAudio(source)
      /\ unreset' = unreset \ slots_to_reset
      /\ UNCHANGED <<stream_ids, last, todo, open>>
  BY DEF BufferAudio
<1>2. \A x \in Members(stream_ids) : Known(x)
  BY <1>1 DEF IndInv, BatchInv, Members
<1>3. \A s \in SlotsOf(Members(stream_ids)) :
          s \in DOMAIN slotidx2streamidx /\ slotidx2streamidx[s] \in Members(stream_ids)
  BY <1>2, SlotsOfBatch
<1>4. /\ UNCHANGED <<streamidx2slotidx, slotidx2streamidx, available_slots>>
      /\ slots_to_reset' = {} /\ feature_buffer' = Reset(feature_buffer)
      /\ audio_bufferers' = [s \in Slots |->
            Reset(audio_bufferers)[s] \cup
              (IF s \in SlotsOf(Members(stream_ids)) THEN {slotidx2streamidx[s]} ELSE {})]
  BY <1>1, <1>3 DEF ResetAndBufferAudio
<1>5. Members(stream_ids) \subseteq Streams
  BY DEF IndInv, TypeOK, Members
<1>6. TypeOK'
  <2>1. audio_bufferers' \in [Slots -> SUBSET Streams]
    BY <1>3, <1>4, <1>5 DEF IndInv, TypeOK, Reset
  <2>2. feature_buffer' \in [Slots -> SUBSET Streams]
    BY <1>4 DEF IndInv, TypeOK, Reset
  <2> QED BY <1>1, <1>4, <2>1, <2>2 DEF IndInv, TypeOK
<1>7. TableInv'
  BY <1>4 DEF IndInv, TableInv, DictsInverse, AvailableHoldTheRest
<1>8. BatchInv'
  BY <1>1, <1>2, <1>4 DEF IndInv, BatchInv, Members, Known
<1>9. RowsInv'
  <2>1. ASSUME NEW s \in DOMAIN slotidx2streamidx \ unreset'
        PROVE  /\ audio_bufferers'[s] \subseteq {slotidx2streamidx[s]}
               /\ feature_buffer'[s] \subseteq {slotidx2streamidx[s]}
               /\ s \in SlotsOf(Members(stream_ids)) =>
                     audio_bufferers'[s] = {slotidx2streamidx[s]}
    <3>1. s \in Slots
      BY DEF IndInv, TypeOK
    <3>2. Reset(audio_bufferers)[s] \subseteq {slotidx2streamidx[s]}
          /\ Reset(feature_buffer)[s] \subseteq {slotidx2streamidx[s]}
      BY <1>1, <2>1, <3>1 DEF IndInv, RowsInv, Reset
    <3> QED BY <1>4, <3>1, <3>2
  <2>2. SlotsOf(Members(stream_ids))' = SlotsOf(Members(stream_ids))
    BY <1>1, <1>4 DEF SlotsOf, Members
  <2> QED BY <1>1, <1>3, <1>4, <2>1, <2>2 DEF RowsInv, FeaturesPrivate
<1> QED BY <1>6, <1>7, <1>8, <1>9 DEF IndInv

\* preprocess raised: the audio stays buffered, the features do not come.
LEMMA PreprocessRaisesKeepsInv ==
    ASSUME IndInv, PreprocessRaises
    PROVE  IndInv'
<1>1. /\ pc = "features" /\ stream_ids' = <<>> /\ todo' = <<>> /\ last' = {} /\ pc' = "idle"
      /\ UNCHANGED <<bufVars, open, unreset>>
  BY DEF PreprocessRaises, BackToCaller
<1>2. Members(<<>>) = {}
  BY DEF Members
<1>3. TypeOK'
  BY <1>1 DEF IndInv, TypeOK, bufVars
<1>4. TableInv'
  BY <1>1 DEF IndInv, TableInv, DictsInverse, AvailableHoldTheRest, bufVars
<1>5. BatchInv'
  BY <1>1, <1>2 DEF IndInv, BatchInv, bufVars
<1>6. RowsInv'
  BY <1>1 DEF IndInv, RowsInv, FeaturesPrivate, bufVars
<1> QED BY <1>3, <1>4, <1>5, <1>6 DEF IndInv

\* The features of the batch are made from its own audio.
LEMMA FeaturesKeepsInv ==
    ASSUME IndInv, Features
    PROVE  IndInv'
<1>1. /\ pc = "features" /\ pc' = "free" /\ todo' = stream_ids
      /\ UNCHANGED <<streamidx2slotidx, slotidx2streamidx, available_slots, audio_bufferers,
                     slots_to_reset, stream_ids, last, open, unreset>>
      /\ feature_buffer' = [s \in Slots |->
            feature_buffer[s] \cup
              (IF s \in SlotsOf(Members(stream_ids)) THEN audio_bufferers[s] ELSE {})]
  BY DEF Features, BufferFeatures
<1>2. \A x \in Members(stream_ids) : Known(x)
  BY <1>1 DEF IndInv, BatchInv
<1>3. \A s \in SlotsOf(Members(stream_ids)) : s \in DOMAIN slotidx2streamidx
  BY <1>2, SlotsOfBatch
<1>4. slots_to_reset = {}
  BY <1>1 DEF IndInv, BatchInv
<1>5. TypeOK'
  <2>1. feature_buffer' \in [Slots -> SUBSET Streams]
    BY <1>1 DEF IndInv, TypeOK
  <2> QED BY <1>1, <2>1 DEF IndInv, TypeOK
<1>6. TableInv'
  BY <1>1 DEF IndInv, TableInv, DictsInverse, AvailableHoldTheRest
<1>7. BatchInv'
  <2>1. \A i, j \in DOMAIN stream_ids : stream_ids[i] = stream_ids[j] => i = j
    BY DEF IndInv, BatchInv
  <2> QED BY <1>1, <1>2, <1>4, <2>1 DEF IndInv, BatchInv, Members, Known
<1>8. RowsInv'
  <2>1. ASSUME NEW s \in DOMAIN slotidx2streamidx \ unreset
        PROVE  /\ feature_buffer'[s] \subseteq {slotidx2streamidx[s]}
               /\ s \in SlotsOf(Members(stream_ids)) =>
                     feature_buffer'[s] = {slotidx2streamidx[s]}
    <3>1. s \in Slots
      BY DEF IndInv, TypeOK
    <3>2. feature_buffer[s] \subseteq {slotidx2streamidx[s]}
      BY <1>4 DEF IndInv, RowsInv
    <3>3. s \in SlotsOf(Members(stream_ids)) => audio_bufferers[s] = {slotidx2streamidx[s]}
      BY <1>1, <2>1 DEF IndInv, RowsInv
    <3> QED BY <1>1, <3>1, <3>2, <3>3
  <2>2. SlotsOf(Members(stream_ids) \cap DOMAIN streamidx2slotidx)'
           \subseteq SlotsOf(Members(stream_ids))
    BY <1>1 DEF SlotsOf, Members
  <2>3. FeaturesPrivate'
    BY <1>1, <1>3, <2>1, <2>2 DEF FeaturesPrivate
  <2> QED BY <1>1, <1>4, <2>1, <2>3 DEF IndInv, RowsInv
<1> QED BY <1>5, <1>6, <1>7, <1>8 DEF IndInv

\* One iteration of free_slots: a slot whose stream ended goes back to the queue.
LEMMA FreeKeepsInv ==
    ASSUME IndInv, Free
    PROVE  IndInv'
<1> DEFINE sid == Head(todo)
<1>1. /\ pc = "free" /\ pc' = "free" /\ todo # <<>> /\ todo' = Tail(todo)
      /\ IF sid \in last THEN FreeSlot(sid) ELSE UNCHANGED bufVars
      /\ UNCHANGED <<stream_ids, last, open, unreset>>
  BY DEF Free
<1>2. /\ sid \in Streams /\ todo' \in Seq(Streams)
      /\ sid \in Members(todo) /\ sid \notin Members(todo')
      /\ Members(todo') \subseteq Members(todo)
      /\ \A x \in Members(todo) : x = sid \/ x \in Members(todo')
      /\ \A i, j \in DOMAIN todo' : todo'[i] = todo'[j] => i = j
  BY <1>1, HeadTail, LoopStep DEF IndInv, TypeOK, BatchInv
<1>3. Known(sid)
  BY <1>1, <1>2 DEF IndInv, BatchInv
<1>4. Members(stream_ids)' = Members(stream_ids) /\ Members(todo)' = Members(todo')
  BY <1>1 DEF Members
<1> HIDE DEF sid
<1>5. CASE sid \in last
  <2>1. FreeSlot(sid)
    BY <1>1, <1>5
  <2>2. /\ TableInv'
        /\ DOMAIN streamidx2slotidx' = DOMAIN streamidx2slotidx \ {sid}
        /\ slotidx2streamidx' = Delete(slotidx2streamidx, streamidx2slotidx[sid])
        /\ \A x \in DOMAIN streamidx2slotidx' : streamidx2slotidx'[x] = streamidx2slotidx[x]
    BY <1>2, <1>3, <2>1, FreeKeepsTable DEF IndInv
  <2>3. UNCHANGED <<audio_bufferers, feature_buffer, slots_to_reset>>
    BY <2>1 DEF FreeSlot
  <2>4. TypeOK'
    BY <1>1, <1>2, <2>2, <2>3 DEF IndInv, TypeOK, TableInv
  <2>5. BatchInv'
    <3>1. \A x : Known(x)' <=> Known(x) /\ x # sid
      BY <2>2 DEF Known
    <3>2. \A x \in Members(todo') : Known(x)'
      BY <1>1, <1>2, <3>1 DEF IndInv, BatchInv
    <3>3. \A x \in last : Known(x)' => x \in Members(todo')
      BY <1>1, <1>2, <3>1 DEF IndInv, BatchInv
    <3> QED BY <1>1, <1>2, <1>4, <2>2, <2>3, <3>2, <3>3 DEF IndInv, BatchInv
  <2>6. RowsInv'
    <3>1. \A s \in DOMAIN slotidx2streamidx' :
            s \in DOMAIN slotidx2streamidx /\ slotidx2streamidx'[s] = slotidx2streamidx[s]
      BY <2>2 DEF Delete
    <3>2. SlotsOf(Members(stream_ids) \cap DOMAIN streamidx2slotidx)'
             \subseteq SlotsOf(Members(stream_ids) \cap DOMAIN streamidx2slotidx)
      BY <1>4, <2>2 DEF SlotsOf
    <3>3. \A s \in SlotsOf(Members(stream_ids) \cap DOMAIN streamidx2slotidx)' :
            s \in DOMAIN slotidx2streamidx'
      BY <2>2 DEF SlotsOf, TableInv, DictsInverse
    <3>4. FeaturesPrivate'
      BY <1>1, <2>3, <3>1, <3>2, <3>3 DEF IndInv, RowsInv, FeaturesPrivate
    <3> QED BY <1>1, <2>3, <3>1, <3>4 DEF IndInv, RowsInv
  <2> QED BY <2>2, <2>4, <2>5, <2>6 DEF IndInv
<1>6. CASE sid \notin last
  <2>1. UNCHANGED bufVars
    BY <1>1, <1>6
  <2>2. TypeOK'
    BY <1>1, <1>2, <2>1 DEF IndInv, TypeOK, bufVars
  <2>3. TableInv'
    BY <2>1 DEF IndInv, TableInv, DictsInverse, AvailableHoldTheRest, bufVars
  <2>4. BatchInv'
    BY <1>1, <1>2, <1>4, <1>6, <2>1 DEF IndInv, BatchInv, bufVars, Known
  <2>5. RowsInv'
    BY <1>1, <2>1 DEF IndInv, RowsInv, FeaturesPrivate, bufVars, SlotsOf, Members
  <2> QED BY <2>2, <2>3, <2>4, <2>5 DEF IndInv
<1> QED BY <1>5, <1>6

\* update returns: streams that ended hold no slot and are not open any more.
LEMMA ReturnKeepsInv ==
    ASSUME IndInv, Return
    PROVE  IndInv'
<1>1. /\ pc = "free" /\ todo = <<>> /\ open' = open \ last
      /\ stream_ids' = <<>> /\ todo' = <<>> /\ last' = {} /\ pc' = "idle"
      /\ UNCHANGED <<bufVars, unreset>>
  BY DEF Return, BackToCaller
<1>2. Members(<<>>) = {}
  BY DEF Members
<1>3. \A x \in last : x \notin DOMAIN streamidx2slotidx
  BY <1>1, <1>2 DEF IndInv, BatchInv, Known
<1>4. IsFiniteSet(open')
  BY <1>1, FS_Subset DEF IndInv, BatchInv
<1>5. TypeOK'
  BY <1>1 DEF IndInv, TypeOK, bufVars
<1>6. TableInv'
  BY <1>1 DEF IndInv, TableInv, DictsInverse, AvailableHoldTheRest, bufVars
<1>7. BatchInv'
  BY <1>1, <1>2, <1>3, <1>4 DEF IndInv, BatchInv, bufVars
<1>8. RowsInv'
  BY <1>1 DEF IndInv, RowsInv, FeaturesPrivate, bufVars
<1> QED BY <1>5, <1>6, <1>7, <1>8 DEF IndInv

\* The inductive invariant: the table, who of the batch has a slot where, and what
\* each row holds.
THEOREM Invariance == Spec => []IndInv
<1>1. IndInv /\ [Next]_vars => IndInv'
  <2> SUFFICES ASSUME IndInv, [Next]_vars PROVE IndInv'
    OBVIOUS
  <2>1. CASE UNCHANGED vars
    <3>1. TypeOK' /\ TableInv'
      BY <2>1
      DEF vars, bufVars, IndInv, TypeOK, TableInv, DictsInverse, AvailableHoldTheRest
    <3>2. BatchInv'
      BY <2>1 DEF vars, bufVars, IndInv, BatchInv, Members, Known
    <3>3. RowsInv'
      BY <2>1 DEF vars, bufVars, IndInv, RowsInv, FeaturesPrivate, SlotsOf, Members
    <3> QED BY <3>1, <3>2, <3>3 DEF IndInv
  <2> QED BY <2>1, UpdateKeepsInv, AssignKeepsInv, AssignRaisesKeepsInv, BufferAudioKeepsInv,
             PreprocessRaisesKeepsInv, FeaturesKeepsInv, FreeKeepsInv, ReturnKeepsInv DEF Next
<1> QED BY <1>1, InitInv, PTL DEF Spec

\* Type correctness of the bufferer and its caller.
THEOREM TypeCorrect == Spec => []TypeOK
BY Invariance, PTL DEF IndInv

\* The queue of free slots is exact: no slot of the bufferer leaks or is handed out twice.
THEOREM NoSlotLeaks == Spec => []AvailableHoldTheRest
BY Invariance, PTL DEF IndInv, TableInv

\* Features returned for a stream are made of its own audio alone, but for slots an
\* update that raised had taken and never reset.
THEOREM FeaturesStayPrivate == Spec => []FeaturesPrivate
BY Invariance, PTL DEF IndInv, RowsInv

\* When no slot is free every slot has a stream of its own among the open ones, and the
\* stream that finds none is one more.
LEMMA RaiseIsOverLimit ==
    ASSUME IndInv, AssignRaises
    PROVE  Cardinality(open) > num_slots
<1> DEFINE sid == Head(todo)
           others == open \ {sid}
<1>1. todo # <<>> /\ ~Known(sid) /\ available_slots = <<>>
  BY DEF AssignRaises, AssignSlotRaises
<1>2. sid \in open
  <2>1. todo \in Seq(Streams) /\ Members(todo) \subseteq open
    BY DEF IndInv, TypeOK, BatchInv
  <2>2. sid \in Members(todo)
    BY <1>1, <2>1, LoopStep DEF IndInv, BatchInv
  <2> QED BY <2>1, <2>2
<1>3. IsFiniteSet(open) /\ IsFiniteSet(others) /\ Cardinality(others) = Cardinality(open) - 1
  BY <1>2, FS_RemoveElement DEF IndInv, BatchInv
<1>4. DOMAIN slotidx2streamidx = Slots
  <2>1. DOMAIN available_slots = {}
    BY <1>1
  <2>2. \A s \in Slots : s \in DOMAIN slotidx2streamidx
    BY <2>1 DEF IndInv, TableInv, AvailableHoldTheRest
  <2> QED BY <2>2 DEF IndInv, TableInv
<1>5. slotidx2streamidx \in Injection(Slots, others)
  <2>1. slotidx2streamidx \in [Slots -> others]
    BY <1>1, <1>4 DEF IndInv, TableInv, DictsInverse, BatchInv, Known
  <2>2. \A a, b \in Slots : slotidx2streamidx[a] = slotidx2streamidx[b] => a = b
    BY <1>4 DEF IndInv, TableInv, DictsInverse
  <2> QED BY <1>4, <2>1, <2>2 DEF Injection, IsInjective
<1>6. Cardinality(Slots) <= Cardinality(others)
  BY <1>3, <1>5, FS_Injection
<1>7. Cardinality(Slots) = num_slots
  BY SlotsAssumption, FS_Interval DEF Slots
<1>8. Cardinality(open) \in Nat /\ num_slots \in Nat
  BY <1>3, SlotsAssumption, FS_CardinalityType
<1> QED BY <1>3, <1>6, <1>7, <1>8

\* "No free slots available" is raised only over the limit, whatever raised before.
THEOREM RaisesOverLimit == Spec => RaisesOnlyOverLimit
<1>1. IndInv /\ [Next]_vars => [AssignRaises => Cardinality(open) > num_slots]_vars
  BY RaiseIsOverLimit
<1> QED BY <1>1, Invariance, PTL DEF Spec, RaisesOnlyOverLimit

-----------------------------------------------------------------------------
(* The refinement: who holds each slot, as SlotAllocation sees it.         *)
Owner == [s \in Slots |->
            IF s \in DOMAIN slotidx2streamidx THEN slotidx2streamidx[s] ELSE NoStream]

\* A stream without a slot that is given one is an Acquire of the abstract table.
LEMMA AssignAcquires ==
    ASSUME IndInv, Assign
    PROVE  Table!Acquire \/ Owner' = Owner
<1>0. PICK sid \in Streams : sid = Head(todo)
  BY HeadTail DEF Assign, IndInv, TypeOK
<1>1. AssignSlot(sid)
  BY <1>0 DEF Assign
<1>2. CASE Known(sid)
  BY <1>1, <1>2 DEF AssignSlot, Owner
<1>3. CASE ~Known(sid)
  <2> DEFINE h == Head(available_slots)
             new == {sid}
             place == [a \in new |-> h]
  <2>1. slotidx2streamidx' = Put(slotidx2streamidx, h, sid)
    BY <1>1, <1>3 DEF AssignSlot
  <2>2. h \in Slots /\ h = available_slots[1] /\ 1 \in DOMAIN available_slots
    BY <1>1, <1>3, HeadTail DEF AssignSlot, IndInv, TypeOK
  <2>3. h \notin DOMAIN slotidx2streamidx
    BY <2>2 DEF IndInv, TableInv, AvailableHoldTheRest
  <2>4. \A s \in Slots : Owner[s] # sid
    BY <1>3, BatchesAssumption DEF Owner, IndInv, TableInv, DictsInverse, Known
  <2>5. new \in SUBSET (Streams \ Table!Holders)
    BY <2>4 DEF Table!Holders, Owner
  <2>6. place \in [new -> {s \in Slots : Owner[s] = NoStream}]
    BY <2>2, <2>3 DEF Owner
  <2>7. \A a, b \in new : place[a] = place[b] => a = b
    OBVIOUS
  <2>8. ASSUME NEW s \in Slots
        PROVE  (IF s \in DOMAIN slotidx2streamidx' THEN slotidx2streamidx'[s] ELSE NoStream)
                 = IF \E a \in new : place[a] = s
                   THEN CHOOSE a \in new : place[a] = s ELSE Owner[s]
    <3>1. CASE s = h
      <4>1. (\E a \in new : place[a] = s) /\ (CHOOSE a \in new : place[a] = s) = sid
        BY <3>1
      <4>2. s \in DOMAIN slotidx2streamidx' /\ slotidx2streamidx'[s] = sid
        BY <2>1, <3>1 DEF Put
      <4> QED BY <4>1, <4>2
    <3>2. CASE s # h
      BY <2>1, <3>2 DEF Put, Owner
    <3> QED BY <3>1, <3>2
  <2>9. Owner' = [s \in Slots |-> IF \E a \in new : place[a] = s
                                  THEN CHOOSE a \in new : place[a] = s ELSE Owner[s]]
    BY <2>8 DEF Owner
  <2> QED BY <2>5, <2>6, <2>7, <2>9 DEF Table!Acquire, Owner
<1> QED BY <1>2, <1>3

\* The slot of an ended stream is a Release of it.
LEMMA FreeReleases ==
    ASSUME IndInv, Free
    PROVE  Table!Release \/ Owner' = Owner
<1>1. CASE Head(todo) \in last
  <2> DEFINE slot == streamidx2slotidx[Head(todo)]
  <2>1. Known(Head(todo))
    BY LoopStep DEF Free, IndInv, TypeOK, BatchInv
  <2>2. slotidx2streamidx' = Delete(slotidx2streamidx, slot)
    BY <1>1 DEF Free, FreeSlot
  <2>3. {slot} \in SUBSET Slots
    BY <2>1 DEF IndInv, TypeOK, Known
  <2>4. Owner' = [s \in Slots |-> IF s \in {slot} THEN NoStream ELSE Owner[s]]
    BY <2>2 DEF Owner, Delete
  <2>5. \E freed \in SUBSET Slots :
            Owner' = [s \in Slots |-> IF s \in freed THEN NoStream ELSE Owner[s]]
    <3> HIDE DEF Owner, slot
    <3> QED BY <2>3, <2>4
  <2> QED BY <2>5 DEF Table!Release, Owner
<1>2. CASE Head(todo) \notin last
  BY <1>2 DEF Free, bufVars, Owner
<1> QED BY <1>1, <1>2

\* The bufferer's dictionaries and queue, under any batches and any raise, implement the
\* abstract slot table.
THEOREM ImplementsTable == Spec => BuffererImplementsTable
<1>1. Init => Table!Init
  BY DEF Init, BufInit, NoEntries, Table!Init
<1>2. IndInv /\ [Next]_vars => [Table!Next]_Owner
  <2> SUFFICES ASSUME IndInv, [Next]_vars PROVE Table!Next \/ Owner' = Owner
    OBVIOUS
  <2>1. CASE Assign
    BY <2>1, AssignAcquires DEF Table!Next
  <2>2. CASE Free
    BY <2>2, FreeReleases DEF Table!Next
  <2>3. CASE UNCHANGED slotidx2streamidx
    BY <2>3 DEF Owner
  <2> QED BY <2>1, <2>2, <2>3
          DEF Next, Update, AssignRaises, AssignSlotRaises, BufferAudio, ResetAndBufferAudio,
              PreprocessRaises, Features, BufferFeatures, Return, vars, bufVars
<1> QED BY <1>1, <1>2, Invariance, PTL
        DEF Spec, BuffererImplementsTable, Table!Spec, Owner

-----------------------------------------------------------------------------
(* The two tables together.                                                *)

Manager == INSTANCE ContextManagerProofs WITH
    streamidx2slotidx <- ctx_streamidx2slotidx, slotidx2streamidx <- ctx_slotidx2streamidx,
    stream_ids <- ctx_stream_ids, todo <- ctx_todo, pc <- ctx_pc

-----------------------------------------------------------------------------
\* The assumptions of the context manager's theorems are those of SlotTables.
LEMMA ManagerAssumptions == Manager!SlotsAssumption /\ Manager!BatchesAssumption
BY SlotsAssumption, BatchesAssumption DEF Manager!SlotsAssumption, Manager!BatchesAssumption

\* The context manager's part of both tables begins as the protocol does,
LEMMA ManagerStarts == TablesInit => Manager!Init
BY DEF TablesInit, Ctx!Init, Manager!Init, Ctx!CMInit, Manager!CMInit,
       Ctx!NoEntries, Manager!NoEntries, Ctx!Slots, Manager!Slots, Ctx!Blank, Manager!Blank

\* and its steps are steps of the protocol.
LEMMA ManagerNext == Ctx!Next => Manager!Next
<1>1. Ctx!StartStep => Manager!StartStep
  BY DEF Ctx!StartStep, Manager!StartStep, Ctx!Batches, Manager!Batches,
         Ctx!Members, Manager!Members, Ctx!cmVars, Manager!cmVars
<1>2. Ctx!Assign => Manager!Assign
  BY DEF Ctx!Assign, Manager!Assign, Ctx!AssignSlot, Manager!AssignSlot,
         Ctx!Known, Manager!Known, Ctx!Put, Manager!Put
<1>3. Ctx!AssignRaises => Manager!AssignRaises
  BY DEF Ctx!AssignRaises, Manager!AssignRaises, Ctx!NoFreeSlot, Manager!NoFreeSlot,
         Ctx!Known, Manager!Known, Ctx!BackToCaller, Manager!BackToCaller,
         Ctx!cmVars, Manager!cmVars
<1>4. Ctx!Read => Manager!Read
  BY DEF Ctx!Read, Manager!Read, Ctx!ReadContext, Manager!ReadContext
<1>5. Ctx!EncodeAndUpdate => Manager!EncodeAndUpdate
  BY DEF Ctx!EncodeAndUpdate, Manager!EncodeAndUpdate, Ctx!UpdateCache, Manager!UpdateCache,
         Ctx!Slots, Manager!Slots
<1>6. Ctx!EncodeRaises => Manager!EncodeRaises
  BY DEF Ctx!EncodeRaises, Manager!EncodeRaises, Ctx!BackToCaller, Manager!BackToCaller,
         Ctx!cmVars, Manager!cmVars
<1>7. Ctx!Wipe => Manager!Wipe
  BY DEF Ctx!Wipe, Manager!Wipe, Ctx!WipeSlots, Manager!WipeSlots, Ctx!Slots, Manager!Slots,
         Ctx!Blank, Manager!Blank
<1>8. Ctx!Free => Manager!Free
  BY DEF Ctx!Free, Manager!Free, Ctx!FreeSlot, Manager!FreeSlot, Ctx!Delete, Manager!Delete,
         Ctx!cmVars, Manager!cmVars
<1>9. Ctx!EndStep => Manager!EndStep
  BY DEF Ctx!EndStep, Manager!EndStep, Ctx!BackToCaller, Manager!BackToCaller,
         Ctx!cmVars, Manager!cmVars
<1> QED
  BY <1>1, <1>2, <1>3, <1>4, <1>5, <1>6, <1>7, <1>8, <1>9 DEF Ctx!Next, Manager!Next

\* A behaviour that drives either table drives the context manager by its protocol.
LEMMA DrivesManager == TablesSpec => Manager!Spec
<1>1. [TablesNext]_tableVars => [Manager!Next]_(Manager!vars)
  <2>1. OfBufferer \/ UNCHANGED tableVars => UNCHANGED Ctx!vars
    BY DEF OfBufferer, tableVars, ctxVars, Ctx!vars, Ctx!cmVars
  <2>2. TablesNext => OfBufferer \/ Ctx!Next
    BY DEF TablesNext, Ctx!Next
  <2>3. UNCHANGED Ctx!vars => UNCHANGED Manager!vars
    BY DEF Ctx!vars, Ctx!cmVars, Manager!vars, Manager!cmVars
  <2> QED
    BY <2>1, <2>2, <2>3, ManagerNext
<1> QED
  BY <1>1, ManagerStarts, PTL DEF TablesSpec, Manager!Spec

\* And the bufferer by its own.
LEMMA DrivesBufferer == TablesSpec => Spec
<1>1. TablesInit => Init
  BY DEF TablesInit
<1>2. [TablesNext]_tableVars => [Next]_vars
  <2> SUFFICES ASSUME [TablesNext]_tableVars PROVE Next \/ UNCHANGED vars
    OBVIOUS
  <2>1. CASE OfContextManager \/ UNCHANGED tableVars
    BY <2>1 DEF OfContextManager, tableVars
  <2> QED
    BY <2>1 DEF TablesNext, Next
<1> QED
  BY <1>1, <1>2, PTL DEF TablesSpec, Spec

-----------------------------------------------------------------------------
\* The context manager's queue of free slots holds exactly the slots without a stream.
THEOREM QueueExact == TablesSpec => []QueueHoldsTheRest
<1>1. Manager!QueueHoldsTheRest => QueueHoldsTheRest
  BY DEF QueueHoldsTheRest, Ctx!QueueHoldsTheRest, Manager!QueueHoldsTheRest,
         Ctx!Slots, Manager!Slots
<1> QED
  BY <1>1, DrivesManager, ManagerAssumptions, Manager!NoSlotLeaks, PTL

\* Its cache rows hold audio of their owner only.
THEOREM RowsArePrivate == TablesSpec => []RowsPrivate
<1>1. Manager!RowsPrivate => RowsPrivate
  BY DEF RowsPrivate, Ctx!RowsPrivate, Manager!RowsPrivate, Ctx!Slots, Manager!Slots
<1> QED
  BY <1>1, DrivesManager, ManagerAssumptions, Manager!RowsStayPrivate, PTL

\* A step of it that reaches its end has given back the slots of ended streams.
THEOREM EndedGiveBack == TablesSpec => EndedStreamsReleased
<1>1. Manager!EndedStreamsReleased => EndedStreamsReleased
  BY DEF EndedStreamsReleased, Ctx!EndedStreamsReleased, Manager!EndedStreamsReleased,
         Ctx!vars, Manager!vars, Ctx!cmVars, Manager!cmVars, Ctx!Known, Manager!Known
<1> QED
  BY <1>1, DrivesManager, ManagerAssumptions, Manager!EndedReleased, PTL

\* A step of it leaves the rows of streams outside its batch as they were.
THEOREM OthersStay == TablesSpec => OthersUntouched
<1>1. Manager!OthersUntouched => OthersUntouched
  BY DEF OthersUntouched, Ctx!OthersUntouched, Manager!OthersUntouched,
         Ctx!vars, Manager!vars, Ctx!cmVars, Manager!cmVars
<1> QED
  BY <1>1, DrivesManager, ManagerAssumptions, Manager!OtherStreamsUntouched, PTL

\* The features of the bufferer are made of audio of their own stream.
THEOREM FeaturesArePrivate == TablesSpec => []FeaturesPrivate
BY DrivesBufferer, FeaturesStayPrivate, PTL

\* It runs out of slots only over the limit.
THEOREM RaisesOnlyWhenOver == TablesSpec => RaisesOnlyOverLimit
BY DrivesBufferer, RaisesOverLimit, PTL

\* The bufferer and the context manager both implement the abstract slot table, in every
\* behaviour that drives either.
THEOREM TablesImplementSlots == TablesSpec => ImplementsSlotAllocation
<1>1. Manager!ImplementsSlotAllocation => Ctx!ImplementsSlotAllocation
  BY PTL DEF Manager!ImplementsSlotAllocation, Ctx!ImplementsSlotAllocation,
         Manager!Table!Spec, Ctx!Table!Spec, Manager!Table!Init, Ctx!Table!Init,
         Manager!Table!Next, Ctx!Table!Next, Manager!Table!Acquire, Ctx!Table!Acquire,
         Manager!Table!Release, Ctx!Table!Release, Manager!Table!Holders, Ctx!Table!Holders,
         Manager!Slots, Ctx!Slots
<1> QED
  BY <1>1, DrivesBufferer, ImplementsTable, DrivesManager, ManagerAssumptions,
     Manager!ImplementsTable, PTL DEF ImplementsSlotAllocation
=============================================================================
