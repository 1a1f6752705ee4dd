-------------------------- MODULE StreamingProofs --------------------------
(***************************************************************************)
(* Proofs about the streaming ASR pipeline: the frame source, the step of  *)
(* the cache-aware pipeline, and its two clients, for any files, any       *)
(* number of slots, any batch size, any sessions and any raises.           *)
(***************************************************************************)
EXTENDS PipelineClients, FiniteSetTheorems, SequenceTheorems, WellFoundedInduction, TLAPS

(* Sequences.                                                              *)
Distinct(s) == \A i, j \in DOMAIN s : s[i] = s[j] => i = j

\* Induction over the natural numbers, for a set instead of a predicate.
LEMMA Induction ==
  ASSUME NEW S \in SUBSET Nat, 0 \in S, \A n \in S : n + 1 \in S
  PROVE  S = Nat
<1> SUFFICES ASSUME NEW k \in Nat, k \notin S PROVE FALSE
  OBVIOUS
<1>1. IsWellFoundedOn(OpToRel(<, Nat), Nat)
  BY NatLessThanWellFounded
<1>2. PICK n \in Nat \ S : \A m \in Nat \ S : <<m, n>> \notin OpToRel(<, Nat)
  BY <1>1, WFMin
<1>3. n # 0 /\ n - 1 \in Nat /\ (n - 1) + 1 = n /\ n - 1 < n
  <2>1. n \in Nat /\ n # 0
    OBVIOUS
  <2> QED BY ONLY <2>1
<1>4. n - 1 \in S
  BY <1>2, <1>3 DEF OpToRel
<1> QED BY <1>2, <1>3, <1>4

\* Appending an element that is not there yet.
LEMMA AppendIs ==
  ASSUME NEW X, NEW s \in Seq(X), NEW x \in X
  PROVE  /\ Append(s, x) \in Seq(X) /\ Len(Append(s, x)) = Len(s) + 1
         /\ ToSet(Append(s, x)) = ToSet(s) \cup {x}
         /\ Distinct(s) /\ x \notin ToSet(s) => Distinct(Append(s, x))
<1> DEFINE t == Append(s, x)
           l == Len(s)
<1>1. /\ t \in Seq(X) /\ Len(t) = l + 1 /\ l \in Nat /\ t[l + 1] = x
      /\ DOMAIN s = 1 .. l /\ DOMAIN t = 1 .. l + 1
      /\ \A i \in 1 .. l : t[i] = s[i]
  BY AppendProperties
<1> HIDE DEF t, l
<1>2. \A i \in 1 .. l + 1 : i = l + 1 \/ i \in 1 .. l
  BY <1>1
<1>3. 1 .. l \subseteq 1 .. l + 1 /\ l + 1 \in 1 .. l + 1
  BY <1>1
<1>4. ToSet(t) = ToSet(s) \cup {x}
  BY <1>1, <1>2, <1>3 DEF ToSet
<1>5. ASSUME Distinct(s), x \notin ToSet(s) PROVE Distinct(t)
  BY <1>1, <1>2, <1>5 DEF Distinct, ToSet
<1> QED BY <1>1, <1>4, <1>5 DEF t, l

\* What Only picks out: what lies in the set, each as often as it was there.
LEMMA OnlyIs ==
  ASSUME NEW X, NEW s \in Seq(X), NEW T
  PROVE  /\ Only(s, T) \in Seq(X)
         /\ ToSet(Only(s, T)) = ToSet(s) \cap T
         /\ Len(Only(s, T)) <= Len(s)
         /\ Distinct(s) => Distinct(Only(s, T))
<1> DEFINE l == Len(s)
           Step(f, n) == IF n = 0 THEN <<>>
                         ELSE IF s[n] \in T THEN Append(f[n - 1], s[n]) ELSE f[n - 1]
           only == CHOOSE f : f = [n \in 0 .. l |-> Step(f, n)]
<1>1. Only(s, T) = only[l]
  BY DEF Only
<1>2. l \in Nat /\ DOMAIN s = 1 .. l /\ \A i \in 1 .. l : s[i] \in X
  OBVIOUS
<1> HIDE DEF l
<1>3. only = [n \in 0 .. l |-> Step(only, n)]
  <2> DEFINE Built(m) == \E f \in [0 .. m -> Seq(X)] : \A n \in 0 .. m : f[n] = Step(f, n)
             P == {m \in Nat : m <= l => Built(m)}
  <2>1. 0 \in P
    <3> DEFINE f == [n \in 0 .. 0 |-> <<>>]
    <3>1. f \in [0 .. 0 -> Seq(X)] /\ \A n \in 0 .. 0 : f[n] = Step(f, n)
      OBVIOUS
    <3> QED BY <3>1
  <2>2. ASSUME NEW m \in P PROVE m + 1 \in P
    <3> HIDE DEF Step
    <3> SUFFICES ASSUME m + 1 <= l PROVE Built(m + 1)
      <4> HIDE DEF Built
      <4> QED BY <2>2
    <3>1. PICK f \in [0 .. m -> Seq(X)] : \A n \in 0 .. m : f[n] = Step(f, n)
      BY <1>2, <2>2
    <3> DEFINE next == IF s[m + 1] \in T THEN Append(f[m], s[m + 1]) ELSE f[m]
               g == [n \in 0 .. m + 1 |-> IF n = m + 1 THEN next ELSE f[n]]
    <3>2. next \in Seq(X)
      BY <1>2, <3>1
    <3>3. g \in [0 .. m + 1 -> Seq(X)]
      BY <3>1, <3>2
    <3>4. m + 1 \in 0 .. m + 1 /\ m + 1 # 0 /\ (m + 1) - 1 = m /\ m \in 0 .. m + 1 /\ m # m + 1
      OBVIOUS
    <3>5. g[m + 1] = Step(g, m + 1)
      <4>1. g[m + 1] = next /\ g[m] = f[m]
        BY <3>4
      <4> HIDE DEF g
      <4> USE DEF Step
      <4> QED BY <3>4, <4>1
    <3>6. ASSUME NEW n \in 0 .. m PROVE g[n] = Step(g, n)
      <4>1. g[n] = f[n] /\ (n # 0 => g[n - 1] = f[n - 1])
        OBVIOUS
      <4> HIDE DEF g
      <4> USE DEF Step
      <4> QED BY <3>1, <4>1
    <3>7. \A n \in 0 .. m + 1 : n = m + 1 \/ n \in 0 .. m
      OBVIOUS
    <3> HIDE DEF g
    <3> QED BY <3>3, <3>5, <3>6, <3>7
  <2>3. l \in P
    <3> HIDE DEF P
    <3>1. P \subseteq Nat
      BY DEF P
    <3> QED BY <1>2, <2>1, <2>2, <3>1, Induction
  <2>4. PICK f \in [0 .. l -> Seq(X)] : \A n \in 0 .. l : f[n] = Step(f, n)
    BY <1>2, <2>3
  <2>5. f = [n \in 0 .. l |-> Step(f, n)]
    BY <2>4
  <2> HIDE DEF Step
  <2> QED BY <2>5
<1> HIDE DEF only
<1>4. /\ only[0] = <<>>
      /\ \A m \in 0 .. l - 1 : only[m + 1] = IF s[m + 1] \in T THEN Append(only[m], s[m + 1])
                                                                ELSE only[m]
  <2>1. ASSUME NEW m \in 0 .. l - 1
        PROVE  only[m + 1] = IF s[m + 1] \in T THEN Append(only[m], s[m + 1]) ELSE only[m]
    <3>1. m + 1 \in 0 .. l /\ m + 1 # 0 /\ (m + 1) - 1 = m
      BY <1>2
    <3> QED BY <1>3, <3>1
  <2>2. only[0] = <<>>
    <3>1. 0 \in 0 .. l
      BY <1>2
    <3> QED BY <1>3, <3>1
  <2> QED BY <2>1, <2>2
<1> HIDE DEF Step
<1> DEFINE Holds(m) == /\ only[m] \in Seq(X) /\ Len(only[m]) <= m
                       /\ ToSet(only[m]) = {s[i] : i \in 1 .. m} \cap T
                       /\ Distinct(s) => Distinct(only[m])
           Q == {m \in Nat : m <= l => Holds(m)}
<1>5. 0 \in Q
  <2>1. <<>> \in Seq(X) /\ Len(<<>>) <= 0 /\ ToSet(<<>>) = {} /\ Distinct(<<>>)
    BY DEF ToSet, Distinct
  <2>2. {s[i] : i \in 1 .. 0} = {}
    OBVIOUS
  <2> QED BY <1>4, <2>1, <2>2
<1>6. ASSUME NEW m \in Q, m + 1 <= l PROVE Holds(m + 1)
  <2>1. /\ only[m] \in Seq(X) /\ Len(only[m]) <= m /\ Len(only[m]) \in Nat /\ m \in Nat
        /\ ToSet(only[m]) = {s[i] : i \in 1 .. m} \cap T
        /\ Distinct(s) => Distinct(only[m])
    BY <1>2, <1>6
  <2>2. s[m + 1] \in X /\ m \in 0 .. l - 1 /\ m + 1 \in DOMAIN s
    BY <1>2, <1>6, <2>1
  <2>3. {s[i] : i \in 1 .. m + 1} = {s[i] : i \in 1 .. m} \cup {s[m + 1]}
    <3>1. \A i \in 1 .. m + 1 : i = m + 1 \/ i \in 1 .. m
      BY <2>1
    <3>2. m + 1 \in 1 .. m + 1 /\ 1 .. m \subseteq 1 .. m + 1
      BY <2>1
    <3> QED BY <3>1, <3>2
  <2>4. Distinct(s) => s[m + 1] \notin {s[i] : i \in 1 .. m}
    <3>1. \A i \in 1 .. m : i \in DOMAIN s /\ i # m + 1
      BY <1>2, <1>6, <2>1
    <3> QED BY <2>2, <3>1 DEF Distinct
  <2>5. CASE s[m + 1] \in T
    <3>1. only[m + 1] = Append(only[m], s[m + 1])
      BY <1>4, <2>2, <2>5
    <3> DEFINE o == only[m]
    <3>2. /\ Append(o, s[m + 1]) \in Seq(X) /\ Len(Append(o, s[m + 1])) = Len(o) + 1
          /\ ToSet(Append(o, s[m + 1])) = ToSet(o) \cup {s[m + 1]}
          /\ Distinct(o) /\ s[m + 1] \notin ToSet(o) => Distinct(Append(o, s[m + 1]))
      BY <2>1, <2>2, AppendIs
    <3> QED BY <2>1, <2>3, <2>4, <2>5, <3>1, <3>2
  <2>6. CASE s[m + 1] \notin T
    <3>1. only[m + 1] = only[m]
      BY <1>4, <2>2, <2>6
    <3> QED BY <2>1, <2>3, <2>6, <3>1
  <2> QED BY <2>5, <2>6
<1>7. ASSUME NEW m \in Q PROVE m + 1 \in Q
  <2> HIDE DEF Holds
  <2> QED BY <1>6, <1>7
<1>8. Holds(l)
  <2> HIDE DEF Holds
  <2>1. Q = Nat
    <3>1. Q \subseteq Nat
      OBVIOUS
    <3> HIDE DEF Q
    <3> QED BY <1>5, <1>7, <3>1, Induction
  <2> QED BY <1>2, <2>1
<1>9. {s[i] : i \in 1 .. l} = ToSet(s)
  BY <1>2 DEF ToSet
<1> QED BY <1>1, <1>8, <1>9 DEF l

-----------------------------------------------------------------------------
(* The frame source, under the assumption of its own module alone.         *)

SrcInv ==
  /\ audio \in Seq(Nat) /\ stream_id \in 0 .. Len(audio)
  /\ start \in [FileIds -> Nat] /\ frame_count \in [FileIds -> Nat]
  /\ elapsed_durations \in [FileIds -> Nat] /\ processed_streams \subseteq FileIds
  /\ streams \in Seq(FileIds) /\ Distinct(streams) /\ Len(streams) <= batch_size
  /\ \A sid \in ToSet(streams) : sid < stream_id

\* How far a stream is.  One that was admitted is running or processed, and the samples
\* handed out are those its iterator went past.
Progress(sid) ==
  /\ elapsed_durations[sid] = IF start[sid] < NSamples(sid) THEN start[sid] ELSE NSamples(sid)
  /\ frame_count[sid] = 0 <=> start[sid] = 0
  /\ sid \in processed_streams <=> start[sid] >= NSamples(sid)
  /\ sid >= stream_id => start[sid] = 0
  /\ sid < stream_id => start[sid] > 0 /\ (sid \in processed_streams \/ sid \in ToSet(streams))
  /\ sid \in ToSet(streams) => sid \notin processed_streams

SrcProgress == NoEmptyFile => \A sid \in FileIds : Progress(sid)

\* The number of samples of a file.
LEMMA SamplesAre ==
  ASSUME SrcInv, NEW sid \in FileIds
  PROVE  NSamples(sid) \in Nat /\ sid \in Nat /\ sid < Len(audio)
<1>1. Len(audio) \in Nat /\ sid \in 0 .. Len(audio) - 1 /\ DOMAIN audio = 1 .. Len(audio)
  BY DEF SrcInv, FileIds, n_audio_files
<1>2. sid + 1 \in DOMAIN audio /\ sid \in Nat /\ sid < Len(audio)
  BY <1>1
<1>3. audio[sid + 1] \in Nat
  BY <1>2 DEF SrcInv
<1> QED BY <1>2, <1>3, StreamerAssumption DEF NSamples

\* The streams of the next batch: those that run and the files admitted to free places.
LEMMA IteratorsAre ==
  ASSUME SrcInv
  PROVE  LET r == Iterators
             n == NumAdmitted
         IN  /\ n \in Nat /\ stream_id \in Nat /\ Len(audio) \in Nat
             /\ stream_id + n <= Len(audio)
             /\ r \in Seq(FileIds) /\ Distinct(r)
             /\ Len(streams) \in Nat /\ Len(r) = Len(streams) + n /\ Len(r) <= batch_size
             /\ Len(r) = batch_size \/ stream_id + n = Len(audio)
             /\ ToSet(r) = ToSet(streams) \cup (stream_id .. stream_id + n - 1)
<1> DEFINE r == Iterators
           n == NumAdmitted
           l == Len(streams)
           m == Len(audio)
           new == [i \in 1 .. n |-> stream_id + i - 1]
<1>1. /\ m \in Nat /\ stream_id \in Nat /\ stream_id <= m /\ l \in Nat /\ l <= batch_size
      /\ batch_size \in Nat /\ FileIds = 0 .. m - 1 /\ DOMAIN streams = 1 .. l
  BY StreamerAssumption DEF SrcInv, FileIds, n_audio_files
<1>2. /\ n \in Nat /\ stream_id + n <= m /\ l + n <= batch_size
      /\ l + n = batch_size \/ stream_id + n = m
  <2> DEFINE room == IF l < batch_size THEN batch_size - l ELSE 0
             left == m - stream_id
  <2>1. n = IF room < left THEN room ELSE left
    BY DEF NumAdmitted, n_audio_files
  <2> HIDE DEF n, l, m
  <2>2. room \in Nat /\ left \in Nat /\ l + room = batch_size /\ stream_id + left = m
    BY <1>1
  <2> HIDE DEF room, left
  <2> QED BY <1>1, <2>1, <2>2
<1>3. r = streams \o new
  BY DEF Iterators
<1> HIDE DEF n, l, m
<1>4. new \in Seq(FileIds) /\ Len(new) = n /\ DOMAIN new = 1 .. n
  <2>1. \A i \in 1 .. n : stream_id + i - 1 \in FileIds
    BY <1>1, <1>2
  <2> QED BY <1>2, <2>1
<1>5. /\ r \in Seq(FileIds) /\ Len(r) = l + n
      /\ \A i \in 1 .. l + n : r[i] = IF i <= l THEN streams[i] ELSE new[i - l]
  <2>1. streams \in Seq(FileIds) /\ Len(streams) = l
    BY DEF SrcInv, l
  <2> HIDE DEF new, r
  <2> QED BY ONLY <1>3, <1>4, <2>1, ConcatProperties
<1>6. DOMAIN r = 1 .. l + n
  BY <1>5
<1> HIDE DEF r
<1>7. /\ \A i \in 1 .. l : i \in DOMAIN r /\ r[i] = streams[i]
      /\ \A i \in 1 .. n : l + i \in DOMAIN r /\ r[l + i] = stream_id + i - 1
      /\ \A i \in DOMAIN r : i \in 1 .. l \/ (i - l \in 1 .. n /\ i = l + (i - l))
  <2>1. ASSUME NEW i \in 1 .. l PROVE i \in DOMAIN r /\ r[i] = streams[i]
    <3>1. i \in 1 .. l + n /\ i <= l
      BY <1>1, <1>2
    <3> QED BY <1>5, <1>6, <3>1
  <2>2. ASSUME NEW i \in 1 .. n PROVE l + i \in DOMAIN r /\ r[l + i] = stream_id + i - 1
    <3>1. l + i \in 1 .. l + n /\ ~(l + i <= l) /\ (l + i) - l = i
      BY <1>1, <1>2
    <3>2. r[l + i] = new[i]
      <4> HIDE DEF new
      <4> QED BY <1>5, <3>1
    <3> QED BY <1>6, <3>1, <3>2
  <2>3. ASSUME NEW i \in DOMAIN r PROVE i \in 1 .. l \/ (i - l \in 1 .. n /\ i = l + (i - l))
    BY <1>1, <1>2, <1>6
  <2> QED BY <2>1, <2>2, <2>3
<1>8. \A i \in 1 .. l : streams[i] < stream_id /\ streams[i] \in Nat
  <2> SUFFICES ASSUME NEW i \in 1 .. l PROVE streams[i] < stream_id /\ streams[i] \in Nat
    OBVIOUS
  <2>0. i \in DOMAIN streams /\ streams \in Seq(FileIds)
    BY <1>1 DEF SrcInv
  <2>1. streams[i] \in FileIds /\ streams[i] \in ToSet(streams)
    BY <2>0, ElementOfSeq DEF ToSet
  <2>2. streams[i] \in Nat
    BY <1>1, <2>1
  <2> QED BY <2>1, <2>2 DEF SrcInv
<1>9. Distinct(r)
  <2> SUFFICES ASSUME NEW i \in DOMAIN r, NEW j \in DOMAIN r, r[i] = r[j] PROVE i = j
    BY DEF Distinct
  <2>1. CASE i \in 1 .. l /\ j \in 1 .. l
    BY <1>1, <1>7, <2>1 DEF SrcInv, Distinct
  <2>2. CASE i \in 1 .. l /\ j \notin 1 .. l
    <3>1. r[i] < stream_id /\ r[i] \in Nat
      BY <1>7, <1>8, <2>2
    <3>2. PICK a \in 1 .. n : j = l + a /\ r[j] = stream_id + a - 1
      BY <1>7, <2>2
    <3>3. stream_id + a - 1 >= stream_id
      BY <1>1, <1>2
    <3> QED BY <1>1, <3>1, <3>2, <3>3
  <2>3. CASE i \notin 1 .. l /\ j \in 1 .. l
    <3>1. r[j] < stream_id /\ r[j] \in Nat
      BY <1>7, <1>8, <2>3
    <3>2. PICK a \in 1 .. n : i = l + a /\ r[i] = stream_id + a - 1
      BY <1>7, <2>3
    <3>3. stream_id + a - 1 >= stream_id
      BY <1>1, <1>2
    <3> QED BY <1>1, <3>1, <3>2, <3>3
  <2>4. CASE i \notin 1 .. l /\ j \notin 1 .. l
    <3>1. PICK a \in 1 .. n : i = l + a /\ r[i] = stream_id + a - 1
      BY <1>7, <2>4
    <3>2. PICK b \in 1 .. n : j = l + b /\ r[j] = stream_id + b - 1
      BY <1>7, <2>4
    <3>3. a = b
      BY <1>1, <1>2, <3>1, <3>2
    <3> QED BY <3>1, <3>2, <3>3
  <2> QED BY <2>1, <2>2, <2>3, <2>4
<1>10. ToSet(r) = ToSet(streams) \cup (stream_id .. stream_id + n - 1)
  <2>1. ASSUME NEW i \in DOMAIN r
        PROVE  r[i] \in ToSet(streams) \cup (stream_id .. stream_id + n - 1)
    <3>1. CASE i \in 1 .. l
      BY <1>1, <1>7, <3>1 DEF ToSet
    <3>2. CASE i \notin 1 .. l
      <4>1. PICK a \in 1 .. n : i = l + a /\ r[i] = stream_id + a - 1
        BY <1>7, <3>2
      <4>2. stream_id + a - 1 \in stream_id .. stream_id + n - 1
        BY <1>1, <1>2
      <4> QED BY <4>1, <4>2
    <3> QED BY <3>1, <3>2
  <2>2. ASSUME NEW k \in stream_id .. stream_id + n - 1 PROVE \E i \in DOMAIN r : r[i] = k
    <3> DEFINE i == k - stream_id + 1
    <3>1. i \in 1 .. n /\ stream_id + i - 1 = k
      BY <1>1, <1>2
    <3> HIDE DEF i
    <3> QED BY <1>7, <3>1
  <2>3. ASSUME NEW i \in DOMAIN streams PROVE streams[i] \in ToSet(r)
    BY <1>1, <1>7 DEF ToSet
  <2> QED BY <2>1, <2>2, <2>3 DEF ToSet
<1> QED BY <1>1, <1>2, <1>5, <1>9, <1>10 DEF r, n, l, m


\* The next frame of a stream that has samples left.
LEMMA OneFrame ==
  ASSUME SrcInv, NEW sid \in FileIds,
         start[sid] < NSamples(sid)
  PROVE  LET f == Frame(sid)
             n == NSamples(sid)
         IN  /\ f.stream_id = sid /\ f.is_last \in BOOLEAN
             /\ f.is_first <=> frame_count[sid] = 0
             /\ f.size \in Nat /\ f.size > 0 /\ f.valid_size \in Nat
             /\ f.is_last <=> ~(start[sid] + f.size < n)
             /\ start[sid] + f.valid_size = IF start[sid] + f.size < n THEN start[sid] + f.size
                                                                       ELSE n
<1> DEFINE a == start[sid]
           n == NSamples(sid)
           full == a + frame_size
           end == IF full < n THEN full ELSE n
           f == Frame(sid)
<1>1. a \in Nat /\ n \in Nat /\ a < n /\ frame_size \in Nat /\ frame_size # 0
  BY SamplesAre, StreamerAssumption DEF SrcInv
<1>2. /\ f.stream_id = sid /\ f.is_last = (end = n) /\ f.is_first = (frame_count[sid] = 0)
      /\ f.size = IF end = n /\ pad_last_frame THEN frame_size ELSE end - a
      /\ f.valid_size = end - a
  BY DEF Frame
<1> HIDE DEF a, n, f
<1>3. end \in Nat /\ a < end /\ end <= n /\ end <= full /\ (end # n => end = full /\ full < n)
  BY <1>1
<1>4. CASE end = n
  <2>1. f.valid_size = n - a /\ (f.size = frame_size \/ f.size = n - a) /\ n <= a + frame_size
    BY <1>2, <1>3, <1>4
  <2> HIDE DEF end, full
  <2>2. a + f.valid_size = n /\ ~(a + f.size < n) /\ f.size \in Nat /\ f.size > 0 /\ f.valid_size \in Nat
    BY <1>1, <2>1
  <2> QED BY <1>2, <1>4, <2>2 DEF a, n, f
<1>5. CASE end # n
  <2>1. f.valid_size = end - a /\ f.size = end - a /\ end < n
    BY <1>2, <1>3, <1>5
  <2> HIDE DEF end, full
  <2>2. a + f.valid_size = a + f.size /\ a + f.size < n /\ f.size \in Nat /\ f.size > 0 /\ f.valid_size \in Nat
    BY <1>1, <1>3, <2>1
  <2> QED BY <1>2, <1>5, <2>2 DEF a, n, f
<1> QED BY <1>4, <1>5

\* The iterators that advance had samples left.
LEMMA AdvancedIs ==
  ASSUME SrcInv
  PROVE  Advanced \subseteq ToSet(Iterators) /\ ToSet(Iterators) \subseteq FileIds
         /\ \A sid \in Advanced : start[sid] < NSamples(sid)
<1>1. Iterators \in Seq(FileIds)
  BY IteratorsAre
<1>2. \A i \in DOMAIN Iterators : Iterators[i] \in FileIds /\ i \in Nat /\ i \in 1 .. i
  BY <1>1
<1>3. Advanced \subseteq ToSet(Iterators) /\ ToSet(Iterators) \subseteq FileIds
  BY <1>2 DEF Advanced, ToSet
<1>4. ASSUME NEW sid \in Advanced PROVE start[sid] < NSamples(sid)
  <2>1. PICK k \in DOMAIN Iterators :
            sid = Iterators[k] /\ \A j \in 1 .. k : ~Exhausted(Iterators[j])
    BY <1>4 DEF Advanced
  <2>2. ~(start[sid] >= NSamples(sid)) /\ sid \in FileIds
    BY <1>2, <2>1 DEF Exhausted
  <2>3. start[sid] \in Nat /\ NSamples(sid) \in Nat
    BY <2>2, SamplesAre DEF SrcInv
  <2> QED BY <2>2, <2>3
<1> QED BY <1>3, <1>4

\* What StepIterators leaves, whichever streams advanced.
LEMMA SteppedIs ==
  ASSUME SrcInv, StepIterators
  PROVE  /\ audio' = audio /\ FileIds' = FileIds
         /\ \A sid \in FileIds : NSamples(sid)' = NSamples(sid)
         /\ stream_id' = stream_id + NumAdmitted /\ stream_id' \in 0 .. Len(audio)
         /\ start' \in [FileIds -> Nat] /\ frame_count' \in [FileIds -> Nat]
         /\ \A sid \in FileIds :
               IF sid \in Advanced
               THEN /\ start'[sid] = start[sid] + Frame(sid).size
                    /\ frame_count'[sid] = frame_count[sid] + 1
               ELSE start'[sid] = start[sid] /\ frame_count'[sid] = frame_count[sid]
         /\ \A sid \in ToSet(Iterators) : sid < stream_id'
<1>1. audio' = audio /\ stream_id' = stream_id + NumAdmitted
  BY DEF StepIterators
<1>2. FileIds' = FileIds
  BY <1>1 DEF FileIds, n_audio_files
<1>3. ASSUME NEW sid \in FileIds PROVE NSamples(sid)' = NSamples(sid)
  BY <1>1 DEF NSamples
<1>4. ASSUME NEW sid \in FileIds
      PROVE  start[sid] \in Nat /\ frame_count[sid] \in Nat
             /\ (sid \in Advanced => Frame(sid).size \in Nat)
  <2>1. sid \in Advanced => Frame(sid).size \in Nat
    BY AdvancedIs, OneFrame
  <2> QED BY <2>1 DEF SrcInv
<1>5. start' = [sid \in FileIds |->
          IF sid \in Advanced THEN start[sid] + Frame(sid).size ELSE start[sid]]
  BY DEF StepIterators
<1>6. frame_count' = [sid \in FileIds |->
          IF sid \in Advanced THEN frame_count[sid] + 1 ELSE frame_count[sid]]
  BY DEF StepIterators
<1>7. ASSUME NEW sid \in FileIds
      PROVE  /\ start'[sid] \in Nat /\ frame_count'[sid] \in Nat
             /\ IF sid \in Advanced
                THEN /\ start'[sid] = start[sid] + Frame(sid).size
                     /\ frame_count'[sid] = frame_count[sid] + 1
                ELSE start'[sid] = start[sid] /\ frame_count'[sid] = frame_count[sid]
  BY <1>4, <1>5, <1>6
<1>8. start' \in [FileIds -> Nat] /\ frame_count' \in [FileIds -> Nat]
  <2>1. DOMAIN start' = FileIds /\ DOMAIN frame_count' = FileIds
    BY <1>5, <1>6
  <2> QED BY <1>5, <1>6, <1>7
<1>9. stream_id' \in 0 .. Len(audio)
  BY <1>1, IteratorsAre
<1>10. \A sid \in ToSet(Iterators) : sid < stream_id'
  <2> SUFFICES ASSUME NEW sid \in ToSet(Iterators) PROVE sid < stream_id'
    OBVIOUS
  <2> DEFINE n == NumAdmitted
  <2>1. /\ n \in Nat /\ stream_id \in Nat /\ Len(audio) \in Nat
        /\ sid \in ToSet(streams) \/ sid \in stream_id .. stream_id + n - 1
    BY IteratorsAre
  <2>2. sid \in Nat
    BY AdvancedIs, SamplesAre
  <2>3. sid \in ToSet(streams) => sid < stream_id
    BY DEF SrcInv
  <2> HIDE DEF n
  <2>4. sid < stream_id + n
    BY <2>1, <2>2, <2>3
  <2> QED BY <1>1, <2>4 DEF n
<1> QED BY <1>1, <1>2, <1>3, <1>7, <1>8, <1>9, <1>10

\* A batch: one frame of every running stream, none of them past its end.
LEMMA BatchIs ==
  ASSUME SrcInv, ReturnBatch
  PROVE  LET r == Iterators
         IN  /\ \A sid \in ToSet(r) : start[sid] < NSamples(sid)
             /\ DOMAIN frames' = DOMAIN r /\ Len(frames') = Len(r)
             /\ \A i \in DOMAIN r : frames'[i] = Frame(r[i]) /\ frames'[i].stream_id = r[i]
             /\ streams' \in Seq(FileIds) /\ Distinct(streams') /\ Len(streams') <= batch_size
             /\ ToSet(streams') = {sid \in ToSet(r) : ~Frame(sid).is_last}
             /\ processed_streams' = processed_streams
                                     \cup {sid \in ToSet(r) : Frame(sid).is_last}
             /\ elapsed_durations' \in [FileIds -> Nat]
             /\ \A sid \in FileIds :
                   elapsed_durations'[sid] = elapsed_durations[sid]
                      + IF sid \in ToSet(r) THEN Frame(sid).valid_size ELSE 0
<1> DEFINE r == Iterators
<1>1. /\ r \in Seq(FileIds) /\ Distinct(r) /\ Len(r) \in Nat /\ Len(r) <= batch_size
      /\ batch_size \in Nat
  BY IteratorsAre, StreamerAssumption
<1>2. Advanced = ToSet(r) /\ frames' = [i \in 1 .. Len(r) |-> Frame(r[i])]
  BY DEF ReturnBatch
<1>3. streams' = Only(r, {sid \in ToSet(r) : ~Frame(sid).is_last})
  BY DEF ReturnBatch
<1>4. ToSet(r) \subseteq FileIds /\ \A sid \in ToSet(r) : start[sid] < NSamples(sid)
  BY <1>2, AdvancedIs
<1>5. processed_streams' = processed_streams \cup {sid \in ToSet(r) : Frame(sid).is_last}
  BY DEF ReturnBatch
<1>6. elapsed_durations' = [sid \in FileIds |->
          elapsed_durations[sid] + (IF sid \in ToSet(r) THEN Frame(sid).valid_size ELSE 0)]
  BY DEF ReturnBatch
<1> HIDE DEF r
<1>7. DOMAIN r = 1 .. Len(r) /\ \A i \in DOMAIN r : r[i] \in ToSet(r)
  BY <1>1 DEF ToSet
<1>8. DOMAIN frames' = DOMAIN r /\ Len(frames') = Len(r)
  BY <1>1, <1>2, <1>7
<1>9. ASSUME NEW i \in DOMAIN r
      PROVE  frames'[i] = Frame(r[i]) /\ frames'[i].stream_id = r[i]
  <2>1. frames'[i] = Frame(r[i])
    BY <1>2, <1>7
  <2> QED BY <1>4, <1>7, <2>1, OneFrame
<1>10. /\ streams' \in Seq(FileIds) /\ Distinct(streams') /\ Len(streams') <= batch_size
       /\ ToSet(streams') = {sid \in ToSet(r) : ~Frame(sid).is_last}
  <2> DEFINE T == {sid \in ToSet(r) : ~Frame(sid).is_last}
  <2>1. T \subseteq ToSet(r)
    OBVIOUS
  <2> HIDE DEF T
  <2>2. /\ Only(r, T) \in Seq(FileIds) /\ ToSet(Only(r, T)) = ToSet(r) \cap T
        /\ Len(Only(r, T)) <= Len(r) /\ Distinct(Only(r, T))
    BY <1>1, OnlyIs
  <2>3. Len(Only(r, T)) <= batch_size
    <3>1. Len(Only(r, T)) \in Nat
      BY <2>2
    <3> QED BY <1>1, <2>2, <3>1
  <2>4. ToSet(Only(r, T)) = T
    BY <2>1, <2>2
  <2>5. streams' = Only(r, T)
    BY <1>3 DEF T
  <2> QED BY <2>2, <2>3, <2>4, <2>5 DEF T
<1>11. ASSUME NEW sid \in FileIds
       PROVE  /\ elapsed_durations'[sid] = elapsed_durations[sid]
                    + IF sid \in ToSet(r) THEN Frame(sid).valid_size ELSE 0
              /\ elapsed_durations'[sid] \in Nat
  <2>1. sid \in ToSet(r) => Frame(sid).valid_size \in Nat
    BY <1>4, OneFrame
  <2>2. elapsed_durations[sid] \in Nat
    BY DEF SrcInv
  <2> QED BY <1>6, <2>1, <2>2
<1>12. elapsed_durations' \in [FileIds -> Nat]
  BY <1>6, <1>11
<1> QED BY <1>4, <1>5, <1>8, <1>9, <1>10, <1>11, <1>12 DEF r

\* A batch that __next__ returns: the iterators moved on, and what moved was handed out.
LEMMA BatchKeeps ==
  ASSUME SrcInv, ReturnBatch
  PROVE  SrcInv' /\ (SrcProgress => SrcProgress')
<1> DEFINE r == Iterators
           n == NumAdmitted
<1>1. StepIterators /\ Advanced = ToSet(r)
  BY DEF ReturnBatch
<1>2. /\ audio' = audio /\ FileIds' = FileIds
      /\ \A sid \in FileIds : NSamples(sid)' = NSamples(sid)
      /\ stream_id' = stream_id + n /\ stream_id' \in 0 .. Len(audio)
      /\ start' \in [FileIds -> Nat] /\ frame_count' \in [FileIds -> Nat]
      /\ \A sid \in FileIds :
            IF sid \in ToSet(r)
            THEN /\ start'[sid] = start[sid] + Frame(sid).size
                 /\ frame_count'[sid] = frame_count[sid] + 1
            ELSE start'[sid] = start[sid] /\ frame_count'[sid] = frame_count[sid]
      /\ \A sid \in ToSet(r) : sid < stream_id'
  BY <1>1, SteppedIs
<1>3. /\ \A sid \in ToSet(r) : start[sid] < NSamples(sid)
      /\ streams' \in Seq(FileIds) /\ Distinct(streams') /\ Len(streams') <= batch_size
      /\ ToSet(streams') = {sid \in ToSet(r) : ~Frame(sid).is_last}
      /\ processed_streams' = processed_streams \cup {sid \in ToSet(r) : Frame(sid).is_last}
      /\ elapsed_durations' \in [FileIds -> Nat]
      /\ \A sid \in FileIds :
            elapsed_durations'[sid] = elapsed_durations[sid]
               + IF sid \in ToSet(r) THEN Frame(sid).valid_size ELSE 0
  BY BatchIs
<1>4. ToSet(r) \subseteq FileIds
  BY AdvancedIs
<1>5. /\ n \in Nat /\ stream_id \in Nat
      /\ ToSet(r) = ToSet(streams) \cup (stream_id .. stream_id + n - 1)
  BY IteratorsAre
<1> HIDE DEF r, n
<1>6. SrcInv'
  BY <1>2, <1>3, <1>4 DEF SrcInv
<1>7. ASSUME SrcProgress PROVE SrcProgress'
  <2> SUFFICES ASSUME NoEmptyFile', NEW sid \in FileIds' PROVE Progress(sid)'
    BY DEF SrcProgress
  <2>1. NoEmptyFile /\ sid \in FileIds
    BY <1>2 DEF NoEmptyFile
  <2>2. Progress(sid)
    BY <1>7, <2>1 DEF SrcProgress
  <2> DEFINE N == NSamples(sid)
  <2>3. /\ start[sid] \in Nat /\ N \in Nat /\ sid \in Nat /\ N > 0 /\ N' = N
        /\ elapsed_durations[sid] \in Nat /\ frame_count[sid] \in Nat
    BY <1>2, <2>1, SamplesAre DEF SrcInv, NoEmptyFile
  <2>4. CASE sid \in ToSet(r)
    <3> DEFINE f == Frame(sid)
    <3>1. /\ f.size \in Nat /\ f.size > 0 /\ f.valid_size \in Nat /\ f.is_last \in BOOLEAN
          /\ f.is_last <=> ~(start[sid] + f.size < N)
          /\ start[sid] + f.valid_size = IF start[sid] + f.size < N THEN start[sid] + f.size
                                                                    ELSE N
          /\ start[sid] < N
      BY <1>3, <2>1, <2>4, OneFrame
    <3>2. /\ start'[sid] = start[sid] + f.size /\ frame_count'[sid] = frame_count[sid] + 1
          /\ elapsed_durations'[sid] = elapsed_durations[sid] + f.valid_size
      BY <1>2, <1>3, <2>1, <2>4
    <3>3. /\ sid \in ToSet(streams') <=> ~f.is_last
          /\ sid \in processed_streams' <=> sid \in processed_streams \/ f.is_last
      BY <1>3, <2>4
    <3>4. sid < stream_id'
      BY <1>2, <2>4
    <3>5. sid \notin processed_streams /\ elapsed_durations[sid] = start[sid]
      BY <2>2, <2>3, <3>1 DEF Progress
    <3> HIDE DEF f, N
    <3>6. elapsed_durations'[sid] = IF start'[sid] < N THEN start'[sid] ELSE N
      BY <2>3, <3>1, <3>2, <3>5
    <3>7. /\ start'[sid] > 0 /\ frame_count'[sid] # 0 /\ ~(sid >= stream_id')
          /\ start'[sid] >= N <=> f.is_last
      <4>1. stream_id' \in Nat
        BY <1>2, <1>5
      <4> QED BY <2>3, <3>1, <3>2, <3>4, <4>1
    <3>8. start'[sid] # 0
      BY <2>3, <3>1, <3>2
    <3> QED BY <2>3, <3>3, <3>4, <3>5, <3>6, <3>7, <3>8 DEF Progress, N
  <2>5. CASE sid \notin ToSet(r)
    <3>1. /\ start'[sid] = start[sid] /\ frame_count'[sid] = frame_count[sid]
          /\ elapsed_durations'[sid] = elapsed_durations[sid]
      <4>1. elapsed_durations'[sid] = elapsed_durations[sid] + 0
        BY <1>3, <2>1, <2>5
      <4> QED BY <1>2, <2>1, <2>3, <2>5, <4>1
    <3>2. /\ sid \notin ToSet(streams') /\ sid \notin ToSet(streams)
          /\ sid \in processed_streams' <=> sid \in processed_streams
      BY <1>3, <1>5, <2>5
    <3>3. sid < stream_id' => sid < stream_id
      <4>1. sid \notin stream_id .. stream_id + n - 1
        BY <1>5, <2>5
      <4> QED BY <1>2, <1>5, <2>3, <4>1
    <3>4. sid >= stream_id' => sid >= stream_id
      BY <1>2, <1>5, <2>3
    <3> HIDE DEF N
    <3> QED BY <2>2, <2>3, <3>1, <3>2, <3>3, <3>4 DEF Progress, N
  <2> QED BY <2>4, <2>5
<1> QED BY <1>6, <1>7

\* A generator that stops over files that all hold audio has handed out every one of them,
\* and the call changes nothing.
LEMMA StoppedIs ==
  ASSUME SrcInv, Stopped
  PROVE  /\ SrcInv' /\ audio' = audio /\ frames' = frames
         /\ SrcProgress /\ NoEmptyFile =>
              /\ streams = <<>> /\ streams' = streams /\ stream_id = Len(audio)
              /\ stream_id' = stream_id
              /\ start' = start /\ frame_count' = frame_count
              /\ elapsed_durations' = elapsed_durations /\ processed_streams' = processed_streams
<1> DEFINE r == Iterators
           n == NumAdmitted
<1>1. /\ StepIterators
      /\ Advanced # ToSet(r) \/ r = <<>>
      /\ streams' = r /\ elapsed_durations' = elapsed_durations
      /\ processed_streams' = processed_streams /\ frames' = frames
  BY DEF Stopped
<1>2. /\ audio' = audio /\ FileIds' = FileIds
      /\ stream_id' = stream_id + n /\ stream_id' \in 0 .. Len(audio)
      /\ start' \in [FileIds -> Nat] /\ frame_count' \in [FileIds -> Nat]
      /\ \A sid \in FileIds :
            IF sid \in Advanced
            THEN /\ start'[sid] = start[sid] + Frame(sid).size
                 /\ frame_count'[sid] = frame_count[sid] + 1
            ELSE start'[sid] = start[sid] /\ frame_count'[sid] = frame_count[sid]
      /\ \A sid \in ToSet(r) : sid < stream_id'
  <2>1. StepIterators
    BY <1>1
  <2> HIDE DEF r, n
  <2> QED BY <2>1, SteppedIs DEF r, n
<1>3. /\ n \in Nat /\ stream_id \in Nat /\ Len(audio) \in Nat
      /\ r \in Seq(FileIds) /\ Distinct(r)
      /\ Len(streams) \in Nat /\ Len(r) = Len(streams) + n /\ Len(r) <= batch_size
      /\ Len(r) = batch_size \/ stream_id + n = Len(audio)
      /\ ToSet(r) = ToSet(streams) \cup (stream_id .. stream_id + n - 1)
      /\ batch_size \in Nat /\ batch_size # 0
  BY IteratorsAre, StreamerAssumption
<1>4. Advanced \subseteq ToSet(r) /\ ToSet(r) \subseteq FileIds
  BY AdvancedIs
<1>5. SrcInv'
  <2> HIDE DEF r, n
  <2> QED BY <1>1, <1>2, <1>3 DEF SrcInv
<1>6. ASSUME SrcProgress, NoEmptyFile
      PROVE  /\ streams = <<>> /\ streams' = streams /\ stream_id = Len(audio)
             /\ stream_id' = stream_id /\ start' = start /\ frame_count' = frame_count
  <2>1. ASSUME NEW sid \in ToSet(r) PROVE start[sid] < NSamples(sid)
    <3>1. /\ Progress(sid) /\ NSamples(sid) \in Nat /\ NSamples(sid) > 0
          /\ start[sid] \in Nat /\ sid \in Nat /\ sid \in FileIds
      BY <1>4, <1>6, SamplesAre DEF SrcProgress, NoEmptyFile, SrcInv
    <3>2. CASE sid \in ToSet(streams)
      BY <3>1, <3>2 DEF Progress
    <3>3. CASE sid \in stream_id .. stream_id + n - 1
      <4>1. start[sid] = 0
        BY <1>3, <3>1, <3>3 DEF Progress
      <4> QED BY <3>1, <4>1
    <3> QED BY <1>3, <3>2, <3>3
  <2>2. ToSet(r) \subseteq Advanced
    <3> SUFFICES ASSUME NEW i \in DOMAIN r PROVE r[i] \in Advanced
      BY DEF ToSet
    <3>1. \A j \in 1 .. i : j \in DOMAIN r
      <4>1. DOMAIN r = 1 .. Len(r) /\ Len(r) \in Nat
        BY <1>3
      <4> HIDE DEF r
      <4> QED BY <4>1
    <3>2. ASSUME NEW j \in 1 .. i PROVE ~Exhausted(r[j])
      <4>1. r[j] \in ToSet(r)
        BY <3>1 DEF ToSet
      <4>2. start[r[j]] < NSamples(r[j]) /\ start[r[j]] \in Nat /\ NSamples(r[j]) \in Nat
        BY <1>4, <2>1, <4>1, SamplesAre DEF SrcInv
      <4> HIDE DEF r
      <4> QED BY <4>2 DEF Exhausted
    <3> QED BY <3>2 DEF Advanced
  <2>3. r = <<>>
    BY <1>1, <1>4, <2>2
  <2>4. Len(r) = 0 /\ ToSet(r) = {}
    BY <2>3 DEF ToSet
  <2>5. n = 0 /\ Len(streams) = 0 /\ stream_id = Len(audio)
    <3> DEFINE x == Len(r)
               y == Len(streams)
               z == Len(audio)
    <3>1. /\ n \in Nat /\ stream_id \in Nat /\ z \in Nat /\ y \in Nat /\ x = y + n
          /\ x = batch_size \/ stream_id + n = z
          /\ batch_size \in Nat /\ batch_size # 0 /\ x = 0
      BY <1>3, <2>4
    <3> HIDE DEF x, y, z, r, n
    <3>2. n = 0 /\ y = 0 /\ stream_id = z
      BY <3>1
    <3> QED BY <3>2 DEF y, z
  <2>6. streams = <<>>
    BY <2>5 DEF SrcInv
  <2>7. stream_id' = stream_id
    BY <1>2, <1>3, <2>5
  <2>8. \A sid \in FileIds : start'[sid] = start[sid] /\ frame_count'[sid] = frame_count[sid]
    BY <1>2, <1>4, <2>4
  <2>9. start' = start /\ frame_count' = frame_count
    BY <1>2, <2>8 DEF SrcInv
  <2> QED BY <1>1, <2>3, <2>5, <2>6, <2>7, <2>9
<1> QED BY <1>1, <1>2, <1>5, <1>6

\* set_audio_filepaths begins with nothing read and nothing running.
LEMMA NewGeneratorIs ==
  ASSUME NEW a \in Seq(Nat), NewGenerator(a)
  PROVE  SrcInv' /\ SrcProgress'
<1>1. /\ audio' = a /\ stream_id' = 0 /\ streams' = <<>> /\ processed_streams' = {}
      /\ FileIds' = 0 .. Len(a) - 1
      /\ start' = [i \in 0 .. Len(a) - 1 |-> 0] /\ frame_count' = [i \in 0 .. Len(a) - 1 |-> 0]
      /\ elapsed_durations' = [i \in 0 .. Len(a) - 1 |-> 0]
  BY DEF NewGenerator, FileIds, n_audio_files
<1>2. /\ <<>> \in Seq(0 .. Len(a) - 1) /\ Distinct(<<>>) /\ Len(<<>>) <= batch_size
      /\ ToSet(<<>>) = {} /\ 0 \in 0 .. Len(a)
  BY StreamerAssumption DEF Distinct, ToSet
<1>3. SrcInv'
  BY <1>1, <1>2 DEF SrcInv
<1>4. SrcProgress'
  <2> SUFFICES ASSUME NEW sid \in 0 .. Len(a) - 1, NoEmptyFile' PROVE Progress(sid)'
    BY <1>1 DEF SrcProgress
  <2> DEFINE N == NSamples(sid)
  <2>1. N' > 0 /\ N' \in Nat
    <3>1. sid \in FileIds'
      BY <1>1
    <3>2. N' > 0
      BY <3>1 DEF NoEmptyFile
    <3>3. sid + 1 \in 1 .. Len(a)
      OBVIOUS
    <3>4. a[sid + 1] \in Nat
      BY <3>3
    <3>5. N' = a[sid + 1] + flush_size
      BY <1>1 DEF NSamples
    <3> QED BY <3>2, <3>4, <3>5, StreamerAssumption
  <2>2. start'[sid] = 0 /\ frame_count'[sid] = 0 /\ elapsed_durations'[sid] = 0
    BY <1>1
  <2>3. ~(sid < 0) /\ sid \in Nat
    OBVIOUS
  <2> HIDE DEF N
  <2> QED BY <1>1, <1>2, <2>1, <2>2, <2>3 DEF Progress, N
<1> QED BY <1>3, <1>4

\* The first generator.
LEMMA SourceInit ==
  ASSUME StreamerInit
  PROVE  SrcInv /\ SrcProgress
<1>1. PICK a \in Seq(Nat) : SetAudioFilepaths(a)
  BY StreamerAssumption DEF StreamerInit
<1>2. /\ audio = a /\ stream_id = 0 /\ streams = <<>> /\ processed_streams = {}
      /\ FileIds = 0 .. Len(a) - 1
      /\ start = [i \in 0 .. Len(a) - 1 |-> 0] /\ frame_count = [i \in 0 .. Len(a) - 1 |-> 0]
      /\ elapsed_durations = [i \in 0 .. Len(a) - 1 |-> 0]
  BY <1>1 DEF SetAudioFilepaths, FileIds, n_audio_files
<1>3. /\ <<>> \in Seq(0 .. Len(a) - 1) /\ Distinct(<<>>) /\ Len(<<>>) <= batch_size
      /\ ToSet(<<>>) = {} /\ 0 \in 0 .. Len(a)
  BY StreamerAssumption DEF Distinct, ToSet
<1>4. SrcInv
  BY <1>2, <1>3 DEF SrcInv
<1>5. ASSUME NoEmptyFile, NEW sid \in 0 .. Len(a) - 1 PROVE Progress(sid)
  <2> DEFINE N == NSamples(sid)
  <2>1. sid \in FileIds
    BY <1>2
  <2>2. N > 0 /\ N \in Nat
    BY <1>4, <1>5, <2>1, SamplesAre DEF NoEmptyFile
  <2>3. start[sid] = 0 /\ frame_count[sid] = 0 /\ elapsed_durations[sid] = 0
    BY <1>2
  <2>4. ~(sid < 0) /\ sid \in Nat
    OBVIOUS
  <2> HIDE DEF N
  <2> QED BY <1>2, <1>3, <2>2, <2>3, <2>4 DEF Progress, N
<1> QED BY <1>2, <1>4, <1>5 DEF SrcProgress

\* One call of __next__, whichever of its outcomes it has.
LEMMA SourceStep ==
  ASSUME SrcInv, SrcProgress, [StreamerNext]_streamerVars
  PROVE  SrcInv' /\ SrcProgress'
<1>1. CASE ReturnBatch
  BY <1>1, BatchKeeps
<1>2. CASE Stopped
  <2>1. /\ SrcInv' /\ audio' = audio
        /\ SrcProgress /\ NoEmptyFile =>
             /\ streams' = streams /\ stream_id' = stream_id
             /\ start' = start /\ frame_count' = frame_count
             /\ elapsed_durations' = elapsed_durations /\ processed_streams' = processed_streams
    BY <1>2, StoppedIs
  <2>2. NoEmptyFile' = NoEmptyFile
    BY <2>1 DEF NoEmptyFile, FileIds, n_audio_files, NSamples
  <2>3. SrcProgress'
    BY <2>1, <2>2
       DEF SrcProgress, Progress, FileIds, n_audio_files, NSamples
  <2> QED BY <2>1, <2>3
<1>3. CASE UNCHANGED streamerVars
  BY <1>3 DEF streamerVars, SrcInv, SrcProgress, Progress, NoEmptyFile, FileIds,
              n_audio_files, NSamples
<1> QED BY <1>1, <1>2, <1>3
        DEF StreamerNext, RecurseIntoNext, RecursionError, StopGenerator

\* Every sample an iterator consumed was handed out, every admitted file is running or was
\* streamed to its end, and no stream runs twice: MonoStream, MultiStream and
\* ContinuousBatchedFrameStreamer over any files, batch size and frame size.
THEOREM SourceInvariance == StreamerSpec => [](SrcInv /\ SrcProgress)
<1>1. StreamerInit => SrcInv /\ SrcProgress
  BY SourceInit
<1>2. SrcInv /\ SrcProgress /\ [StreamerNext]_streamerVars => (SrcInv /\ SrcProgress)'
  BY SourceStep
<1> QED BY <1>1, <1>2, PTL DEF StreamerSpec

\* No sample an iterator consumed is lost between MonoStream and the caller.
THEOREM SourceDropsNothing == StreamerSpec => []NothingDropped
<1>1. SrcInv /\ SrcProgress => NothingDropped
  BY DEF SrcProgress, Progress, NothingDropped
<1> QED BY <1>1, SourceInvariance, PTL

\* The flags pipelines open and close a stream's state on: is_first on the first frame of a
\* stream and no other, is_last on the one after which nothing follows.
THEOREM SourceFlags == StreamerSpec => FirstAndLastOnce
<1> DEFINE A == NoEmptyFile /\ frames' # frames =>
                  \A i \in DOMAIN frames' :
                      LET f == frames'[i]
                      IN  /\ f.is_first <=> elapsed_durations[f.stream_id] = 0
                          /\ f.stream_id \notin processed_streams
                          /\ f.is_last <=> f.stream_id \in processed_streams'
<1> SUFFICES StreamerSpec => [][A]_streamerVars
  BY DEF FirstAndLastOnce
<1>1. ASSUME SrcInv, SrcProgress, [StreamerNext]_streamerVars PROVE [A]_streamerVars
  <2>1. CASE UNCHANGED streamerVars
    BY <2>1
  <2>2. CASE Stopped
    BY <2>2 DEF Stopped
  <2>3. CASE ReturnBatch
    <3> DEFINE r == Iterators
    <3> SUFFICES ASSUME NoEmptyFile, NEW i \in DOMAIN frames'
                 PROVE  LET f == frames'[i]
                        IN  /\ f.is_first <=> elapsed_durations[f.stream_id] = 0
                            /\ f.stream_id \notin processed_streams
                            /\ f.is_last <=> f.stream_id \in processed_streams'
      OBVIOUS
    <3> DEFINE sid == r[i]
               f == Frame(sid)
    <3>1. /\ i \in DOMAIN r /\ frames'[i] = f /\ frames'[i].stream_id = sid
          /\ processed_streams' = processed_streams \cup {s \in ToSet(r) : Frame(s).is_last}
      BY <1>1, <2>3, BatchIs
    <3>2. sid \in ToSet(r)
      BY <3>1 DEF ToSet
    <3>3. sid \in FileIds /\ start[sid] < NSamples(sid)
      BY <1>1, <2>3, <3>2, AdvancedIs, BatchIs
    <3>4. f.is_first <=> frame_count[sid] = 0
      BY <1>1, <3>3, OneFrame
    <3>5. Progress(sid)
      BY <1>1, <3>3 DEF SrcProgress
    <3>6. start[sid] \in Nat /\ NSamples(sid) \in Nat
      BY <1>1, <3>3, SamplesAre DEF SrcInv
    <3> HIDE DEF sid, f, r
    <3>7. /\ elapsed_durations[sid] = start[sid] /\ sid \notin processed_streams
          /\ frame_count[sid] = 0 <=> start[sid] = 0
      BY <3>3, <3>5, <3>6 DEF Progress
    <3>8. sid \in processed_streams' <=> f.is_last
      BY <3>1, <3>2, <3>7 DEF f
    <3> QED BY <3>1, <3>4, <3>7, <3>8
  <2> QED BY <1>1, <2>1, <2>2, <2>3
          DEF StreamerNext, RecurseIntoNext, RecursionError, StopGenerator
<1>2. SrcInv /\ SrcProgress /\ [StreamerNext]_streamerVars => [A]_streamerVars
  BY <1>1
<1> HIDE DEF A
<1> QED BY <1>2, SourceInvariance, PTL DEF StreamerSpec

\* A sequence without repetitions is as long as its set is large.
LEMMA SizeOfDistinct ==
  ASSUME NEW X, NEW s \in Seq(X), Distinct(s)
  PROVE  IsFiniteSet(ToSet(s)) /\ Cardinality(ToSet(s)) = Len(s)
<1> DEFINE D == 1 .. Len(s)
           T == ToSet(s)
<1>1. Len(s) \in Nat /\ DOMAIN s = D
  OBVIOUS
<1>2. IsFiniteSet(D) /\ Cardinality(D) = Len(s)
  BY <1>1, FS_Interval
<1>3. s \in [D -> T] /\ \A t \in T : \E i \in D : s[i] = t
  BY <1>1 DEF ToSet
<1>4. \A i, j \in D : s[i] = s[j] => i = j
  BY <1>1 DEF Distinct
<1> HIDE DEF D, T
<1>5. s \in Surjection(D, T) /\ s \in Injection(D, T)
  BY <1>3, <1>4 DEF Surjection, Injection, IsInjective
<1> QED BY <1>2, <1>5, FS_Surjection DEF T

\* Under SrcProgress the next batch holds the admitted streams that are not processed.
LEMMA BatchSize ==
  ASSUME SrcInv, SrcProgress, ReturnBatch, NoEmptyFile
  PROVE  LET waiting == Len(audio) - Cardinality(processed_streams)
         IN  Len(Iterators) = IF waiting < batch_size THEN waiting ELSE batch_size
<1> DEFINE r == Iterators
           n == NumAdmitted
           m == Len(audio)
           p == Cardinality(processed_streams)
           all == 0 .. stream_id + n - 1
<1>1. /\ n \in Nat /\ stream_id \in Nat /\ m \in Nat /\ stream_id + n <= m
      /\ r \in Seq(FileIds) /\ Distinct(r)
      /\ Len(r) \in Nat /\ Len(r) <= batch_size /\ batch_size \in Nat
      /\ Len(r) = batch_size \/ stream_id + n = m
      /\ ToSet(r) = ToSet(streams) \cup (stream_id .. stream_id + n - 1)
  BY IteratorsAre, StreamerAssumption
<1>2. FileIds = 0 .. m - 1
  BY DEF FileIds, n_audio_files
<1>3. ToSet(r) \subseteq FileIds
  BY AdvancedIs
<1> HIDE DEF r, n, m
<1>4. ASSUME NEW sid \in FileIds
      PROVE  /\ sid \in processed_streams => sid < stream_id
             /\ sid < stream_id => sid \in processed_streams \/ sid \in ToSet(streams)
             /\ sid \in ToSet(streams) => sid \notin processed_streams /\ sid < stream_id
  <2>1. /\ Progress(sid) /\ start[sid] \in Nat /\ sid \in Nat
        /\ NSamples(sid) \in Nat /\ NSamples(sid) > 0
    BY SamplesAre DEF SrcProgress, SrcInv, NoEmptyFile
  <2>2. sid \in processed_streams => start[sid] > 0
    BY <2>1 DEF Progress
  <2>3. ~(sid < stream_id) => start[sid] = 0
    BY <1>1, <2>1 DEF Progress
  <2> QED BY <2>1, <2>2, <2>3 DEF Progress, SrcInv
<1>5. ToSet(r) \cup processed_streams = all /\ ToSet(r) \cap processed_streams = {}
  <2>1. ASSUME NEW sid \in ToSet(r) PROVE sid \in all /\ sid \notin processed_streams
    <3>1. sid \in FileIds /\ sid \in Nat
      BY <1>2, <1>3
    <3>2. CASE sid \in ToSet(streams)
      BY <1>1, <1>4, <3>1, <3>2
    <3>3. CASE sid \in stream_id .. stream_id + n - 1
      BY <1>1, <1>4, <3>1, <3>3
    <3> QED BY <1>1, <3>2, <3>3
  <2>2. ASSUME NEW sid \in processed_streams PROVE sid \in all
    <3>1. sid \in FileIds /\ sid \in Nat
      BY <1>2 DEF SrcInv
    <3> QED BY <1>1, <1>4, <3>1
  <2>3. ASSUME NEW sid \in all PROVE sid \in ToSet(r) \cup processed_streams
    <3>1. sid \in FileIds
      BY <1>1, <1>2
    <3>2. sid < stream_id \/ sid \in stream_id .. stream_id + n - 1
      BY <1>1
    <3> QED BY <1>1, <1>4, <3>1, <3>2
  <2> QED BY <2>1, <2>2, <2>3
<1>6. IsFiniteSet(ToSet(r)) /\ Cardinality(ToSet(r)) = Len(r)
  BY <1>1, SizeOfDistinct
<1>7. IsFiniteSet(processed_streams) /\ p \in Nat
  <2>1. IsFiniteSet(all)
    BY <1>1, FS_Interval
  <2>2. processed_streams \subseteq all
    BY <1>5
  <2> QED BY <2>1, <2>2, FS_Subset, FS_CardinalityType
<1>8. Cardinality(all) = stream_id + n
  <2>1. Cardinality(all) = IF 0 > stream_id + n - 1 THEN 0 ELSE stream_id + n - 1 - 0 + 1
    BY <1>1, FS_Interval
  <2> HIDE DEF all
  <2> QED BY <1>1, <2>1
<1>9. Cardinality(all) = Len(r) + p - 0
  <2>1. Cardinality(ToSet(r) \cup processed_streams)
          = Cardinality(ToSet(r)) + p - Cardinality(ToSet(r) \cap processed_streams)
    BY <1>6, <1>7, FS_Union
  <2> HIDE DEF all, p
  <2> QED BY <1>5, <1>6, <2>1, FS_EmptySet
<1> DEFINE k == Len(r)
<1>10. /\ k \in Nat /\ k <= batch_size /\ stream_id + n = k + p
       /\ k = batch_size \/ stream_id + n = m
  <2> HIDE DEF all, p
  <2> QED BY <1>1, <1>7, <1>8, <1>9
<1> HIDE DEF p, all, k
<1>11. k = IF m - p < batch_size THEN m - p ELSE batch_size
  BY <1>1, <1>7, <1>10
<1> QED BY <1>11 DEF k, r, m, p

\* Continuous batching: one frame of each running stream, no place taken twice, and none left
\* empty while a file waits.
THEOREM SourceKeepsBatchFull == StreamerSpec => BatchKeptFull
<1> DEFINE A == frames' # frames =>
                  /\ Len(frames') <= batch_size
                  /\ Cardinality({f.stream_id : f \in ToSet(frames')}) = Len(frames')
                  /\ NoEmptyFile =>
                       LET waiting == n_audio_files - Cardinality(processed_streams)
                       IN  Len(frames') = IF waiting < batch_size THEN waiting ELSE batch_size
<1> SUFFICES StreamerSpec => [][A]_streamerVars
  BY PTL DEF BatchKeptFull
<1>1. ASSUME SrcInv, SrcProgress, [StreamerNext]_streamerVars PROVE [A]_streamerVars
  <2>1. CASE UNCHANGED streamerVars
    BY <2>1
  <2>2. CASE Stopped
    BY <2>2 DEF Stopped
  <2>3. CASE ReturnBatch
    <3> DEFINE r == Iterators
               ids == {f.stream_id : f \in ToSet(frames')}
    <3>1. /\ DOMAIN frames' = DOMAIN r /\ Len(frames') = Len(r)
          /\ \A i \in DOMAIN r : frames'[i].stream_id = r[i]
      BY <1>1, <2>3, BatchIs
    <3>2. r \in Seq(FileIds) /\ Distinct(r) /\ Len(r) <= batch_size
      BY <1>1, IteratorsAre
    <3>3. NoEmptyFile =>
            LET waiting == Len(audio) - Cardinality(processed_streams)
            IN  Len(r) = IF waiting < batch_size THEN waiting ELSE batch_size
      BY <1>1, <2>3, BatchSize
    <3> HIDE DEF r
    <3>4. ids = ToSet(r)
      BY <3>1 DEF ToSet
    <3>5. Cardinality(ids) = Len(frames')
      <4> HIDE DEF ids
      <4>1. Cardinality(ToSet(r)) = Len(r)
        BY <3>2, SizeOfDistinct
      <4> QED BY <3>1, <3>4, <4>1, Zenon
    <3> HIDE DEF ids
    <3>6. NoEmptyFile =>
            LET waiting == n_audio_files - Cardinality(processed_streams)
            IN  Len(frames') = IF waiting < batch_size THEN waiting ELSE batch_size
      BY <3>1, <3>3 DEF n_audio_files
    <3>7. Len(frames') <= batch_size
      BY <3>1, <3>2
    <3> QED BY <3>5, <3>6, <3>7 DEF ids
  <2> HIDE DEF A
  <2> QED BY <1>1, <2>1, <2>2, <2>3
          DEF StreamerNext, RecurseIntoNext, RecursionError, StopGenerator
<1>2. SrcInv /\ SrcProgress /\ [StreamerNext]_streamerVars => [A]_streamerVars
  <2> HIDE DEF A
  <2> QED BY <1>1
<1> HIDE DEF A
<1> QED BY <1>2, SourceInvariance, PTL DEF StreamerSpec

-----------------------------------------------------------------------------
(* The adapter's instance of the pipeline is the pipeline.                 *)

\* The same helpers ...
LEMMA AdapterOperators ==
  /\ \A s, T : Adapter!Only(s, T) = Only(s, T)
  /\ \A s : Adapter!ToSet(s) = ToSet(s)
  /\ \A rs : Adapter!StreamIds(rs) = StreamIds(rs) /\ Adapter!LastIds(rs) = LastIds(rs)
  /\ \A sid : Adapter!Source(sid) = Source(sid) /\ Adapter!GroupFeatures(sid) = GroupFeatures(sid)
  /\ \A f : Adapter!GroupOf(f) = GroupOf(f)
  /\ Adapter!Group = Group
  /\ Adapter!Outputs = Outputs
<1>1. \A s, T : Adapter!Only(s, T) = Only(s, T)
  BY DEF Adapter!Only, Only
<1>2. \A s : Adapter!ToSet(s) = ToSet(s)
  BY DEF Adapter!ToSet, ToSet
<1>3. \A rs : Adapter!StreamIds(rs) = StreamIds(rs) /\ Adapter!LastIds(rs) = LastIds(rs)
  BY DEF Adapter!StreamIds, StreamIds, Adapter!LastIds, LastIds
<1>4. \A sid : Adapter!Source(sid) = Source(sid) /\ Adapter!GroupFeatures(sid) = GroupFeatures(sid)
  BY <1>2 DEF Adapter!Source, Source, Adapter!GroupFeatures, GroupFeatures
<1>5. \A f : Adapter!GroupOf(f) = GroupOf(f)
  BY <1>1, <1>2 DEF Adapter!GroupOf, GroupOf
<1>6. Adapter!Group = Group
  BY <1>5 DEF Adapter!Group, Group
<1>7. Adapter!Outputs = Outputs
  BY DEF Adapter!Outputs, Outputs
<1> QED BY <1>1, <1>2, <1>3, <1>4, <1>5, <1>6, <1>7

\* ... over the same variables,
LEMMA AdapterVars ==
  /\ Adapter!bufVars = bufVars /\ Adapter!ctxVars = ctxVars /\ Adapter!stepVars = stepVars
  /\ Adapter!adapterVars = adapterVars
  /\ Adapter!bufVars' = bufVars' /\ Adapter!ctxVars' = ctxVars' /\ Adapter!stepVars' = stepVars'
  /\ Adapter!adapterVars' = adapterVars'
  BY DEF Adapter!bufVars, bufVars, Adapter!ctxVars, ctxVars, Adapter!stepVars, stepVars,
         Adapter!adapterVars, adapterVars

\* the same operations on the two tables,
LEMMA AdapterTables ==
  /\ \A sid : Adapter!Buf!AssignSlot(sid) = Buf!AssignSlot(sid)
  /\ \A src : Adapter!Buf!ResetAndBufferAudio(src) = Buf!ResetAndBufferAudio(src)
  /\ \A ids : Adapter!Buf!BufferFeatures(ids) = Buf!BufferFeatures(ids)
  /\ \A sid : Adapter!Buf!FreeSlot(sid) = Buf!FreeSlot(sid)
  /\ \A sid : Adapter!Buf!AssignSlotRaises(sid) = Buf!AssignSlotRaises(sid)
  /\ \A sid : Adapter!Ctx!AssignSlot(sid) = Ctx!AssignSlot(sid)
  /\ \A ids : Adapter!Ctx!ReadContext(ids) = Ctx!ReadContext(ids)
  /\ \A ids, new : Adapter!Ctx!UpdateCache(ids, new) = Ctx!UpdateCache(ids, new)
  /\ \A ids : Adapter!Ctx!WipeSlots(ids) = Ctx!WipeSlots(ids)
  /\ \A sid : Adapter!Ctx!FreeSlot(sid) = Ctx!FreeSlot(sid)
  /\ \A sid : Adapter!Ctx!NoFreeSlot(sid) = Ctx!NoFreeSlot(sid)
  /\ Adapter!Ctx!NoEntries = Ctx!NoEntries
<1>1. \A sid : Adapter!Buf!AssignSlot(sid) = Buf!AssignSlot(sid)
  BY DEF Adapter!Buf!AssignSlot, Buf!AssignSlot, Adapter!Buf!Known, Buf!Known, Adapter!Buf!Put, Buf!Put
<1>2. \A src : Adapter!Buf!ResetAndBufferAudio(src) = Buf!ResetAndBufferAudio(src)
  BY DEF Adapter!Buf!ResetAndBufferAudio, Buf!ResetAndBufferAudio, Adapter!Buf!Reset, Buf!Reset,
         Adapter!Buf!SlotsOf, Buf!SlotsOf, Adapter!Buf!Slots, Buf!Slots
<1>3. \A ids : Adapter!Buf!BufferFeatures(ids) = Buf!BufferFeatures(ids)
  BY DEF Adapter!Buf!BufferFeatures, Buf!BufferFeatures,
         Adapter!Buf!SlotsOf, Buf!SlotsOf, Adapter!Buf!Slots, Buf!Slots
<1>4. \A sid : Adapter!Buf!FreeSlot(sid) = Buf!FreeSlot(sid)
  BY DEF Adapter!Buf!FreeSlot, Buf!FreeSlot, Adapter!Buf!Delete, Buf!Delete
<1>5. \A sid : Adapter!Buf!AssignSlotRaises(sid) = Buf!AssignSlotRaises(sid)
  BY DEF Adapter!Buf!AssignSlotRaises, Buf!AssignSlotRaises, Adapter!Buf!Known, Buf!Known
<1>6. \A sid : Adapter!Ctx!AssignSlot(sid) = Ctx!AssignSlot(sid)
  BY DEF Adapter!Ctx!AssignSlot, Ctx!AssignSlot, Adapter!Ctx!Known, Ctx!Known, Adapter!Ctx!Put, Ctx!Put
<1>7. \A ids : Adapter!Ctx!ReadContext(ids) = Ctx!ReadContext(ids)
  BY DEF Adapter!Ctx!ReadContext, Ctx!ReadContext
<1>8. \A ids, new : Adapter!Ctx!UpdateCache(ids, new) = Ctx!UpdateCache(ids, new)
  BY DEF Adapter!Ctx!UpdateCache, Ctx!UpdateCache, Adapter!Ctx!Slots, Ctx!Slots
<1>9. \A ids : Adapter!Ctx!WipeSlots(ids) = Ctx!WipeSlots(ids)
  BY DEF Adapter!Ctx!WipeSlots, Ctx!WipeSlots, Adapter!Ctx!Slots, Ctx!Slots,
         Adapter!Ctx!Blank, Ctx!Blank
<1>10. \A sid : Adapter!Ctx!FreeSlot(sid) = Ctx!FreeSlot(sid)
  BY DEF Adapter!Ctx!FreeSlot, Ctx!FreeSlot, Adapter!Ctx!Delete, Ctx!Delete
<1>11. \A sid : Adapter!Ctx!NoFreeSlot(sid) = Ctx!NoFreeSlot(sid)
  BY DEF Adapter!Ctx!NoFreeSlot, Ctx!NoFreeSlot, Adapter!Ctx!Known, Ctx!Known
<1>12. Adapter!Ctx!NoEntries = Ctx!NoEntries
  BY DEF Adapter!Ctx!NoEntries, Ctx!NoEntries
<1> QED BY <1>1, <1>2, <1>3, <1>4, <1>5, <1>6, <1>7, <1>8, <1>9, <1>10, <1>11, <1>12

\* so the same steps of transcribe_step.
LEMMA AdapterSteps ==
  /\ \A rs : Adapter!TranscribeStep(rs) <=> TranscribeStep(rs)
  /\ Adapter!StepContinues <=> StepContinues
  /\ Adapter!Respond <=> Respond
  /\ Adapter!StepRaises <=> StepRaises
<1> USE AdapterOperators, AdapterVars
<1>1. \A f : Adapter!EnterGroup(f) <=> EnterGroup(f)
  BY DEF Adapter!EnterGroup, EnterGroup
<1>2. Adapter!LeaveStep <=> LeaveStep
  BY DEF Adapter!LeaveStep, LeaveStep
<1>3. \A rs : Adapter!InitStates(rs) = InitStates(rs)
  BY DEF Adapter!InitStates, InitStates, Adapter!NewState, NewState
<1>4. \A rs : Adapter!TranscribeStep(rs) <=> TranscribeStep(rs)
  BY <1>3 DEF Adapter!TranscribeStep, TranscribeStep
<1>5. Adapter!Respond <=> Respond
  <2>1. Adapter!CleanedUp = CleanedUp
    BY DEF Adapter!CleanedUp, CleanedUp
  <2> QED BY <1>2, <2>1 DEF Adapter!Respond, Respond
<1>6. Adapter!StepRaises <=> StepRaises
  <2>1. Adapter!NoBuffer <=> NoBuffer
    BY AdapterTables DEF Adapter!NoBuffer, NoBuffer
  <2>2. Adapter!NoContext <=> NoContext
    BY AdapterTables DEF Adapter!NoContext, NoContext
  <2>3. Adapter!ModelRaises <=> ModelRaises
    BY DEF Adapter!ModelRaises, ModelRaises
  <2> QED BY <1>2, <2>1, <2>2, <2>3 DEF Adapter!StepRaises, StepRaises
<1>7. Adapter!AssignBuffer <=> AssignBuffer
  BY AdapterTables DEF Adapter!AssignBuffer, AssignBuffer
<1>8. Adapter!BufferAudio <=> BufferAudio
  <2>1. Adapter!BufferAudio <=>
          /\ step = "assign buffer" /\ todo = <<>>
          /\ Buf!ResetAndBufferAudio([sid \in ToSet(StreamIds(requests)) |-> Adapter!Source(sid)])
          /\ step' = "features"
          /\ UNCHANGED <<ctxVars, state_pool, requests, fbuffers, final, todo>>
    BY AdapterTables DEF Adapter!BufferAudio
  <2>2. [sid \in ToSet(StreamIds(requests)) |-> Adapter!Source(sid)]
          = [sid \in ToSet(StreamIds(requests)) |-> Source(sid)]
    OBVIOUS
  <2> QED BY <2>1, <2>2 DEF BufferAudio
<1>9. Adapter!Features <=> Features
  BY AdapterTables DEF Adapter!Features, Features
<1>10. Adapter!FreeBuffer <=> FreeBuffer
  BY AdapterTables DEF Adapter!FreeBuffer, FreeBuffer
<1>11. Adapter!NonfinalFirst <=> NonfinalFirst
  BY <1>1 DEF Adapter!NonfinalFirst, NonfinalFirst
<1>12. Adapter!AssignContext <=> AssignContext
  BY AdapterTables DEF Adapter!AssignContext, AssignContext
<1>13. Adapter!GetContext <=> GetContext
  BY AdapterTables DEF Adapter!GetContext, GetContext
<1>14. Adapter!Encode <=> Encode
  <2>1. [i \in DOMAIN Group |-> context[i] \cup Adapter!GroupFeatures(Group[i].stream_id)]
          = [i \in DOMAIN Group |-> context[i] \cup GroupFeatures(Group[i].stream_id)]
    OBVIOUS
  <2>2. Adapter!Encode <=>
          /\ step = "encode"
          /\ Ctx!UpdateCache(StreamIds(Group),
               [i \in DOMAIN Group |-> context[i] \cup Adapter!GroupFeatures(Group[i].stream_id)])
          /\ step' = "wipe"
          /\ UNCHANGED <<bufVars, state_pool, requests, fbuffers, final, todo>>
    BY AdapterTables DEF Adapter!Encode
  <2> QED BY <2>1, <2>2 DEF Encode
<1>15. Adapter!WipeContext <=> WipeContext
  BY AdapterTables DEF Adapter!WipeContext, WipeContext
<1>16. Adapter!FreeContext <=> FreeContext
  BY AdapterTables DEF Adapter!FreeContext, FreeContext
<1>17. Adapter!Decode <=> Decode
  <2>1. \A s, r, eou : Adapter!Decoded(s, r, eou) = Decoded(s, r, eou)
    BY DEF Adapter!Decoded, Decoded
  <2> DEFINE Pool(eou) == [sid \in DOMAIN state_pool |->
                IF sid \in ToSet(StreamIds(Group))
                THEN Decoded(state_pool[sid],
                             CHOOSE r \in ToSet(Group) : r.stream_id = sid,
                             sid \in eou)
                ELSE state_pool[sid]]
             AdapterPool(eou) == [sid \in DOMAIN state_pool |->
                IF sid \in Adapter!ToSet(Adapter!StreamIds(Adapter!Group))
                THEN Adapter!Decoded(state_pool[sid],
                             CHOOSE r \in Adapter!ToSet(Adapter!Group) : r.stream_id = sid,
                             sid \in eou)
                ELSE state_pool[sid]]
  <2>2. \A eou : AdapterPool(eou) = Pool(eou)
    <3>1. Adapter!ToSet(Adapter!Group) = ToSet(Group)
      OBVIOUS
    <3>2. Adapter!ToSet(Adapter!StreamIds(Adapter!Group)) = ToSet(StreamIds(Group))
      OBVIOUS
    <3> QED BY <2>1, <3>1, <3>2
  <2>3. Adapter!Decode <=>
          /\ step = "free context" /\ todo = <<>>
          /\ \E eou \in SUBSET ToSet(StreamIds(Group)) :
                LastIds(Group) \subseteq eou /\ state_pool' = AdapterPool(eou)
          /\ IF final THEN step' = "respond" /\ UNCHANGED <<final, todo>> ELSE EnterGroup(TRUE)
          /\ UNCHANGED <<bufVars, ctxVars, requests, fbuffers>>
    BY <1>1, Adapter!ToSet(Adapter!StreamIds(Adapter!Group)) = ToSet(StreamIds(Group)) DEF Adapter!Decode
  <2>4. Decode <=>
          /\ step = "free context" /\ todo = <<>>
          /\ \E eou \in SUBSET ToSet(StreamIds(Group)) :
                LastIds(Group) \subseteq eou /\ state_pool' = Pool(eou)
          /\ IF final THEN step' = "respond" /\ UNCHANGED <<final, todo>> ELSE EnterGroup(TRUE)
          /\ UNCHANGED <<bufVars, ctxVars, requests, fbuffers>>
    BY DEF Decode
  <2> HIDE DEF Pool, AdapterPool
  <2> QED BY <2>2, <2>3, <2>4
<1>18. Adapter!SkipGroup <=> SkipGroup
  BY <1>1 DEF Adapter!SkipGroup, SkipGroup
<1>19. Adapter!StepContinues <=> StepContinues
  BY <1>7, <1>8, <1>9, <1>10, <1>11, <1>12, <1>13, <1>14, <1>15, <1>16, <1>17, <1>18
     DEF Adapter!StepContinues, StepContinues
<1> QED BY <1>4, <1>5, <1>6, <1>19

-----------------------------------------------------------------------------
(* The two slot tables, as values: a dictionary, its inverse and the queue *)
(* of free slots.                                                          *)

Rows == 0 .. num_slots - 1

\* One turn of a loop: the head is taken off the list of what is left to do.
LEMMA TailIs ==
  ASSUME NEW X, NEW s \in Seq(X), s # <<>>, Distinct(s)
  PROVE  /\ Head(s) \in X /\ Head(s) \in ToSet(s)
         /\ Tail(s) \in Seq(X) /\ Distinct(Tail(s))
         /\ ToSet(Tail(s)) = ToSet(s) \ {Head(s)}
<1> DEFINE t == Tail(s)
           l == Len(s)
<1>1. /\ l \in Nat /\ l >= 1 /\ DOMAIN s = 1 .. l /\ Head(s) = s[1]
      /\ t \in Seq(X) /\ DOMAIN t = 1 .. l - 1
      /\ \A i \in 1 .. l - 1 : t[i] = s[i + 1]
  BY HeadTailProperties
<1>2. s[1] \in X /\ 1 \in DOMAIN s
  BY <1>1
<1> HIDE DEF t, l
<1>0. l \in Nat
  BY <1>1
<1>3. \A i \in 1 .. l - 1 : i + 1 \in 1 .. l /\ i + 1 # 1
  BY <1>0
<1>4. \A i \in 1 .. l : i # 1 => i - 1 \in 1 .. l - 1 /\ (i - 1) + 1 = i
  BY <1>0
<1>5. Distinct(t)
  <2> SUFFICES ASSUME NEW i \in 1 .. l - 1, NEW j \in 1 .. l - 1, t[i] = t[j] PROVE i = j
    BY <1>1 DEF Distinct
  <2>1. s[i + 1] = s[j + 1]
    BY <1>1
  <2>2. i + 1 \in DOMAIN s /\ j + 1 \in DOMAIN s
    BY <1>0, <1>1
  <2>3. i + 1 = j + 1
    BY ONLY <2>1, <2>2, Distinct(s) DEF Distinct
  <2> QED BY <1>0, <2>3
<1>6. ToSet(t) = ToSet(s) \ {s[1]}
  <2>1. ASSUME NEW i \in 1 .. l - 1 PROVE t[i] \in ToSet(s) /\ t[i] # s[1]
    BY <1>1, <1>2, <1>3 DEF Distinct, ToSet
  <2>2. ASSUME NEW i \in 1 .. l, s[i] # s[1] PROVE s[i] \in ToSet(t)
    <3>1. i # 1
      BY <2>2
    <3>2. i - 1 \in DOMAIN t /\ t[i - 1] = s[i]
      BY <1>1, <1>4, <3>1
    <3> QED BY <3>2 DEF ToSet
  <2>3. ToSet(t) = {t[i] : i \in 1 .. l - 1} /\ ToSet(s) = {s[i] : i \in 1 .. l}
    BY <1>1 DEF ToSet
  <2> QED BY ONLY <2>1, <2>2, <2>3
<1> QED BY <1>1, <1>2, <1>5, <1>6 DEF ToSet, t

\* The dictionaries are inverse of each other, and the queue holds each slot that is free once.
TableIs(d, e, q) ==
  /\ \A x \in DOMAIN d : d[x] \in DOMAIN e /\ e[d[x]] = x
  /\ \A s \in DOMAIN e : e[s] \in DOMAIN d /\ d[e[s]] = s
  /\ DOMAIN e \subseteq Rows
  /\ q \in Seq(Rows) /\ Distinct(q) /\ ToSet(q) = Rows \ DOMAIN e

\* Stream x takes the first free slot; stream x gives its slot back.
Takes(d, e, q, x, d1, e1, q1) ==
  /\ x \notin DOMAIN d /\ q # <<>> /\ q1 = Tail(q)
  /\ DOMAIN d1 = DOMAIN d \cup {x} /\ d1[x] = Head(q)
  /\ \A k \in DOMAIN d : k # x => d1[k] = d[k]
  /\ DOMAIN e1 = DOMAIN e \cup {Head(q)} /\ e1[Head(q)] = x
  /\ \A k \in DOMAIN e : k # Head(q) => e1[k] = e[k]
Frees(d, e, q, x, d1, e1, q1) ==
  /\ x \in DOMAIN d /\ q1 = Append(q, d[x])
  /\ DOMAIN d1 = DOMAIN d \ {e[d[x]]} /\ \A k \in DOMAIN d1 : d1[k] = d[k]
  /\ DOMAIN e1 = DOMAIN e \ {d[x]} /\ \A k \in DOMAIN e1 : e1[k] = e[k]

\* A stream that takes the slot at the head of the queue.
LEMMA TableTakes ==
  ASSUME NEW d, NEW e, NEW q, TableIs(d, e, q), NEW x, NEW d1, NEW e1, NEW q1,
         Takes(d, e, q, x, d1, e1, q1)
  PROVE  TableIs(d1, e1, q1) /\ Head(q) \in Rows /\ Head(q) \notin DOMAIN e
<1> DEFINE s == Head(q)
<1> USE DEF Takes
<1>1. /\ s \in Rows /\ s \in ToSet(q)
      /\ Tail(q) \in Seq(Rows) /\ Distinct(Tail(q)) /\ ToSet(Tail(q)) = ToSet(q) \ {s}
  BY TailIs DEF TableIs
<1> HIDE DEF s
<1>2. s \notin DOMAIN e
  BY <1>1 DEF TableIs
<1>3. DOMAIN d1 = DOMAIN d \cup {x} /\ DOMAIN e1 = DOMAIN e \cup {s}
  BY DEF s
<1>4. \A k \in DOMAIN d1 : d1[k] \in DOMAIN e1 /\ e1[d1[k]] = k
  BY <1>2, <1>3 DEF TableIs, s
<1>5. \A k \in DOMAIN e1 : e1[k] \in DOMAIN d1 /\ d1[e1[k]] = k
  BY <1>2, <1>3 DEF TableIs, s
<1>6. ToSet(Tail(q)) = Rows \ DOMAIN e1
  BY <1>1, <1>3 DEF TableIs
<1> QED BY <1>1, <1>2, <1>3, <1>4, <1>5, <1>6 DEF TableIs, s

\* A stream whose slot goes back into the queue.
LEMMA TableFrees ==
  ASSUME NEW d, NEW e, NEW q, TableIs(d, e, q), NEW x, NEW d1, NEW e1, NEW q1,
         Frees(d, e, q, x, d1, e1, q1)
  PROVE  TableIs(d1, e1, q1) /\ DOMAIN d1 = DOMAIN d \ {x}
<1> USE DEF Frees
<1>1. d[x] \in DOMAIN e /\ e[d[x]] = x /\ d[x] \in Rows /\ d[x] \notin ToSet(q)
  BY DEF TableIs
<1>2. DOMAIN d1 = DOMAIN d \ {x} /\ DOMAIN e1 = DOMAIN e \ {d[x]}
  BY <1>1
<1>3. /\ Append(q, d[x]) \in Seq(Rows) /\ Distinct(Append(q, d[x]))
      /\ ToSet(Append(q, d[x])) = ToSet(q) \cup {d[x]}
  BY <1>1, AppendIs DEF TableIs
<1>4. \A k \in DOMAIN d1 : d1[k] \in DOMAIN e1 /\ e1[d1[k]] = k
  BY <1>1, <1>2 DEF TableIs
<1>5. \A k \in DOMAIN e1 : e1[k] \in DOMAIN d1 /\ d1[e1[k]] = k
  BY <1>1, <1>2 DEF TableIs
<1>6. ToSet(Append(q, d[x])) = Rows \ DOMAIN e1
  BY <1>1, <1>2, <1>3 DEF TableIs
<1> QED BY <1>1, <1>2, <1>3, <1>4, <1>5, <1>6 DEF TableIs

\* A table whose queue is empty has num_slots streams.
LEMMA TableFull ==
  ASSUME num_slots \in Nat, NEW d, NEW e, TableIs(d, e, <<>>), NEW S, IsFiniteSet(S), DOMAIN d \subseteq S
  PROVE  num_slots <= Cardinality(S)
<1>1. DOMAIN e = Rows
  <2>1. ToSet(<<>>) = {}
    BY DEF ToSet
  <2> QED BY <2>1 DEF TableIs
<1> DEFINE f == [s \in Rows |-> e[s]]
<1>2. f \in [Rows -> S]
  BY <1>1 DEF TableIs
<1>3. \A s, t \in Rows : f[s] = f[t] => s = t
  BY <1>1 DEF TableIs
<1> HIDE DEF f
<1>4. f \in Injection(Rows, S)
  BY <1>2, <1>3 DEF Injection, IsInjective
<1>5. Cardinality(Rows) <= Cardinality(S)
  BY <1>4, FS_Injection
<1>6. Cardinality(Rows) = IF 0 > num_slots - 1 THEN 0 ELSE num_slots - 1 - 0 + 1
  BY FS_Interval DEF Rows
<1>7. Cardinality(Rows) = num_slots
  BY <1>6
<1> QED BY <1>5, <1>7

-----------------------------------------------------------------------------
(* The inductive invariant.                                                *)

\* The audio a stream id stands for: in run the ids restart with every session.
Own(sid) == IF client = "run" THEN <<session, sid>> ELSE sid

\* A step that raised left its slots behind: nothing is claimed of the tables any more.
Broken == aborted \/ call = "raised"

\* The streams of the batch: all of them, those whose request is, or is not, the last one, those
\* of the group being transcribed, and those that were there before.
Ids == {requests[i].stream_id : i \in DOMAIN requests}
IdsOf(f) == {requests[i].stream_id : i \in {j \in DOMAIN requests : requests[j].is_last = f}}
GroupIds == IF final THEN IdsOf(TRUE) ELSE IdsOf(FALSE)
OldIds == {requests[i].stream_id : i \in {j \in DOMAIN requests : ~requests[j].is_first}}

\* Between steps, the streams whose first frame was transcribed and whose last was not.
Open == IF client = "run" THEN ToSet(streams)
        ELSE IF chunks > 0 /\ ~_finalized THEN {adapter_stream_id} ELSE {}

RequestOK(r) ==
  /\ r.stream_id \in Nat /\ r.index \in Nat /\ r.is_first \in BOOLEAN /\ r.is_last \in BOOLEAN
  /\ r.is_first <=> r.index = 0
  /\ r.source = Own(r.stream_id)

RequestsInv ==
  /\ requests \in Seq(ToSet(requests))
  /\ \A i \in DOMAIN requests : RequestOK(requests[i])
  /\ \A i, j \in DOMAIN requests : requests[i].stream_id = requests[j].stream_id => i = j
  /\ step = "idle" => requests = <<>>

Pending == IF step = "assign buffer" THEN Ids
           ELSE IF step = "free buffer" THEN IdsOf(TRUE)
           ELSE IF step = "assign context" THEN GroupIds
           ELSE IF step = "free context" /\ final THEN IdsOf(TRUE)
           ELSE {}

ControlInv ==
  /\ final \in BOOLEAN
  /\ step \in {"idle", "assign buffer", "features", "free buffer", "assign context", "encode",
               "wipe", "free context", "skip", "respond"}
  /\ todo \in Seq(Nat) /\ Distinct(todo) /\ ToSet(todo) \subseteq Pending
  /\ step \in {"idle", "assign buffer", "features", "free buffer"} => ~final
  /\ step = "respond" => final
  /\ step = "skip" => GroupIds = {}

ClientInv ==
  /\ \/ client = "run" /\ call = "out" /\ chunks = 0
     \/ client = "simulstream" /\ run = "out" /\ ~aborted
  /\ run \in {"out", "loop", "step", "aborted"} /\ call \in {"out", "process_chunk", "raised"}
  /\ step # "idle" <=> run = "step" \/ call = "process_chunk"
  /\ run = "aborted" => aborted
  /\ run = "out" => streams = <<>>

\* What was transcribed of a stream: its text so far, then what its state holds back.
Base(sid) == IF client = "run"
             THEN IF sid \in DOMAIN pipeline_output THEN pipeline_output[sid] ELSE <<>>
             ELSE _final_transcript_acc
Held(sid) == Base(sid) \o (state_pool[sid].words \o state_pool[sid].tokens)
Upto(n) == [i \in 1 .. n |-> i - 1]
IsDecoded(r) == final /\ (r.is_last => step = "respond")

PoolInv ==
  /\ \A sid \in DOMAIN state_pool : state_pool[sid] \in [tokens : Seq(Nat), words : Seq(Nat)]
  /\ step # "idle" => DOMAIN state_pool = Ids
  /\ step = "idle" /\ run # "aborted" /\ call # "raised" => DOMAIN state_pool = Open

TextInv ==
  \A i \in DOMAIN requests :
      LET r == requests[i]
      IN  /\ Held(r.stream_id) = Upto(IF IsDecoded(r) THEN r.index + 1 ELSE r.index)
          /\ r.is_last /\ IsDecoded(r) => state_pool[r.stream_id].tokens = <<>>

RunInv ==
  /\ NoEmptyFile
  /\ \A sid \in DOMAIN pipeline_output : pipeline_output[sid] \in Seq(Nat)
  /\ run = "loop" =>
       /\ DOMAIN pipeline_output = {sid \in FileIds : frame_count[sid] > 0}
       /\ \A sid \in DOMAIN pipeline_output :
             IF sid \in ToSet(streams) THEN Held(sid) = Upto(frame_count[sid])
                                       ELSE pipeline_output[sid] = Upto(frame_count[sid])
  /\ run = "step" =>
       /\ IdsOf(FALSE) = ToSet(streams) /\ Ids \subseteq FileIds
       /\ Len(requests) <= batch_size
       /\ \A i \in DOMAIN requests : frame_count[requests[i].stream_id] = requests[i].index + 1
       /\ DOMAIN pipeline_output = {sid \in FileIds : frame_count[sid] > 0} \ (Ids \ OldIds)
       /\ \A sid \in DOMAIN pipeline_output \ Ids : pipeline_output[sid] = Upto(frame_count[sid])

AdapterInv ==
  /\ adapter_stream_id \in Nat /\ chunks \in Nat /\ _finalized \in BOOLEAN
  /\ _final_transcript_acc \in Seq(Nat)
  /\ call = "out" /\ chunks = 0 => _final_transcript_acc = <<>>
  /\ call = "out" /\ chunks > 0 /\ ~_finalized => Held(adapter_stream_id) = Upto(chunks)
  /\ call = "process_chunk" =>
       /\ DOMAIN requests = {1} /\ requests[1].stream_id = adapter_stream_id
       /\ requests[1].index = chunks /\ ~requests[1].is_last /\ ~_finalized

\* The streams a slot table should hold.
BufOpen == IF step = "idle" THEN Open
           ELSE IF step \in {"assign buffer", "features"} THEN Ids
           ELSE IF step = "free buffer" THEN IdsOf(FALSE) \cup ToSet(todo)
           ELSE IdsOf(FALSE)
CtxOpen == IF step = "idle" THEN Open
           ELSE IF step \in {"assign buffer", "features", "free buffer"} THEN OldIds
           ELSE IF step = "respond" THEN IdsOf(FALSE)
           ELSE IF ~final THEN OldIds \cup IdsOf(FALSE)
           ELSE IF step = "free context" THEN IdsOf(FALSE) \cup ToSet(todo)
           ELSE Ids
ToAssign(s) == IF step = s THEN ToSet(todo) ELSE {}

BufTable ==
  /\ TableIs(buf_streamidx2slotidx, buf_slotidx2streamidx, available_slots)
  /\ BufOpen \subseteq DOMAIN buf_streamidx2slotidx \cup ToAssign("assign buffer")
  /\ client = "run" => DOMAIN buf_streamidx2slotidx \subseteq BufOpen

CtxTable ==
  /\ TableIs(ctx_streamidx2slotidx, ctx_slotidx2streamidx, free_slots)
  /\ CtxOpen \subseteq DOMAIN ctx_streamidx2slotidx \cup ToAssign("assign context")
  /\ client = "run" => DOMAIN ctx_streamidx2slotidx \subseteq CtxOpen

BufRows ==
  /\ DOMAIN audio_bufferers = Rows /\ DOMAIN feature_buffer = Rows
  /\ step # "assign buffer" => slots_to_reset = {}
  /\ \A s \in DOMAIN buf_slotidx2streamidx \ slots_to_reset :
        /\ audio_bufferers[s] \subseteq {Own(buf_slotidx2streamidx[s])}
        /\ feature_buffer[s] \subseteq {Own(buf_slotidx2streamidx[s])}
  /\ step = "features" =>
        \A sid \in Ids : audio_bufferers[buf_streamidx2slotidx[sid]] = {Own(sid)}
  /\ step \notin {"idle", "assign buffer", "features"} =>
        \A i \in DOMAIN requests : fbuffers[i] = {requests[i].source}

CtxRows ==
  /\ DOMAIN cache = Rows
  /\ \A s \in Rows : cache[s] \subseteq IF s \in DOMAIN ctx_slotidx2streamidx
                                        THEN {Own(ctx_slotidx2streamidx[s])} ELSE {}
  /\ step = "encode" =>
        \A i \in DOMAIN Group :
            /\ context[i] \subseteq {Group[i].source}
            /\ mapping[ctx_streamidx2slotidx[Group[i].stream_id]] = i
  /\ step = "free context" => \A sid \in ToSet(todo) : cache[ctx_streamidx2slotidx[sid]] = {}

TablesInv == ~Broken => BufTable /\ CtxTable /\ BufRows /\ CtxRows

IInv ==
  /\ SrcInv /\ SrcProgress /\ RequestsInv /\ ControlInv /\ ClientInv /\ PoolInv /\ TextInv
  /\ RunInv /\ AdapterInv /\ TablesInv

-----------------------------------------------------------------------------
(* The requests of a step and the group it transcribes.                    *)

\* The ids of a list of requests of different streams.
LEMMA StreamIdsAre ==
  ASSUME NEW X, NEW rs \in Seq(X), \A i \in DOMAIN rs : rs[i].stream_id \in Nat,
         \A i, j \in DOMAIN rs : rs[i].stream_id = rs[j].stream_id => i = j
  PROVE  /\ StreamIds(rs) \in Seq(Nat) /\ Distinct(StreamIds(rs))
         /\ DOMAIN StreamIds(rs) = DOMAIN rs
         /\ \A i \in DOMAIN rs : StreamIds(rs)[i] = rs[i].stream_id
         /\ ToSet(StreamIds(rs)) = {rs[i].stream_id : i \in DOMAIN rs}
<1> DEFINE ids == StreamIds(rs)
<1>1. ids = [i \in DOMAIN rs |-> rs[i].stream_id]
  BY DEF StreamIds
<1>2. DOMAIN rs = 1 .. Len(rs) /\ Len(rs) \in Nat
  OBVIOUS
<1>3. DOMAIN ids = DOMAIN rs /\ \A i \in DOMAIN rs : ids[i] = rs[i].stream_id
  BY <1>1
<1>4. ids \in Seq(Nat)
  <2>1. ids \in [1 .. Len(rs) -> Nat]
    BY <1>1, <1>2
  <2> HIDE DEF ids
  <2> QED BY <1>2, <2>1
<1>5. Distinct(ids)
  BY <1>3 DEF Distinct
<1>6. ToSet(ids) = {rs[i].stream_id : i \in DOMAIN rs}
  BY <1>3 DEF ToSet
<1> QED BY <1>3, <1>4, <1>5, <1>6

\* The ids of the batch: the last requests and the others, and no stream in both.
LEMMA IdsAre ==
  ASSUME RequestsInv
  PROVE  /\ Ids = IdsOf(TRUE) \cup IdsOf(FALSE) /\ IdsOf(TRUE) \cap IdsOf(FALSE) = {}
         /\ Ids \subseteq Nat /\ OldIds \subseteq Ids
         /\ LastIds(requests) = IdsOf(TRUE)
         /\ StreamIds(requests) \in Seq(Nat) /\ Distinct(StreamIds(requests))
         /\ ToSet(StreamIds(requests)) = Ids
         /\ \A sid \in Ids : Source(sid) = Own(sid)
<1>1. /\ StreamIds(requests) \in Seq(Nat) /\ Distinct(StreamIds(requests))
      /\ ToSet(StreamIds(requests)) = Ids
  BY StreamIdsAre DEF RequestsInv, RequestOK, Ids
<1>2. \A i \in DOMAIN requests : requests[i].is_last \in BOOLEAN /\ requests[i].stream_id \in Nat
  BY DEF RequestsInv, RequestOK
<1>3. Ids = IdsOf(TRUE) \cup IdsOf(FALSE) /\ Ids \subseteq Nat /\ OldIds \subseteq Ids
  BY <1>2 DEF Ids, IdsOf, OldIds
<1>4. IdsOf(TRUE) \cap IdsOf(FALSE) = {}
  BY <1>2 DEF IdsOf, RequestsInv
<1>5. LastIds(requests) = IdsOf(TRUE)
  BY <1>2 DEF LastIds, IdsOf
<1>6. ASSUME NEW sid \in Ids PROVE Source(sid) = Own(sid)
  <2>1. PICK i \in DOMAIN requests : requests[i].stream_id = sid
    BY DEF Ids
  <2>2. requests[i] \in ToSet(requests)
    BY DEF ToSet
  <2>3. \A r \in ToSet(requests) : r.stream_id = sid => r.source = Own(sid)
    BY DEF ToSet, RequestsInv, RequestOK
  <2> DEFINE r == CHOOSE r \in ToSet(requests) : r.stream_id = sid
  <2>4. r \in ToSet(requests) /\ r.stream_id = sid
    BY <2>1, <2>2
  <2> QED BY <2>3, <2>4 DEF Source
<1> QED BY <1>1, <1>3, <1>4, <1>5, <1>6

\* The last requests of the batch, or the others, are requests of different streams too.
LEMMA GroupIs ==
  ASSUME RequestsInv, NEW f \in BOOLEAN
  PROVE  LET g == GroupOf(f)
         IN  /\ g \in Seq(ToSet(requests))
             /\ ToSet(g) = {r \in ToSet(requests) : r.is_last = f}
             /\ \A i \in DOMAIN g : /\ g[i] \in ToSet(requests) /\ RequestOK(g[i])
                                    /\ g[i].is_last = f /\ g[i].stream_id \in IdsOf(f)
             /\ \A i, j \in DOMAIN g : g[i].stream_id = g[j].stream_id => i = j
             /\ StreamIds(g) \in Seq(Nat) /\ Distinct(StreamIds(g))
             /\ ToSet(StreamIds(g)) = IdsOf(f)
             /\ DOMAIN StreamIds(g) = DOMAIN g
             /\ \A i \in DOMAIN g : StreamIds(g)[i] = g[i].stream_id
             /\ LastIds(g) = IF f THEN IdsOf(TRUE) ELSE {}
<1> DEFINE T == {r \in ToSet(requests) : r.is_last = f}
           g == GroupOf(f)
<1>1. requests \in Seq(ToSet(requests)) /\ Distinct(requests)
  BY DEF RequestsInv, Distinct
<1>2. /\ g \in Seq(ToSet(requests)) /\ ToSet(g) = ToSet(requests) \cap T /\ Distinct(g)
  <2> HIDE DEF T
  <2> QED BY <1>1, OnlyIs DEF GroupOf, T
<1>3. ToSet(g) = T
  BY <1>2
<1> HIDE DEF g
<1>4. ASSUME NEW i \in DOMAIN g
      PROVE  g[i] \in T /\ \E j \in DOMAIN requests : g[i] = requests[j] /\ requests[j].is_last = f
  <2>1. g[i] \in ToSet(g)
    BY DEF ToSet
  <2> QED BY <1>3, <2>1 DEF ToSet
<1>5. ASSUME NEW i \in DOMAIN g
      PROVE  /\ g[i] \in ToSet(requests) /\ RequestOK(g[i])
             /\ g[i].is_last = f /\ g[i].stream_id \in IdsOf(f)
  BY <1>4 DEF RequestsInv, IdsOf
<1>6. \A i, j \in DOMAIN g : g[i].stream_id = g[j].stream_id => i = j
  BY <1>2, <1>4 DEF RequestsInv, Distinct
<1>7. \A i \in DOMAIN g : g[i].stream_id \in Nat
  BY <1>5 DEF RequestOK
<1>8. /\ StreamIds(g) \in Seq(Nat) /\ Distinct(StreamIds(g)) /\ DOMAIN StreamIds(g) = DOMAIN g
      /\ \A i \in DOMAIN g : StreamIds(g)[i] = g[i].stream_id
      /\ ToSet(StreamIds(g)) = {g[i].stream_id : i \in DOMAIN g}
  BY <1>2, <1>6, <1>7, StreamIdsAre
<1>9. {g[i].stream_id : i \in DOMAIN g} = IdsOf(f)
  <2>1. ASSUME NEW j \in DOMAIN requests, requests[j].is_last = f
        PROVE  \E i \in DOMAIN g : g[i].stream_id = requests[j].stream_id
    <3>1. requests[j] \in ToSet(g)
      BY <1>3, <2>1 DEF ToSet
    <3> QED BY <3>1 DEF ToSet
  <2> QED BY <1>5, <2>1 DEF IdsOf
<1>10. LastIds(g) = IF f THEN IdsOf(TRUE) ELSE {}
  <2>1. CASE f
    BY <1>5, <1>9, <2>1 DEF LastIds
  <2>2. CASE ~f
    BY <1>5, <2>2 DEF LastIds
  <2> QED BY <2>1, <2>2
<1> QED BY <1>2, <1>3, <1>5, <1>6, <1>8, <1>9, <1>10 DEF g

\* Entering a group: its ids are to be given contexts, or there are none.
LEMMA EnterIs ==
  ASSUME RequestsInv, NEW f \in BOOLEAN, EnterGroup(f)
  PROVE  /\ final' = f /\ todo' \in Seq(Nat) /\ Distinct(todo') /\ ToSet(todo') = IdsOf(f)
         /\ step' \in {"skip", "assign context"}
         /\ step' = "skip" => IdsOf(f) = {}
<1> DEFINE ids == StreamIds(GroupOf(f))
<1>1. ids \in Seq(Nat) /\ Distinct(ids) /\ ToSet(ids) = IdsOf(f)
  BY GroupIs
<1>2. ids = <<>> => ToSet(ids) = {}
  BY DEF ToSet
<1>3. final' = f /\ todo' = ids /\ step' = IF ids = <<>> THEN "skip" ELSE "assign context"
  BY DEF EnterGroup
<1> HIDE DEF ids
<1> QED BY <1>1, <1>2, <1>3

-----------------------------------------------------------------------------
(* What goes on inside a step.                                             *)

Inside == step # "idle" /\ UNCHANGED <<runVars, adapterVars, client>>

\* Inside a step the client does not move, and what the names above mean stays.
LEMMA InsideSame ==
  ASSUME Inside, requests' = requests
  PROVE  /\ Ids' = Ids /\ OldIds' = OldIds
         /\ IdsOf(TRUE)' = IdsOf(TRUE) /\ IdsOf(FALSE)' = IdsOf(FALSE)
         /\ \A sid : Own(sid)' = Own(sid) /\ Base(sid)' = Base(sid)
         /\ Open' = Open /\ Broken' = Broken
  BY DEF Inside, runVars, streamerVars, adapterVars, Ids, OldIds, IdsOf, Own, Base, Open, Broken

\* So the parts of the invariant about the client stay as well.
LEMMA InsideKeeps ==
  ASSUME IInv, Inside, requests' = requests, step' # "idle"
  PROVE  SrcInv' /\ SrcProgress' /\ RequestsInv' /\ ClientInv' /\ RunInv' /\ AdapterInv'
<1> USE DEF Inside
<1>1. SrcInv' /\ SrcProgress'
  BY DEF IInv, runVars, streamerVars, SrcInv, SrcProgress, Progress, NoEmptyFile, FileIds,
         n_audio_files, NSamples
<1>2. RequestsInv'
  BY DEF IInv, runVars, RequestsInv, RequestOK, Own
<1>3. ClientInv'
  BY DEF IInv, runVars, streamerVars, adapterVars, ClientInv
<1>4. run # "loop" /\ run' = run
  BY DEF IInv, ClientInv, runVars
<1>5. RunInv'
  BY <1>4, InsideSame DEF IInv, runVars, streamerVars, RunInv, NoEmptyFile, FileIds, n_audio_files,
         NSamples
<1>6. call # "out" \/ chunks = 0
  BY DEF IInv, ClientInv
<1>7. AdapterInv'
  BY <1>6 DEF IInv, adapterVars, AdapterInv
<1> QED BY <1>1, <1>2, <1>3, <1>5, <1>7

\* A step that neither decodes nor returns leaves the texts alone.
LEMMA TextKeeps ==
  ASSUME IInv, Inside, requests' = requests, state_pool' = state_pool, final' = final,
         step # "respond", step' \notin {"idle", "respond"}
  PROVE  PoolInv' /\ TextInv'
<1>1. Ids' = Ids
  BY InsideSame
<1>2. PoolInv'
  BY <1>1 DEF IInv, PoolInv, Inside
<1>3. TextInv'
  BY DEF IInv, TextInv, Held, Base, IsDecoded, Inside, runVars, adapterVars
<1> QED BY <1>2, <1>3

\* A step that does not touch the bufferer, after update.
LEMMA BufSame ==
  ASSUME IInv, Inside, requests' = requests, UNCHANGED <<bufVars, fbuffers>>, ~Broken,
         step \notin {"idle", "assign buffer", "features"}, BufOpen' = BufOpen,
         step' \notin {"idle", "assign buffer", "features"}
  PROVE  BufTable' /\ BufRows'
<1>1. BufTable /\ BufRows
  BY DEF IInv, TablesInv
<1>2. BufTable'
  BY <1>1 DEF BufTable, TableIs, ToAssign, Inside, bufVars
<1>3. BufRows'
  BY <1>1 DEF BufRows, Own, Inside, runVars, bufVars
<1> QED BY <1>2, <1>3

\* A step that does not touch the context manager, before its turn.
LEMMA CtxSame ==
  ASSUME IInv, Inside, requests' = requests, UNCHANGED ctxVars, ~Broken,
         step \in {"assign buffer", "features", "free buffer"},
         step' \in {"assign buffer", "features", "free buffer"}
  PROVE  CtxTable' /\ CtxRows'
<1>1. CtxTable /\ CtxRows
  BY DEF IInv, TablesInv
<1>2. CtxOpen' = OldIds /\ CtxOpen = OldIds
  BY InsideSame DEF CtxOpen
<1>3. CtxTable'
  BY <1>1, <1>2 DEF CtxTable, TableIs, ToAssign, Inside, ctxVars
<1>4. CtxRows'
  BY <1>1 DEF CtxRows, Own, Inside, runVars, ctxVars
<1> QED BY <1>3, <1>4

\* An empty list names no one.
LEMMA NothingLeft == ToSet(<<>>) = {}
  BY DEF ToSet

\* The loops over stream ids take the first one left.
LEMMA TodoIs ==
  ASSUME ControlInv, todo # <<>>
  PROVE  /\ Head(todo) \in Pending /\ Head(todo) \in ToSet(todo)
         /\ Tail(todo) \in Seq(Nat) /\ Distinct(Tail(todo))
         /\ ToSet(Tail(todo)) = ToSet(todo) \ {Head(todo)}
         /\ ToSet(Tail(todo)) \subseteq Pending
<1>1. todo \in Seq(Nat) /\ Distinct(todo) /\ ToSet(todo) \subseteq Pending
  BY DEF ControlInv
<1>2. /\ Head(todo) \in ToSet(todo) /\ Tail(todo) \in Seq(Nat) /\ Distinct(Tail(todo))
      /\ ToSet(Tail(todo)) = ToSet(todo) \ {Head(todo)}
  BY <1>1, TailIs
<1> QED BY <1>1, <1>2

\* The bufferer's loop gives the next stream of the batch a slot.
LEMMA AssignBufferKeeps ==
  ASSUME IInv, Inside, AssignBuffer
  PROVE  ControlInv' /\ PoolInv' /\ TextInv' /\ TablesInv'
<1> DEFINE x == Head(todo)
           d == buf_streamidx2slotidx
           e == buf_slotidx2streamidx
           q == available_slots
<1>1. /\ step = "assign buffer" /\ todo # <<>> /\ Buf!AssignSlot(x) /\ todo' = Tail(todo)
      /\ UNCHANGED <<ctxVars, state_pool, requests, fbuffers, final, step>>
  BY DEF AssignBuffer
<1>2. /\ x \in Pending /\ x \in ToSet(todo)
      /\ Tail(todo) \in Seq(Nat) /\ Distinct(Tail(todo))
      /\ ToSet(Tail(todo)) = ToSet(todo) \ {x} /\ ToSet(Tail(todo)) \subseteq Pending
  BY <1>1, TodoIs DEF IInv
<1> HIDE DEF x
<1>3. /\ Ids' = Ids /\ Pending' = Pending /\ Pending = Ids /\ Broken' = Broken
      /\ BufOpen' = Ids /\ BufOpen = Ids
  BY <1>1, InsideSame DEF Pending, BufOpen
<1>4. ControlInv'
  BY <1>1, <1>2, <1>3 DEF IInv, ControlInv
<1>5. PoolInv' /\ TextInv'
  BY <1>1, TextKeeps
<1>6. ASSUME ~Broken PROVE BufTable' /\ CtxTable' /\ BufRows' /\ CtxRows'
  <2>1. BufTable /\ BufRows
    BY <1>6 DEF IInv, TablesInv
  <2>2. CtxTable' /\ CtxRows'
    BY <1>1, <1>6, CtxSame
  <2>3. /\ TableIs(d, e, q) /\ Ids \subseteq DOMAIN d \cup ToSet(todo)
        /\ client = "run" => DOMAIN d \subseteq Ids
    BY <1>1, <1>3, <2>1 DEF BufTable, ToAssign
  <2>4. CASE x \in DOMAIN d
    <3>1. d' = d /\ e' = e /\ q' = q /\ slots_to_reset' = slots_to_reset
          /\ audio_bufferers' = audio_bufferers /\ feature_buffer' = feature_buffer
      BY <1>1, <2>4 DEF Buf!AssignSlot, Buf!Known
    <3>2. BufTable'
      BY <1>1, <1>2, <1>3, <2>3, <2>4, <3>1 DEF BufTable, ToAssign, Inside
    <3>3. BufRows'
      BY <1>1, <2>1, <3>1 DEF BufRows, Own, Inside, runVars
    <3> QED BY <2>2, <3>2, <3>3
  <2>5. CASE x \notin DOMAIN d
    <3>1. /\ q # <<>> /\ q' = Tail(q)
          /\ d' = [k \in DOMAIN d \cup {x} |-> IF k = x THEN Head(q) ELSE d[k]]
          /\ e' = [k \in DOMAIN e \cup {Head(q)} |-> IF k = Head(q) THEN x ELSE e[k]]
          /\ slots_to_reset' = slots_to_reset \cup {Head(q)}
          /\ audio_bufferers' = audio_bufferers /\ feature_buffer' = feature_buffer
      BY <1>1, <2>5 DEF Buf!AssignSlot, Buf!Known, Buf!Put
    <3>2. DOMAIN d' = DOMAIN d \cup {x} /\ Takes(d, e, q, x, d', e', q')
      BY <2>5, <3>1 DEF Takes
    <3>3. TableIs(d', e', q') /\ Head(q) \in Rows /\ Head(q) \notin DOMAIN e
      BY <2>3, <3>2, TableTakes
    <3>4. BufTable'
      <4>1. TableIs(d, e, q)'
        BY <3>3 DEF TableIs
      <4>2. BufOpen' \subseteq DOMAIN d' \cup ToAssign("assign buffer")'
        BY <1>1, <1>2, <1>3, <2>3, <3>2 DEF ToAssign
      <4>3. client' = "run" => DOMAIN d' \subseteq BufOpen'
        BY <1>2, <1>3, <2>3, <3>2 DEF Inside
      <4> QED BY <4>1, <4>2, <4>3 DEF BufTable
    <3>5. BufRows'
      <4>1. \A s \in DOMAIN e' \ slots_to_reset' : s \in DOMAIN e \ slots_to_reset /\ e'[s] = e[s]
        BY <3>1
      <4> QED BY <1>1, <2>1, <3>1, <4>1 DEF BufRows, Own, Inside, runVars
    <3> QED BY <2>2, <3>4, <3>5
  <2> QED BY <2>4, <2>5
<1> QED BY <1>3, <1>4, <1>5, <1>6 DEF TablesInv

\* New slots are reset and the audio of the batch is pushed.
LEMMA BufferAudioKeeps ==
  ASSUME IInv, Inside, BufferAudio
  PROVE  ControlInv' /\ PoolInv' /\ TextInv' /\ TablesInv'
<1> DEFINE d == buf_streamidx2slotidx
           e == buf_slotidx2streamidx
           src == [sid \in ToSet(StreamIds(requests)) |-> Source(sid)]
<1>1. /\ step = "assign buffer" /\ todo = <<>> /\ step' = "features"
      /\ Buf!ResetAndBufferAudio(src)
      /\ UNCHANGED <<ctxVars, state_pool, requests, fbuffers, final, todo>>
  BY DEF BufferAudio
<1>2. DOMAIN src = Ids /\ \A sid \in Ids : src[sid] = Own(sid)
  BY IdsAre DEF IInv
<1> HIDE DEF src
<1>3. Ids' = Ids /\ Broken' = Broken /\ BufOpen' = Ids /\ BufOpen = Ids /\ ToSet(todo) = {}
  <2>1. ToSet(todo) = {}
    BY <1>1, NothingLeft
  <2> QED BY <1>1, <2>1, InsideSame DEF BufOpen
<1>4. ControlInv'
  BY <1>1, <1>3 DEF IInv, ControlInv, ToSet
<1>5. PoolInv' /\ TextInv'
  BY <1>1, TextKeeps
<1>6. ASSUME ~Broken PROVE BufTable' /\ CtxTable' /\ BufRows' /\ CtxRows'
  <2>1. BufTable /\ BufRows
    BY <1>6 DEF IInv, TablesInv
  <2>2. CtxTable' /\ CtxRows'
    BY <1>1, <1>6, CtxSame
  <2>3. /\ d' = d /\ e' = e /\ available_slots' = available_slots /\ slots_to_reset' = {}
        /\ audio_bufferers' = [s \in Rows |->
              (IF s \in slots_to_reset THEN {} ELSE audio_bufferers[s])
                 \cup IF s \in {d[sid] : sid \in DOMAIN src} THEN {src[e[s]]} ELSE {}]
        /\ feature_buffer' = [s \in Rows |->
              IF s \in slots_to_reset THEN {} ELSE feature_buffer[s]]
    BY <1>1 DEF Buf!ResetAndBufferAudio, Buf!Reset, Buf!SlotsOf, Buf!Slots, Rows
  <2>4. /\ TableIs(d, e, available_slots) /\ Ids \subseteq DOMAIN d
        /\ client = "run" => DOMAIN d \subseteq Ids
    BY <1>1, <1>3, <2>1 DEF BufTable, ToAssign
  <2>5. BufTable'
    BY <1>1, <1>3, <2>3, <2>4 DEF BufTable, ToAssign, Inside
  <2>6. ASSUME NEW s \in DOMAIN e
        PROVE  /\ audio_bufferers'[s] \subseteq {Own(e[s])} /\ feature_buffer'[s] \subseteq {Own(e[s])}
               /\ e[s] \in Ids => audio_bufferers'[s] = {Own(e[s])}
    <3>1. s \in Rows /\ e[s] \in DOMAIN d /\ d[e[s]] = s
      BY <2>4 DEF TableIs
    <3>2. s \in {d[sid] : sid \in DOMAIN src} <=> e[s] \in Ids
      BY <1>2, <2>4, <3>1 DEF TableIs
    <3>3. s \notin slots_to_reset => /\ audio_bufferers[s] \subseteq {Own(e[s])}
                                     /\ feature_buffer[s] \subseteq {Own(e[s])}
      BY <2>1 DEF BufRows
    <3>4. feature_buffer'[s] = IF s \in slots_to_reset THEN {} ELSE feature_buffer[s]
      BY <2>3, <3>1
    <3>5. audio_bufferers'[s] = (IF s \in slots_to_reset THEN {} ELSE audio_bufferers[s])
                                   \cup IF e[s] \in Ids THEN {Own(e[s])} ELSE {}
      BY <1>2, <2>3, <3>1, <3>2
    <3> QED BY <3>3, <3>4, <3>5
  <2>7. BufRows'
    <3>1. \A sid \in Ids : d[sid] \in DOMAIN e /\ e[d[sid]] = sid
      BY <2>4 DEF TableIs
    <3>2. \A sid \in Ids : audio_bufferers'[d[sid]] = {Own(sid)}
      BY <2>6, <3>1
    <3>3. DOMAIN audio_bufferers' = Rows /\ DOMAIN feature_buffer' = Rows
      BY <2>3
    <3> QED BY <1>1, <1>3, <2>3, <2>6, <3>2, <3>3 DEF BufRows, Own, Inside, runVars
  <2> QED BY <2>2, <2>5, <2>7
<1> QED BY <1>3, <1>4, <1>5, <1>6 DEF TablesInv

\* The features are computed from the audio of the slots they are written to.
LEMMA FeaturesKeeps ==
  ASSUME IInv, Inside, Features
  PROVE  ControlInv' /\ PoolInv' /\ TextInv' /\ TablesInv'
<1> DEFINE d == buf_streamidx2slotidx
           e == buf_slotidx2streamidx
<1>1. /\ step = "features" /\ step' = "free buffer"
      /\ todo' = Only(StreamIds(requests), LastIds(requests))
      /\ Buf!BufferFeatures(ToSet(StreamIds(requests)))
      /\ fbuffers' = [i \in DOMAIN requests |-> feature_buffer'[d[requests[i].stream_id]]]
      /\ UNCHANGED <<ctxVars, state_pool, requests, final>>
  BY DEF Features
<1>2. /\ Ids = IdsOf(TRUE) \cup IdsOf(FALSE) /\ LastIds(requests) = IdsOf(TRUE)
      /\ StreamIds(requests) \in Seq(Nat) /\ Distinct(StreamIds(requests))
      /\ ToSet(StreamIds(requests)) = Ids
  BY IdsAre DEF IInv
<1>3. /\ todo' \in Seq(Nat) /\ Distinct(todo') /\ ToSet(todo') = Ids \cap IdsOf(TRUE)
  <2> DEFINE ids == StreamIds(requests)
             T == IdsOf(TRUE)
  <2>1. todo' = Only(ids, T)
    BY <1>1, <1>2
  <2> HIDE DEF ids, T
  <2>2. Only(ids, T) \in Seq(Nat) /\ Distinct(Only(ids, T)) /\ ToSet(Only(ids, T)) = ToSet(ids) \cap T
    BY <1>2, OnlyIs DEF ids
  <2> QED BY <1>2, <2>1, <2>2 DEF ids, T
<1>4. /\ Ids' = Ids /\ IdsOf(TRUE)' = IdsOf(TRUE) /\ IdsOf(FALSE)' = IdsOf(FALSE)
      /\ Broken' = Broken /\ ToSet(todo)' = IdsOf(TRUE)
  <2>1. ToSet(todo') = IdsOf(TRUE)
    BY <1>2, <1>3
  <2> QED BY <1>1, <2>1, InsideSame DEF ToSet
<1>5. ControlInv'
  BY <1>1, <1>3, <1>4 DEF IInv, ControlInv, Pending, Distinct
<1>6. PoolInv' /\ TextInv'
  BY <1>1, TextKeeps
<1>7. ASSUME ~Broken PROVE BufTable' /\ CtxTable' /\ BufRows' /\ CtxRows'
  <2>1. BufTable /\ BufRows
    BY <1>7 DEF IInv, TablesInv
  <2>2. CtxTable' /\ CtxRows'
    BY <1>1, <1>7, CtxSame
  <2>3. /\ d' = d /\ e' = e /\ available_slots' = available_slots
        /\ slots_to_reset' = slots_to_reset /\ audio_bufferers' = audio_bufferers
        /\ feature_buffer' = [s \in Rows |-> feature_buffer[s]
              \cup IF s \in {d[sid] : sid \in Ids} THEN audio_bufferers[s] ELSE {}]
    BY <1>1, <1>2 DEF Buf!BufferFeatures, Buf!SlotsOf, Buf!Slots, Rows
  <2>4. /\ TableIs(d, e, available_slots) /\ Ids \subseteq DOMAIN d
        /\ client = "run" => DOMAIN d \subseteq Ids
    BY <1>1, <2>1 DEF BufTable, BufOpen, ToAssign
  <2>5. BufOpen' = Ids
    BY <1>1, <1>2, <1>4 DEF BufOpen
  <2>6. BufTable'
    BY <1>1, <2>3, <2>4, <2>5 DEF BufTable, ToAssign, Inside
  <2>7. slots_to_reset = {} /\ \A sid \in Ids : audio_bufferers[d[sid]] = {Own(sid)}
    BY <1>1, <2>1 DEF BufRows
  <2>8. ASSUME NEW s \in DOMAIN e
        PROVE  /\ feature_buffer'[s] \subseteq {Own(e[s])}
               /\ e[s] \in Ids => feature_buffer'[s] = {Own(e[s])}
    <3>1. s \in Rows /\ e[s] \in DOMAIN d /\ d[e[s]] = s
      BY <2>4 DEF TableIs
    <3>2. s \in {d[sid] : sid \in Ids} <=> e[s] \in Ids
      BY <2>4, <3>1 DEF TableIs
    <3>3. audio_bufferers[s] \subseteq {Own(e[s])} /\ feature_buffer[s] \subseteq {Own(e[s])}
      BY <2>1, <2>7 DEF BufRows
    <3>4. feature_buffer'[s] = feature_buffer[s] \cup IF e[s] \in Ids THEN audio_bufferers[s] ELSE {}
      BY <2>3, <3>1, <3>2
    <3>5. e[s] \in Ids => audio_bufferers[s] = {Own(e[s])}
      BY <2>7, <3>1
    <3> QED BY <3>3, <3>4, <3>5
  <2>9. ASSUME NEW i \in DOMAIN requests PROVE fbuffers'[i] = {requests[i].source}
    <3> DEFINE sid == requests[i].stream_id
    <3>1. sid \in Ids /\ requests[i].source = Own(sid)
      BY DEF Ids, IInv, RequestsInv, RequestOK
    <3>2. d[sid] \in DOMAIN e /\ e[d[sid]] = sid
      BY <2>4, <3>1 DEF TableIs
    <3>3. fbuffers'[i] = feature_buffer'[d[sid]]
      BY <1>1
    <3> HIDE DEF sid
    <3> QED BY <2>8, <3>1, <3>2, <3>3
  <2>10. BufRows'
    <3>1. DOMAIN feature_buffer' = Rows
      BY <2>3
    <3> QED BY <1>1, <2>1, <2>3, <2>7, <2>8, <2>9, <3>1 DEF BufRows, Own, Inside, runVars
  <2> QED BY <2>2, <2>6, <2>10
<1> QED BY <1>4, <1>5, <1>6, <1>7 DEF TablesInv

\* The bufferer gives back the slot of an ended stream.
LEMMA FreeBufferKeeps ==
  ASSUME IInv, Inside, FreeBuffer
  PROVE  ControlInv' /\ PoolInv' /\ TextInv' /\ TablesInv'
<1> DEFINE x == Head(todo)
           d == buf_streamidx2slotidx
           e == buf_slotidx2streamidx
           q == available_slots
<1>1. /\ step = "free buffer" /\ todo # <<>> /\ Buf!FreeSlot(x) /\ todo' = Tail(todo)
      /\ UNCHANGED <<ctxVars, state_pool, requests, fbuffers, final, step>>
  BY DEF FreeBuffer
<1>2. /\ x \in Pending /\ x \in ToSet(todo)
      /\ Tail(todo) \in Seq(Nat) /\ Distinct(Tail(todo))
      /\ ToSet(Tail(todo)) = ToSet(todo) \ {x} /\ ToSet(Tail(todo)) \subseteq Pending
  BY <1>1, TodoIs DEF IInv
<1> HIDE DEF x
<1>3. /\ Ids' = Ids /\ IdsOf(TRUE)' = IdsOf(TRUE) /\ IdsOf(FALSE)' = IdsOf(FALSE)
      /\ Pending' = IdsOf(TRUE) /\ Pending = IdsOf(TRUE) /\ Broken' = Broken
      /\ ToSet(todo)' = ToSet(todo) \ {x}
      /\ IdsOf(TRUE) \cap IdsOf(FALSE) = {}
  <2>1. ToSet(todo') = ToSet(todo) \ {x}
    BY <1>1, <1>2
  <2> QED BY <1>1, <2>1, InsideSame, IdsAre DEF Pending, IInv, ToSet
<1>4. ControlInv'
  BY <1>1, <1>2, <1>3 DEF IInv, ControlInv
<1>5. PoolInv' /\ TextInv'
  BY <1>1, TextKeeps
<1>6. ASSUME ~Broken PROVE BufTable' /\ CtxTable' /\ BufRows' /\ CtxRows'
  <2>1. BufTable /\ BufRows
    BY <1>6 DEF IInv, TablesInv
  <2>2. CtxTable' /\ CtxRows'
    BY <1>1, <1>6, CtxSame
  <2>3. BufOpen = IdsOf(FALSE) \cup ToSet(todo) /\ BufOpen' = BufOpen \ {x}
    <3>1. BufOpen = IdsOf(FALSE) \cup ToSet(todo)
      BY <1>1 DEF BufOpen
    <3>2. BufOpen' = IdsOf(FALSE) \cup (ToSet(todo) \ {x})
      BY <1>1, <1>3 DEF BufOpen
    <3>3. x \notin IdsOf(FALSE)
      BY <1>2, <1>3
    <3> QED BY <3>1, <3>2, <3>3
  <2>4. /\ TableIs(d, e, q) /\ BufOpen \subseteq DOMAIN d
        /\ client = "run" => DOMAIN d \subseteq BufOpen
    BY <1>1, <2>1 DEF BufTable, ToAssign
  <2>5. /\ q' = Append(q, d[x])
        /\ d' = [k \in DOMAIN d \ {e[d[x]]} |-> d[k]]
        /\ e' = [k \in DOMAIN e \ {d[x]} |-> e[k]]
        /\ slots_to_reset' = slots_to_reset
        /\ audio_bufferers' = audio_bufferers /\ feature_buffer' = feature_buffer
    BY <1>1 DEF Buf!FreeSlot, Buf!Delete
  <2>6. x \in DOMAIN d
    BY <1>2, <2>3, <2>4
  <2>7. Frees(d, e, q, x, d', e', q')
    BY <2>5, <2>6 DEF Frees
  <2>8. TableIs(d', e', q') /\ DOMAIN d' = DOMAIN d \ {x}
    BY <2>4, <2>7, TableFrees
  <2>9. BufTable'
    <3>1. TableIs(d, e, q)'
      BY <2>8 DEF TableIs
    <3>2. BufOpen' \subseteq DOMAIN d' /\ (client' = "run" => DOMAIN d' \subseteq BufOpen')
      BY <2>3, <2>4, <2>8 DEF Inside
    <3> QED BY <3>1, <3>2 DEF BufTable
  <2>10. BufRows'
    <3>1. \A s \in DOMAIN e' : s \in DOMAIN e /\ e'[s] = e[s]
      BY <2>5
    <3> QED BY <1>1, <2>1, <2>5, <3>1 DEF BufRows, Own, Inside, runVars
  <2> QED BY <2>2, <2>9, <2>10
<1> QED BY <1>3, <1>4, <1>5, <1>6 DEF TablesInv

\* After the bufferer, the requests that are not the last ones come first.
LEMMA NonfinalFirstKeeps ==
  ASSUME IInv, Inside, NonfinalFirst
  PROVE  ControlInv' /\ PoolInv' /\ TextInv' /\ TablesInv'
<1>1. /\ step = "free buffer" /\ todo = <<>> /\ EnterGroup(FALSE)
      /\ UNCHANGED <<bufVars, ctxVars, state_pool, requests, fbuffers>>
  BY DEF NonfinalFirst
<1>2. /\ final' = FALSE /\ todo' \in Seq(Nat) /\ Distinct(todo') /\ ToSet(todo') = IdsOf(FALSE)
      /\ step' \in {"skip", "assign context"} /\ (step' = "skip" => IdsOf(FALSE) = {})
  BY <1>1, EnterIs DEF IInv
<1>3. /\ Ids' = Ids /\ IdsOf(TRUE)' = IdsOf(TRUE) /\ IdsOf(FALSE)' = IdsOf(FALSE)
      /\ OldIds' = OldIds /\ Broken' = Broken /\ GroupIds' = IdsOf(FALSE)
      /\ ToSet(todo)' = IdsOf(FALSE) /\ ToSet(todo) = {}
  <2>1. ToSet(todo) = {}
    BY <1>1, NothingLeft
  <2> QED BY <1>1, <1>2, <2>1, InsideSame DEF GroupIds, ToSet
<1>4. ControlInv'
  BY <1>2, <1>3 DEF ControlInv, Pending, Distinct
<1>5. final = FALSE
  BY <1>1 DEF IInv, ControlInv
<1>6. PoolInv' /\ TextInv'
  BY <1>1, <1>2, <1>5, TextKeeps
<1>7. ASSUME ~Broken PROVE BufTable' /\ CtxTable' /\ BufRows' /\ CtxRows'
  <2>1. BufTable /\ BufRows /\ CtxTable /\ CtxRows
    BY <1>7 DEF IInv, TablesInv
  <2>2. BufOpen' = BufOpen
    BY <1>1, <1>2, <1>3 DEF BufOpen
  <2>3. BufTable' /\ BufRows'
    BY <1>1, <1>2, <1>7, <2>2, BufSame
  <2>4. CtxOpen = OldIds /\ CtxOpen' = OldIds \cup IdsOf(FALSE)
    BY <1>1, <1>2, <1>3 DEF CtxOpen
  <2>5. CtxTable'
    <3>1. ToAssign("assign context") = {}
          /\ ToAssign("assign context")' = IdsOf(FALSE)
      BY <1>1, <1>2, <1>3 DEF ToAssign
    <3> QED BY <1>1, <2>1, <2>4, <3>1 DEF CtxTable, TableIs, Inside, ctxVars
  <2>6. CtxRows'
    BY <1>1, <1>2, <2>1 DEF CtxRows, Own, Inside, runVars, ctxVars
  <2> QED BY <2>3, <2>5, <2>6
<1> QED BY <1>3, <1>4, <1>6, <1>7 DEF TablesInv

\* The group is determined by the requests and by which group it is.
LEMMA GroupSame ==
  ASSUME requests' = requests, final' = final
  PROVE  Group' = Group /\ GroupIds' = GroupIds
<1>1. Group' = Group
  BY DEF Group, GroupOf, Only, ToSet
<1>2. GroupIds' = GroupIds
  BY DEF GroupIds, IdsOf
<1> QED BY <1>1, <1>2

\* The group in the step that transcribes it.
LEMMA GroupNow ==
  ASSUME RequestsInv, final \in BOOLEAN
  PROVE  /\ ToSet(StreamIds(Group)) = GroupIds /\ DOMAIN StreamIds(Group) = DOMAIN Group
         /\ StreamIds(Group) \in Seq(Nat) /\ Distinct(StreamIds(Group))
         /\ \A i \in DOMAIN Group :
               /\ StreamIds(Group)[i] = Group[i].stream_id /\ RequestOK(Group[i])
               /\ Group[i] \in ToSet(requests) /\ Group[i].stream_id \in GroupIds
         /\ \A i, j \in DOMAIN Group : Group[i].stream_id = Group[j].stream_id => i = j
         /\ LastIds(Group) = IF final THEN IdsOf(TRUE) ELSE {}
         /\ GroupIds \subseteq Ids
<1>1. GroupIds = IdsOf(final)
  BY DEF GroupIds
<1>2. GroupIds \subseteq Ids
  BY IdsAre DEF GroupIds
<1> QED BY <1>1, <1>2, GroupIs DEF Group

\* The context manager's loop gives the next stream of the group a slot.
LEMMA AssignContextKeeps ==
  ASSUME IInv, Inside, AssignContext
  PROVE  ControlInv' /\ PoolInv' /\ TextInv' /\ TablesInv'
<1> DEFINE x == Head(todo)
           d == ctx_streamidx2slotidx
           e == ctx_slotidx2streamidx
           q == free_slots
<1>1. /\ step = "assign context" /\ todo # <<>> /\ Ctx!AssignSlot(x) /\ todo' = Tail(todo)
      /\ UNCHANGED <<bufVars, state_pool, requests, fbuffers, final, step>>
  BY DEF AssignContext
<1>2. /\ x \in Pending /\ x \in ToSet(todo)
      /\ Tail(todo) \in Seq(Nat) /\ Distinct(Tail(todo))
      /\ ToSet(Tail(todo)) = ToSet(todo) \ {x} /\ ToSet(Tail(todo)) \subseteq Pending
  BY <1>1, TodoIs DEF IInv
<1> HIDE DEF x
<1>3. /\ Ids' = Ids /\ OldIds' = OldIds /\ IdsOf(FALSE)' = IdsOf(FALSE)
      /\ GroupIds' = GroupIds /\ Pending' = GroupIds /\ Pending = GroupIds /\ Broken' = Broken
  BY <1>1, InsideSame, GroupSame DEF Pending
<1>4. ControlInv'
  BY <1>1, <1>2, <1>3 DEF IInv, ControlInv
<1>5. PoolInv' /\ TextInv'
  BY <1>1, TextKeeps
<1>6. ASSUME ~Broken PROVE BufTable' /\ CtxTable' /\ BufRows' /\ CtxRows'
  <2>1. CtxTable /\ CtxRows
    BY <1>6 DEF IInv, TablesInv
  <2>2. BufTable' /\ BufRows'
    <3>1. BufOpen' = BufOpen
      BY <1>1, <1>3 DEF BufOpen
    <3> QED BY <1>1, <1>6, <3>1, BufSame
  <2>3. CtxOpen' = CtxOpen /\ GroupIds \subseteq CtxOpen
    BY <1>1, <1>3, IdsAre DEF IInv, CtxOpen, GroupIds
  <2>4. /\ TableIs(d, e, q) /\ CtxOpen \subseteq DOMAIN d \cup ToSet(todo)
        /\ client = "run" => DOMAIN d \subseteq CtxOpen
    BY <1>1, <2>1 DEF CtxTable, ToAssign
  <2>5. CASE x \in DOMAIN d
    <3>1. d' = d /\ e' = e /\ q' = q /\ cache' = cache
      BY <1>1, <2>5 DEF Ctx!AssignSlot, Ctx!Known
    <3>2. CtxTable'
      BY <1>1, <1>2, <2>3, <2>4, <2>5, <3>1 DEF CtxTable, ToAssign, Inside
    <3>3. CtxRows'
      BY <1>1, <2>1, <3>1 DEF CtxRows, Own, Inside, runVars
    <3> QED BY <2>2, <3>2, <3>3
  <2>6. CASE x \notin DOMAIN d
    <3>1. /\ q # <<>> /\ q' = Tail(q)
          /\ d' = [k \in DOMAIN d \cup {x} |-> IF k = x THEN Head(q) ELSE d[k]]
          /\ e' = [k \in DOMAIN e \cup {Head(q)} |-> IF k = Head(q) THEN x ELSE e[k]]
          /\ cache' = cache
      BY <1>1, <2>6 DEF Ctx!AssignSlot, Ctx!Known, Ctx!Put
    <3>2. DOMAIN d' = DOMAIN d \cup {x} /\ Takes(d, e, q, x, d', e', q')
      BY <2>6, <3>1 DEF Takes
    <3>3. TableIs(d', e', q') /\ Head(q) \in Rows /\ Head(q) \notin DOMAIN e
      BY <2>4, <3>2, TableTakes
    <3>4. CtxTable'
      <4>1. TableIs(d, e, q)'
        BY <3>3 DEF TableIs
      <4>2. CtxOpen' \subseteq DOMAIN d' \cup ToAssign("assign context")'
        BY <1>1, <1>2, <2>3, <2>4, <3>2 DEF ToAssign
      <4>3. client' = "run" => DOMAIN d' \subseteq CtxOpen'
        BY <1>2, <1>3, <2>3, <2>4, <3>2 DEF Inside
      <4> QED BY <4>1, <4>2, <4>3 DEF CtxTable
    <3>5. CtxRows'
      <4>1. \A s \in Rows : s \in DOMAIN e => s \in DOMAIN e' /\ e'[s] = e[s]
        BY <3>1, <3>3
      <4>2. \A s \in Rows : s \notin DOMAIN e => cache[s] = {}
        BY <2>1 DEF CtxRows
      <4> QED BY <1>1, <2>1, <3>1, <4>1, <4>2 DEF CtxRows, Own, Inside, runVars
    <3> QED BY <2>2, <3>4, <3>5
  <2> QED BY <2>5, <2>6
<1> QED BY <1>3, <1>4, <1>5, <1>6 DEF TablesInv

\* The contexts are read in the order of the group.
LEMMA GetContextKeeps ==
  ASSUME IInv, Inside, GetContext
  PROVE  ControlInv' /\ PoolInv' /\ TextInv' /\ TablesInv'
<1> DEFINE d == ctx_streamidx2slotidx
           e == ctx_slotidx2streamidx
           ids == StreamIds(Group)
<1>1. /\ step = "assign context" /\ todo = <<>> /\ Ctx!ReadContext(ids) /\ step' = "encode"
      /\ UNCHANGED <<bufVars, state_pool, requests, fbuffers, final, todo>>
  BY DEF GetContext
<1>2. /\ ToSet(ids) = GroupIds /\ DOMAIN ids = DOMAIN Group
      /\ \A i \in DOMAIN Group :
            /\ ids[i] = Group[i].stream_id /\ RequestOK(Group[i])
            /\ Group[i] \in ToSet(requests) /\ Group[i].stream_id \in GroupIds
      /\ \A i, j \in DOMAIN Group : Group[i].stream_id = Group[j].stream_id => i = j
  BY GroupNow DEF IInv, ControlInv
<1> HIDE DEF ids
<1>3. /\ Ids' = Ids /\ OldIds' = OldIds /\ IdsOf(FALSE)' = IdsOf(FALSE) /\ Broken' = Broken
      /\ Group' = Group /\ ToSet(todo) = {}
  <2>1. ToSet(todo) = {}
    BY <1>1, NothingLeft
  <2> QED BY <1>1, <2>1, InsideSame, GroupSame
<1>4. ControlInv'
  BY <1>1, <1>3 DEF IInv, ControlInv, ToSet
<1>5. PoolInv' /\ TextInv'
  BY <1>1, TextKeeps
<1>6. ASSUME ~Broken PROVE BufTable' /\ CtxTable' /\ BufRows' /\ CtxRows'
  <2>1. CtxTable /\ CtxRows
    BY <1>6 DEF IInv, TablesInv
  <2>2. BufTable' /\ BufRows'
    <3>1. BufOpen' = BufOpen
      BY <1>1, <1>3 DEF BufOpen
    <3> QED BY <1>1, <1>6, <3>1, BufSame
  <2>3. CtxOpen' = CtxOpen /\ GroupIds \subseteq CtxOpen
    BY <1>1, <1>3, IdsAre DEF IInv, CtxOpen, GroupIds
  <2>4. /\ TableIs(d, e, free_slots) /\ CtxOpen \subseteq DOMAIN d
        /\ client = "run" => DOMAIN d \subseteq CtxOpen
    BY <1>1, <1>3, <2>1 DEF CtxTable, ToAssign
  <2>5. /\ d' = d /\ e' = e /\ free_slots' = free_slots /\ cache' = cache
        /\ context' = [i \in DOMAIN ids |-> cache[d[ids[i]]]]
        /\ mapping' = [s \in {d[ids[i]] : i \in DOMAIN ids} |->
                          CHOOSE i \in DOMAIN ids : d[ids[i]] = s]
    BY <1>1 DEF Ctx!ReadContext
  <2>6. CtxTable'
    BY <1>1, <2>3, <2>4, <2>5 DEF CtxTable, ToAssign, Inside
  <2>7. ASSUME NEW i \in DOMAIN Group
        PROVE  context'[i] \subseteq {Group[i].source} /\ mapping'[d[Group[i].stream_id]] = i
    <3> DEFINE sid == Group[i].stream_id
               s == d[sid]
    <3>1. s \in DOMAIN e /\ e[s] = sid /\ s \in Rows
      BY <1>2, <2>3, <2>4 DEF TableIs
    <3>2. Group[i].source = Own(sid) /\ ids[i] = sid
      BY <1>2 DEF RequestOK
    <3>3. context'[i] = cache[s]
      BY <1>2, <2>5, <3>2
    <3>4. cache[s] \subseteq {Own(sid)}
      BY <2>1, <3>1 DEF CtxRows
    <3>5. ASSUME NEW j \in DOMAIN ids, d[ids[j]] = s PROVE j = i
      <4>1. ids[j] \in DOMAIN d /\ ids[j] = Group[j].stream_id
        BY <1>2, <2>3, <2>4
      <4>2. e[d[ids[j]]] = ids[j]
        BY <2>4, <4>1 DEF TableIs
      <4> QED BY <1>2, <3>1, <3>5, <4>1, <4>2
    <3> HIDE DEF s, sid
    <3>6. i \in DOMAIN ids /\ d[ids[i]] = s
      BY <1>2, <3>2 DEF s
    <3>7. mapping'[s] = CHOOSE j \in DOMAIN ids : d[ids[j]] = s
      BY <2>5, <3>6
    <3>8. mapping'[s] = i
      BY <3>5, <3>6, <3>7
    <3> QED BY <3>2, <3>3, <3>4, <3>8 DEF s, sid
  <2>8. CtxRows'
    BY <1>1, <1>3, <2>1, <2>5, <2>7 DEF CtxRows, Own, Inside, runVars
  <2> QED BY <2>2, <2>6, <2>8
<1> QED BY <1>3, <1>4, <1>5, <1>6 DEF TablesInv

\* What the encoder is given for each row of the group.
LEMMA EncoderInput ==
  ASSUME RequestsInv, ControlInv, step = "encode", BufRows, CtxRows
  PROVE  \A i \in DOMAIN Group : /\ GroupFeatures(Group[i].stream_id) = {Group[i].source}
                                 /\ context[i] \subseteq {Group[i].source}
<1> SUFFICES ASSUME NEW i \in DOMAIN Group
             PROVE  /\ GroupFeatures(Group[i].stream_id) = {Group[i].source}
                    /\ context[i] \subseteq {Group[i].source}
  OBVIOUS
<1> DEFINE sid == Group[i].stream_id
           j == CHOOSE k \in DOMAIN requests : requests[k].stream_id = sid
<1>1. Group[i] \in ToSet(requests) /\ Group[i].source = Own(sid)
  BY GroupNow DEF ControlInv, RequestOK
<1>2. \E k \in DOMAIN requests : requests[k].stream_id = sid
  BY <1>1 DEF ToSet
<1>3. j \in DOMAIN requests /\ requests[j].stream_id = sid
  BY <1>2
<1>4. requests[j].source = Own(sid)
  BY <1>3 DEF RequestsInv, RequestOK
<1>5. fbuffers[j] = {requests[j].source}
  BY <1>3 DEF BufRows
<1>6. GroupFeatures(sid) = fbuffers[j]
  BY DEF GroupFeatures
<1>7. context[i] \subseteq {Group[i].source}
  BY DEF CtxRows
<1> QED BY <1>1, <1>4, <1>5, <1>6, <1>7

\* The encoder's new contexts are written back to the rows they were read from.
LEMMA EncodeKeeps ==
  ASSUME IInv, Inside, Encode
  PROVE  ControlInv' /\ PoolInv' /\ TextInv' /\ TablesInv'
<1> DEFINE d == ctx_streamidx2slotidx
           e == ctx_slotidx2streamidx
           ids == StreamIds(Group)
           new == [i \in DOMAIN Group |-> context[i] \cup GroupFeatures(Group[i].stream_id)]
<1>1. /\ step = "encode" /\ Ctx!UpdateCache(ids, new) /\ step' = "wipe"
      /\ UNCHANGED <<bufVars, state_pool, requests, fbuffers, final, todo>>
  BY DEF Encode
<1>2. /\ DOMAIN ids = DOMAIN Group
      /\ \A i \in DOMAIN Group : /\ ids[i] = Group[i].stream_id /\ RequestOK(Group[i])
                                 /\ Group[i].stream_id \in GroupIds
  BY GroupNow DEF IInv, ControlInv
<1>3. /\ Ids' = Ids /\ OldIds' = OldIds /\ IdsOf(FALSE)' = IdsOf(FALSE) /\ Broken' = Broken
  BY <1>1, InsideSame
<1>4. ControlInv' /\ ToSet(todo) = {}
  BY <1>1, <1>3 DEF IInv, ControlInv, Pending, ToSet
<1>5. PoolInv' /\ TextInv'
  BY <1>1, TextKeeps
<1>6. ASSUME ~Broken PROVE BufTable' /\ CtxTable' /\ BufRows' /\ CtxRows'
  <2>1. CtxTable /\ CtxRows /\ BufRows
    BY <1>6 DEF IInv, TablesInv
  <2>2. BufTable' /\ BufRows'
    <3>1. BufOpen' = BufOpen
      BY <1>1, <1>3 DEF BufOpen
    <3> QED BY <1>1, <1>6, <3>1, BufSame
  <2>3. CtxOpen' = CtxOpen /\ GroupIds \subseteq CtxOpen
    BY <1>1, <1>3, IdsAre DEF IInv, CtxOpen, GroupIds
  <2>4. /\ TableIs(d, e, free_slots) /\ CtxOpen \subseteq DOMAIN d
        /\ client = "run" => DOMAIN d \subseteq CtxOpen
    BY <1>1, <2>1 DEF CtxTable, ToAssign
  <2>5. \A i \in DOMAIN Group : new[i] \subseteq {Group[i].source}
    BY <1>1, <2>1, EncoderInput DEF IInv
  <2> HIDE DEF new, ids
  <2>6. /\ d' = d /\ e' = e /\ free_slots' = free_slots
        /\ cache' = [s \in Rows |-> IF \E i \in DOMAIN ids : d[ids[i]] = s
                                    THEN new[mapping[s]] ELSE cache[s]]
    BY <1>1 DEF Ctx!UpdateCache, Ctx!Slots, Rows
  <2>7. CtxTable'
    BY <1>1, <2>3, <2>4, <2>6 DEF CtxTable, ToAssign, Inside
  <2>8. ASSUME NEW s \in Rows
        PROVE  cache'[s] \subseteq IF s \in DOMAIN e THEN {Own(e[s])} ELSE {}
    <3>1. CASE \E i \in DOMAIN ids : d[ids[i]] = s
      <4>1. PICK i \in DOMAIN Group : d[Group[i].stream_id] = s
        BY <1>2, <3>1
      <4> DEFINE sid == Group[i].stream_id
      <4>2. s \in DOMAIN e /\ e[s] = sid
        BY <1>2, <2>3, <2>4, <4>1 DEF TableIs
      <4>3. mapping[s] = i /\ Group[i].source = Own(sid)
        BY <1>1, <1>2, <2>1, <4>1 DEF CtxRows, RequestOK
      <4>4. cache'[s] = new[i]
        BY <2>6, <3>1, <4>3
      <4> HIDE DEF sid
      <4> QED BY <2>5, <4>2, <4>3, <4>4
    <3>2. CASE ~ \E i \in DOMAIN ids : d[ids[i]] = s
      <4>1. cache'[s] = cache[s]
        BY <2>6, <3>2
      <4> QED BY <2>1, <4>1 DEF CtxRows
    <3> QED BY <3>1, <3>2
  <2>9. CtxRows'
    <3>1. DOMAIN cache' = Rows
      BY <2>6
    <3> QED BY <1>1, <2>6, <2>8, <3>1 DEF CtxRows, Own, Inside, runVars
  <2> QED BY <2>2, <2>7, <2>9
<1> QED BY <1>3, <1>4, <1>5, <1>6 DEF TablesInv

\* The rows of ended streams are wiped.
LEMMA WipeContextKeeps ==
  ASSUME IInv, Inside, WipeContext
  PROVE  ControlInv' /\ PoolInv' /\ TextInv' /\ TablesInv'
<1> DEFINE d == ctx_streamidx2slotidx
           e == ctx_slotidx2streamidx
           ids == StreamIds(Group)
           ended == LastIds(Group)
<1>1. /\ step = "wipe" /\ Ctx!WipeSlots(ended) /\ step' = "free context"
      /\ todo' = IF final THEN ids ELSE <<>>
      /\ UNCHANGED <<bufVars, state_pool, requests, fbuffers, final>>
  BY DEF WipeContext
<1>2. /\ ids \in Seq(Nat) /\ Distinct(ids) /\ ToSet(ids) = GroupIds
      /\ ended = IF final THEN IdsOf(TRUE) ELSE {}
  BY GroupNow DEF IInv, ControlInv
<1> HIDE DEF ids, ended
<1>3. /\ Ids' = Ids /\ OldIds' = OldIds /\ IdsOf(FALSE)' = IdsOf(FALSE)
      /\ IdsOf(TRUE)' = IdsOf(TRUE) /\ Broken' = Broken
  BY <1>1, InsideSame
<1>4. /\ todo' \in Seq(Nat) /\ Distinct(todo') /\ ToSet(todo)' = ended /\ final \in BOOLEAN
  <2>1. CASE final
    <3>1. ToSet(todo') = GroupIds
      BY <1>1, <1>2, <2>1
    <3> QED BY <1>1, <1>2, <2>1, <3>1 DEF GroupIds, ToSet
  <2>2. CASE ~final
    <3>1. todo' = <<>>
      BY <1>1, <2>2
    <3>2. <<>> \in Seq(Nat) /\ Distinct(<<>>) /\ ToSet(<<>>) = {}
      BY NothingLeft DEF Distinct
    <3>3. ToSet(todo') = {}
      BY <3>1, <3>2
    <3> QED BY <1>2, <2>2, <3>1, <3>2, <3>3 DEF ToSet, IInv, ControlInv
  <2> QED BY <2>1, <2>2
<1>5. ControlInv'
  BY <1>1, <1>2, <1>3, <1>4 DEF ControlInv, Pending, Distinct
<1>6. PoolInv' /\ TextInv'
  BY <1>1, TextKeeps
<1>7. ASSUME ~Broken PROVE BufTable' /\ CtxTable' /\ BufRows' /\ CtxRows'
  <2>1. CtxTable /\ CtxRows
    BY <1>7 DEF IInv, TablesInv
  <2>2. BufTable' /\ BufRows'
    <3>1. BufOpen' = BufOpen
      BY <1>1, <1>3 DEF BufOpen
    <3> QED BY <1>1, <1>7, <3>1, BufSame
  <2>3. CtxOpen' = CtxOpen
    BY <1>1, <1>2, <1>3, <1>4, IdsAre DEF IInv, CtxOpen
  <2>4. /\ TableIs(d, e, free_slots) /\ CtxOpen \subseteq DOMAIN d
        /\ client = "run" => DOMAIN d \subseteq CtxOpen
    BY <1>1, <2>1 DEF CtxTable, ToAssign
  <2>5. ended \subseteq DOMAIN d
    BY <1>1, <1>2, <2>4, IdsAre DEF CtxOpen, IInv
  <2>6. /\ d' = d /\ e' = e /\ free_slots' = free_slots
        /\ cache' = [s \in Rows |-> IF \E sid \in ended : d[sid] = s THEN {} ELSE cache[s]]
    BY <1>1 DEF Ctx!WipeSlots, Ctx!Slots, Ctx!Blank, Rows
  <2>7. CtxTable'
    BY <1>1, <2>3, <2>4, <2>6 DEF CtxTable, ToAssign, Inside
  <2>8. \A s \in Rows : cache'[s] = {} \/ cache'[s] = cache[s]
    BY <2>6
  <2>9. \A sid \in ended : cache'[d[sid]] = {}
    <3>1. \A sid \in ended : d[sid] \in Rows
      BY <2>4, <2>5 DEF TableIs
    <3> QED BY <2>6, <3>1
  <2>10. CtxRows'
    <3>1. DOMAIN cache' = Rows
      BY <2>6
    <3> QED BY <1>1, <1>4, <2>1, <2>6, <2>8, <2>9, <3>1 DEF CtxRows, Own, Inside, runVars
  <2> QED BY <2>2, <2>7, <2>10
<1> QED BY <1>3, <1>5, <1>6, <1>7 DEF TablesInv

\* The context manager gives back the slot of an ended stream.
LEMMA FreeContextKeeps ==
  ASSUME IInv, Inside, FreeContext
  PROVE  ControlInv' /\ PoolInv' /\ TextInv' /\ TablesInv'
<1> DEFINE x == Head(todo)
           d == ctx_streamidx2slotidx
           e == ctx_slotidx2streamidx
           q == free_slots
<1>1. /\ step = "free context" /\ todo # <<>> /\ Ctx!FreeSlot(x) /\ todo' = Tail(todo)
      /\ UNCHANGED <<bufVars, state_pool, requests, fbuffers, final, step>>
  BY DEF FreeContext
<1>2. /\ x \in Pending /\ x \in ToSet(todo)
      /\ Tail(todo) \in Seq(Nat) /\ Distinct(Tail(todo))
      /\ ToSet(Tail(todo)) = ToSet(todo) \ {x} /\ ToSet(Tail(todo)) \subseteq Pending
  BY <1>1, TodoIs DEF IInv
<1> HIDE DEF x
<1>3. final /\ Pending = IdsOf(TRUE)
  BY <1>1, <1>2 DEF Pending
<1>4. /\ IdsOf(TRUE)' = IdsOf(TRUE) /\ IdsOf(FALSE)' = IdsOf(FALSE)
      /\ Pending' = IdsOf(TRUE) /\ Broken' = Broken /\ Ids' = Ids
      /\ ToSet(todo)' = ToSet(todo) \ {x}
      /\ IdsOf(TRUE) \cap IdsOf(FALSE) = {}
  <2>1. ToSet(todo') = ToSet(todo) \ {x}
    BY <1>1, <1>2
  <2> QED BY <1>1, <1>3, <2>1, InsideSame, IdsAre DEF Pending, IInv, ToSet
<1>5. ControlInv'
  BY <1>1, <1>2, <1>3, <1>4 DEF IInv, ControlInv
<1>6. PoolInv' /\ TextInv'
  BY <1>1, TextKeeps
<1>7. ASSUME ~Broken PROVE BufTable' /\ CtxTable' /\ BufRows' /\ CtxRows'
  <2>1. CtxTable /\ CtxRows
    BY <1>7 DEF IInv, TablesInv
  <2>2. BufTable' /\ BufRows'
    <3>1. BufOpen' = BufOpen
      BY <1>1, <1>4 DEF BufOpen
    <3> QED BY <1>1, <1>7, <3>1, BufSame
  <2>3. CtxOpen = IdsOf(FALSE) \cup ToSet(todo) /\ CtxOpen' = CtxOpen \ {x}
    <3>1. CtxOpen = IdsOf(FALSE) \cup ToSet(todo)
      BY <1>1, <1>3 DEF CtxOpen
    <3>2. CtxOpen' = IdsOf(FALSE) \cup (ToSet(todo) \ {x})
      BY <1>1, <1>3, <1>4 DEF CtxOpen
    <3>3. x \notin IdsOf(FALSE)
      BY <1>2, <1>3, <1>4
    <3> QED BY <3>1, <3>2, <3>3
  <2>4. /\ TableIs(d, e, q) /\ CtxOpen \subseteq DOMAIN d
        /\ client = "run" => DOMAIN d \subseteq CtxOpen
    BY <1>1, <2>1 DEF CtxTable, ToAssign
  <2>5. /\ q' = Append(q, d[x]) /\ cache' = cache
        /\ d' = [k \in DOMAIN d \ {e[d[x]]} |-> d[k]]
        /\ e' = [k \in DOMAIN e \ {d[x]} |-> e[k]]
    BY <1>1 DEF Ctx!FreeSlot, Ctx!Delete
  <2>6. x \in DOMAIN d
    BY <1>2, <2>3, <2>4
  <2>7. Frees(d, e, q, x, d', e', q')
    BY <2>5, <2>6 DEF Frees
  <2>8. TableIs(d', e', q') /\ DOMAIN d' = DOMAIN d \ {x}
    BY <2>4, <2>7, TableFrees
  <2>9. CtxTable'
    <3>1. TableIs(d, e, q)'
      BY <2>8 DEF TableIs
    <3>2. CtxOpen' \subseteq DOMAIN d' /\ (client' = "run" => DOMAIN d' \subseteq CtxOpen')
      BY <2>3, <2>4, <2>8 DEF Inside
    <3> QED BY <3>1, <3>2 DEF CtxTable
  <2>10. CtxRows'
    <3>1. \A s \in DOMAIN e : s \in DOMAIN e' \/ s = d[x]
      BY <2>5
    <3>2. \A s \in DOMAIN e' : s \in DOMAIN e /\ e'[s] = e[s]
      BY <2>5
    <3>3. cache[d[x]] = {} /\ \A sid \in ToSet(todo) : cache[d[sid]] = {}
      BY <1>1, <1>2, <2>1 DEF CtxRows
    <3>4. \A sid \in ToSet(todo)' : d'[sid] = d[sid] /\ sid \in ToSet(todo)
      <4>1. \A sid \in ToSet(todo)' : sid \in DOMAIN d'
        BY <1>4, <2>3, <2>4, <2>8
      <4> QED BY <1>4, <2>5, <4>1
    <3> QED BY <1>1, <2>1, <2>5, <3>1, <3>2, <3>3, <3>4 DEF CtxRows, Own, Inside, runVars
  <2> QED BY <2>2, <2>9, <2>10
<1> QED BY <1>4, <1>5, <1>6, <1>7 DEF TablesInv

-----------------------------------------------------------------------------
(* Decoding.                                                               *)

\* Concatenation of texts.
LEMMA Associative == \A s, t, u \in Seq(Nat) : (s \o t) \o u = s \o (t \o u)
  BY ONLY ConcatAssociative, SMTT(40)

\* A new token at the end of what the state holds, or moved to its words, extends the text.
LEMMA TextGrows ==
  ASSUME NEW n \in Nat, NEW b \in Seq(Nat), NEW w \in Seq(Nat), NEW t \in Seq(Nat),
         b \o (w \o t) = Upto(n)
  PROVE  /\ b \o (w \o Append(t, n)) = Upto(n + 1)
         /\ b \o ((w \o Append(t, n)) \o <<>>) = Upto(n + 1)
<1> DEFINE h == w \o t
           e == <<n>>
<1>0. e \in Seq(Nat) /\ Append(t, n) = t \o e
  <2>1. Append(t, n) = t \o e
    BY AppendIsConcat
  <2> QED BY <2>1
<1>1. w \o Append(t, n) = (w \o t) \o e
  <2> HIDE DEF e, h
  <2>1. (w \o t) \o e = w \o (t \o e)
    BY ONLY <1>0, w \in Seq(Nat), t \in Seq(Nat), Associative
  <2> DEFINE a == t \o e
             p == Append(t, n)
  <2>2. p = a /\ (w \o t) \o e = w \o a
    BY <1>0, <2>1
  <2> HIDE DEF a, p
  <2>3. w \o p = (w \o t) \o e
    BY <2>2
  <2> QED BY <2>3 DEF p
<1>2. h \in Seq(Nat) /\ w \o Append(t, n) \in Seq(Nat)
  OBVIOUS
<1>3. b \o (w \o Append(t, n)) = Upto(n) \o e
  <2>1. b \o (h \o e) = (b \o h) \o e
    <3> HIDE DEF h, e
    <3> QED BY ONLY <1>0, <1>2, b \in Seq(Nat), Associative, ZenonT(40)
  <2> HIDE DEF e
  <2> QED BY <1>1, <2>1
<1>4. Upto(n) \o e = Upto(n + 1)
  <2> DEFINE u == Upto(n)
             v == Upto(n + 1)
  <2>1. u \in Seq(Nat) /\ Len(u) = n /\ \A i \in 1 .. n : u[i] = i - 1
    BY DEF Upto
  <2>2. v \in Seq(Nat) /\ Len(v) = n + 1 /\ \A i \in 1 .. n + 1 : v[i] = i - 1
    BY DEF Upto
  <2> HIDE DEF u, v
  <2>3. /\ Append(u, n) \in Seq(Nat) /\ Len(Append(u, n)) = n + 1
        /\ \A i \in 1 .. n : Append(u, n)[i] = u[i]
        /\ Append(u, n)[n + 1] = n
    BY <2>1, AppendProperties
  <2>4. \A i \in 1 .. n + 1 : Append(u, n)[i] = v[i]
    <3> SUFFICES ASSUME NEW i \in 1 .. n + 1 PROVE Append(u, n)[i] = v[i]
      OBVIOUS
    <3>1. i \in 1 .. n \/ i = n + 1
      OBVIOUS
    <3>2. CASE i = n + 1
      <4>1. v[n + 1] = n
        BY <2>2
      <4> QED BY <2>3, <3>2, <4>1
    <3>3. CASE i \in 1 .. n
      BY <2>1, <2>2, <2>3, <3>3
    <3> QED BY <3>1, <3>2, <3>3
  <2> DEFINE a == Append(u, n)
  <2>5. a = v
    <3> HIDE DEF a
    <3>1. a \in Seq(Nat) /\ Len(a) = n + 1 /\ \A i \in 1 .. n + 1 : a[i] = v[i]
      BY <2>3, <2>4 DEF a
    <3> QED BY <2>2, <3>1, SeqEqual
  <2>6. Append(u, n) = u \o <<n>>
    BY <2>1, AppendIsConcat
  <2> QED BY <2>5, <2>6 DEF u, v
<1>5. (w \o Append(t, n)) \o <<>> = w \o Append(t, n)
  BY <1>2, ConcatEmptySeq
<1> QED BY <1>3, <1>4, <1>5

\* The last action of a group: the other group is next, or the response.
LEMMA LeaveGroup ==
  ASSUME IInv, Inside, ToSet(todo) = {}, step \in {"free context", "skip"},
         IF final THEN step' = "respond" /\ UNCHANGED <<final, todo>> ELSE EnterGroup(TRUE),
         UNCHANGED <<bufVars, ctxVars, requests, fbuffers>>
  PROVE  /\ ControlInv' /\ TablesInv' /\ final' = TRUE
         /\ IF final THEN step' = "respond" ELSE step' \in {"skip", "assign context"}
<1>1. /\ Ids' = Ids /\ IdsOf(TRUE)' = IdsOf(TRUE) /\ IdsOf(FALSE)' = IdsOf(FALSE)
      /\ OldIds' = OldIds /\ Broken' = Broken
  BY InsideSame, Zenon
<1>2. /\ Ids = IdsOf(TRUE) \cup IdsOf(FALSE) /\ OldIds \subseteq Ids
  BY IdsAre DEF IInv
<1>3. final \in BOOLEAN /\ (step = "skip" => GroupIds = {})
  BY DEF IInv, ControlInv
<1>4. CASE final
  <2>1. step' = "respond" /\ final' = TRUE /\ todo' = todo
    BY <1>4
  <2>2. ControlInv'
    BY <1>1, <2>1 DEF IInv, ControlInv, ToSet
  <2>3. ASSUME ~Broken PROVE BufTable' /\ CtxTable' /\ BufRows' /\ CtxRows'
    <3>1. BufTable /\ BufRows /\ CtxTable /\ CtxRows
      BY <2>3 DEF IInv, TablesInv
    <3>2. BufTable' /\ BufRows'
      <4>1. BufOpen' = BufOpen
        BY <1>1, <2>1 DEF BufOpen
      <4> QED BY <2>1, <2>3, <4>1, BufSame
    <3>3. CtxOpen' = IdsOf(FALSE)
      BY <1>1, <2>1 DEF CtxOpen
    <3>4. CtxOpen = IdsOf(FALSE)
      <4>1. CASE step = "free context"
        BY <1>4, <4>1 DEF CtxOpen
      <4>2. CASE step = "skip"
        BY <1>2, <1>3, <1>4, <4>2 DEF CtxOpen, GroupIds
      <4> QED BY <4>1, <4>2
    <3>5. CtxTable'
      <4>1. ToAssign("assign context") = {}
        BY DEF ToAssign
      <4> QED BY <3>1, <3>3, <3>4, <4>1 DEF CtxTable, TableIs, Inside, ctxVars
    <3>6. CtxRows'
      BY <2>1, <3>1 DEF CtxRows, Own, Inside, runVars, ctxVars
    <3> QED BY <3>2, <3>5, <3>6
  <2> QED BY <1>1, <1>4, <2>1, <2>2, <2>3 DEF TablesInv
<1>5. CASE ~final
  <2>1. /\ final' = TRUE /\ todo' \in Seq(Nat) /\ Distinct(todo') /\ ToSet(todo') = IdsOf(TRUE)
        /\ step' \in {"skip", "assign context"}
        /\ step' = "skip" => IdsOf(TRUE) = {}
    BY <1>5, EnterIs DEF IInv
  <2>2. GroupIds' = IdsOf(TRUE) /\ ToSet(todo)' = IdsOf(TRUE)
    BY <1>1, <2>1 DEF GroupIds, ToSet
  <2>3. ControlInv'
    BY <1>1, <2>1, <2>2 DEF ControlInv, Pending, Distinct
  <2>4. ASSUME ~Broken PROVE BufTable' /\ CtxTable' /\ BufRows' /\ CtxRows'
    <3>1. BufTable /\ BufRows /\ CtxTable /\ CtxRows
      BY <2>4 DEF IInv, TablesInv
    <3>2. BufTable' /\ BufRows'
      <4>1. BufOpen' = BufOpen
        BY <1>1, <2>1 DEF BufOpen
      <4> QED BY <2>1, <2>4, <4>1, BufSame
    <3>3. CtxOpen' = Ids
      BY <1>1, <2>1 DEF CtxOpen
    <3>4. CtxOpen = OldIds \cup IdsOf(FALSE)
      BY <1>5 DEF CtxOpen
    <3>5. Ids \subseteq CtxOpen \cup ToAssign("assign context")' /\ CtxOpen \subseteq Ids
      <4>1. IdsOf(TRUE) \subseteq ToAssign("assign context")'
        BY <2>1, <2>2 DEF ToAssign
      <4> QED BY <1>2, <3>4, <4>1
    <3>6. CtxTable'
      <4>1. ToAssign("assign context") = {}
        BY DEF ToAssign
      <4> QED BY <3>1, <3>3, <3>5, <4>1 DEF CtxTable, TableIs, Inside, ctxVars
    <3>7. CtxRows'
      BY <2>1, <3>1 DEF CtxRows, Own, Inside, runVars, ctxVars
    <3> QED BY <3>2, <3>6, <3>7
  <2> QED BY <1>1, <1>5, <2>1, <2>3, <2>4 DEF TablesInv
<1> QED BY <1>3, <1>4, <1>5

\* Texts are of numbers.
LEMMA BaseIs ==
  ASSUME RunInv, AdapterInv, NEW sid
  PROVE  Base(sid) \in Seq(Nat)
  BY DEF RunInv, AdapterInv, Base

\* A state with other tokens.
LEMMA OneField ==
  ASSUME NEW s \in [tokens : Seq(Nat), words : Seq(Nat)], NEW x
  PROVE  [s EXCEPT !.tokens = x] = [tokens |-> x, words |-> s.words]
  OBVIOUS

\* Each stream of the group gets the token of its frame; an utterance that ends becomes words.
LEMMA DecodeKeeps ==
  ASSUME IInv, Inside, Decode
  PROVE  ControlInv' /\ PoolInv' /\ TextInv' /\ TablesInv'
<1> DEFINE req(sid) == CHOOSE r \in ToSet(Group) : r.stream_id = sid
           States == [tokens : Seq(Nat), words : Seq(Nat)]
<1>1. /\ step = "free context" /\ todo = <<>>
      /\ IF final THEN step' = "respond" /\ UNCHANGED <<final, todo>> ELSE EnterGroup(TRUE)
      /\ UNCHANGED <<bufVars, ctxVars, requests, fbuffers>>
  BY DEF Decode
<1>2. PICK eou \in SUBSET ToSet(StreamIds(Group)) :
         /\ LastIds(Group) \subseteq eou
         /\ state_pool' = [sid \in DOMAIN state_pool |->
               IF sid \in ToSet(StreamIds(Group))
               THEN Decoded(state_pool[sid], req(sid), sid \in eou)
               ELSE state_pool[sid]]
  BY DEF Decode
<1>3. /\ ToSet(StreamIds(Group)) = GroupIds
      /\ LastIds(Group) = IF final THEN IdsOf(TRUE) ELSE {}
      /\ GroupIds \subseteq Ids /\ final \in BOOLEAN
  BY GroupNow DEF IInv, ControlInv
<1>4. /\ ControlInv' /\ TablesInv' /\ final' = TRUE
      /\ IF final THEN step' = "respond" ELSE step' \in {"skip", "assign context"}
  <2>1. ToSet(todo) = {}
    BY <1>1, NothingLeft
  <2> QED BY <1>1, <2>1, LeaveGroup
<1>5. /\ DOMAIN state_pool = Ids /\ DOMAIN state_pool' = Ids
      /\ \A sid \in Ids : state_pool[sid] \in States
  BY <1>1, <1>2 DEF IInv, PoolInv
<1>6. ASSUME NEW i \in DOMAIN requests, requests[i].stream_id \in GroupIds
      PROVE  req(requests[i].stream_id) = requests[i] /\ requests[i].is_last = final
  <2> DEFINE sid == requests[i].stream_id
  <2>1. ToSet(Group) = {r \in ToSet(requests) : r.is_last = final}
    BY <1>3, GroupIs DEF Group, IInv
  <2>2. PICK j \in DOMAIN requests : requests[j].stream_id = sid /\ requests[j].is_last = final
    BY <1>3, <1>6 DEF GroupIds, IdsOf
  <2>3. j = i
    BY <2>2 DEF IInv, RequestsInv
  <2>4. requests[i] \in ToSet(Group)
    BY <2>1, <2>2, <2>3 DEF ToSet
  <2>5. \A r \in ToSet(Group) : r.stream_id = sid => r = requests[i]
    BY <2>1 DEF ToSet, IInv, RequestsInv
  <2> QED BY <2>2, <2>3, <2>4, <2>5
<1> HIDE DEF req
<1>7. ASSUME NEW i \in DOMAIN requests
      PROVE  LET r == requests[i]
                 sid == r.stream_id
                 n == IF final' /\ (r.is_last => step' = "respond") THEN r.index + 1 ELSE r.index
             IN  /\ state_pool'[sid] \in States
                 /\ Base(sid) \o (state_pool'[sid].words \o state_pool'[sid].tokens) = Upto(n)
                 /\ r.is_last /\ final' /\ step' = "respond" => state_pool'[sid].tokens = <<>>
  <2> DEFINE r == requests[i]
             sid == r.stream_id
             state == state_pool[sid]
  <2>1. /\ r.index \in Nat /\ r.is_last \in BOOLEAN /\ sid \in Ids /\ state \in States
    BY <1>5 DEF IInv, RequestsInv, RequestOK, Ids
  <2>2. /\ Base(sid) \o (state.words \o state.tokens)
             = Upto(IF final /\ ~r.is_last THEN r.index + 1 ELSE r.index)
    BY <1>1, <2>1 DEF IInv, TextInv, Held, IsDecoded
  <2>3. Base(sid) \in Seq(Nat)
    BY BaseIs DEF IInv
  <2>4. CASE sid \in GroupIds
    <3>1. r.is_last = final /\ state_pool'[sid] = Decoded(state, r, sid \in eou)
      BY <1>2, <1>3, <1>5, <1>6, <2>1, <2>4
    <3> DEFINE n == r.index
               b == Base(sid)
               w == state.words
               t == state.tokens
    <3>2. w \in Seq(Nat) /\ t \in Seq(Nat) /\ n \in Nat /\ b \in Seq(Nat)
      BY <2>1, <2>3
    <3>3. b \o (w \o t) = Upto(n)
      BY <2>1, <2>2, <3>1
    <3>4. state_pool'[sid] = IF sid \in eou
                             THEN [tokens |-> <<>>, words |-> w \o Append(t, n)]
                             ELSE [state EXCEPT !.tokens = Append(t, n)]
      BY <3>1 DEF Decoded
    <3>5. final' /\ (r.is_last => step' = "respond")
      BY <1>4, <2>1, <3>1
    <3>6. r.is_last => sid \in eou
      <4>1. r.is_last => sid \in LastIds(Group)
        BY <1>3, <2>4, <3>1 DEF GroupIds
      <4> QED BY <1>2, <4>1
    <3>7. [state EXCEPT !.tokens = Append(t, n)] = [tokens |-> Append(t, n), words |-> w]
      BY <2>1, OneField
    <3> HIDE DEF n, b, w, t, state
    <3>8. /\ b \o (w \o Append(t, n)) = Upto(n + 1)
          /\ b \o ((w \o Append(t, n)) \o <<>>) = Upto(n + 1)
      BY <3>2, <3>3, TextGrows
    <3> DEFINE u == Append(t, n)
               x == w \o u
               s == state_pool'[sid]
    <3>9. x \in Seq(Nat) /\ u \in Seq(Nat) /\ <<>> \in Seq(Nat)
      BY <3>2
    <3>11. s = IF sid \in eou THEN [tokens |-> <<>>, words |-> x] ELSE [tokens |-> u, words |-> w]
      BY <3>4, <3>7
    <3>12. b \o (w \o u) = Upto(n + 1) /\ b \o (x \o <<>>) = Upto(n + 1)
      BY <3>8
    <3> HIDE DEF u, x, s
    <3>10. /\ s \in States
           /\ b \o (s.words \o s.tokens) = Upto(n + 1)
           /\ r.is_last => s.tokens = <<>>
      <4>1. CASE sid \in eou
        <5> DEFINE e == <<>>
        <5>1. s = [tokens |-> e, words |-> x] /\ e \in Seq(Nat) /\ b \o (x \o e) = Upto(n + 1)
          BY <3>9, <3>11, <3>12, <4>1
        <5> HIDE DEF e
        <5>2. s.words = x /\ s.tokens = e /\ s \in States
          BY <3>9, <5>1
        <5> QED BY <5>1, <5>2 DEF e
      <4>2. CASE sid \notin eou
        <5>1. s = [tokens |-> u, words |-> w]
          BY <3>11, <4>2
        <5>2. s.words = w /\ s.tokens = u /\ s \in States
          BY <3>2, <3>9, <5>1
        <5> QED BY <3>6, <3>12, <4>2, <5>2
      <4> QED BY <4>1, <4>2
    <3> QED BY <3>5, <3>10 DEF b, n, s
  <2>5. CASE sid \notin GroupIds
    <3>1. state_pool'[sid] = state
      BY <1>2, <1>3, <1>5, <2>1, <2>5
    <3>2. r.is_last = ~final
      BY <1>3, <2>1, <2>5 DEF GroupIds, IdsOf
    <3>3. CASE final
      BY <1>4, <2>1, <2>2, <3>1, <3>2, <3>3
    <3>4. CASE ~final
      BY <1>4, <2>1, <2>2, <3>1, <3>2, <3>4
    <3> QED BY <1>3, <3>3, <3>4
  <2> QED BY <2>4, <2>5
<1>8. PoolInv'
  <2>1. step' # "idle" /\ Ids' = Ids
    BY <1>1, <1>4, InsideSame
  <2>2. \A sid \in Ids : \E i \in DOMAIN requests : requests[i].stream_id = sid
    BY DEF Ids
  <2>3. \A sid \in Ids : state_pool'[sid] \in States
    BY <1>7, <2>2
  <2> QED BY <1>5, <2>1, <2>3 DEF PoolInv
<1>9. TextInv'
  BY <1>1, <1>7 DEF TextInv, Held, Base, IsDecoded, Inside, runVars, adapterVars
<1> QED BY <1>4, <1>8, <1>9

\* A group without requests is passed over.
LEMMA SkipGroupKeeps ==
  ASSUME IInv, Inside, SkipGroup
  PROVE  ControlInv' /\ PoolInv' /\ TextInv' /\ TablesInv'
<1>1. /\ step = "skip" /\ state_pool' = state_pool
      /\ IF final THEN step' = "respond" /\ UNCHANGED <<final, todo>> ELSE EnterGroup(TRUE)
      /\ UNCHANGED <<bufVars, ctxVars, requests, fbuffers>>
  BY DEF SkipGroup
<1>2. ToSet(todo) = {} /\ final \in BOOLEAN /\ GroupIds = {}
  BY <1>1 DEF IInv, ControlInv, Pending
<1>3. /\ ControlInv' /\ TablesInv' /\ final' = TRUE
      /\ IF final THEN step' = "respond" ELSE step' \in {"skip", "assign context"}
  BY <1>1, <1>2, LeaveGroup
<1>4. PoolInv'
  <2>1. step' # "idle" /\ Ids' = Ids
    BY <1>1, <1>3, InsideSame
  <2> QED BY <1>1, <2>1 DEF IInv, PoolInv
<1>5. ASSUME NEW i \in DOMAIN requests
      PROVE  LET r == requests[i]
             IN  /\ r.is_last = ~final
                 /\ final' /\ (r.is_last => step' = "respond") <=> final /\ ~r.is_last
  <2>1. requests[i].is_last \in BOOLEAN
    BY DEF IInv, RequestsInv, RequestOK
  <2>2. IdsOf(final) = {}
    BY <1>2 DEF GroupIds
  <2>3. requests[i].is_last # final
    BY <2>2 DEF IdsOf
  <2> DEFINE l == requests[i].is_last
  <2>4. l = ~final
    BY <1>2, <2>1, <2>3
  <2> HIDE DEF l
  <2>5. final' /\ (l => step' = "respond") <=> final /\ ~l
    <3>1. CASE final
      BY <1>3, <2>4, <3>1
    <3>2. CASE ~final
      BY <1>3, <2>4, <3>2
    <3> QED BY <3>1, <3>2
  <2> QED BY <2>4, <2>5 DEF l
<1>6. TextInv'
  BY <1>1, <1>5 DEF IInv, TextInv, Held, Base, IsDecoded, Inside, runVars, adapterVars
<1> QED BY <1>3, <1>4, <1>6

\* Whatever step of transcribe_step it is.
LEMMA ContinueKeeps ==
  ASSUME IInv, Inside, StepContinues
  PROVE  IInv'
<1>1. ControlInv' /\ PoolInv' /\ TextInv' /\ TablesInv'
  BY AssignBufferKeeps, BufferAudioKeeps, FeaturesKeeps, FreeBufferKeeps, NonfinalFirstKeeps,
     AssignContextKeeps, GetContextKeeps, EncodeKeeps, WipeContextKeeps, FreeContextKeeps,
     DecodeKeeps, SkipGroupKeeps DEF StepContinues
<1>2. requests' = requests /\ step' # "idle"
  BY DEF StepContinues, AssignBuffer, BufferAudio, Features, FreeBuffer, NonfinalFirst,
         AssignContext, GetContext, Encode, WipeContext, FreeContext, Decode, SkipGroup,
         EnterGroup
<1>3. SrcInv' /\ SrcProgress' /\ RequestsInv' /\ ClientInv' /\ RunInv' /\ AdapterInv'
  BY <1>2, InsideKeeps
<1> QED BY <1>1, <1>3 DEF IInv

-----------------------------------------------------------------------------
(* Into a step and out of it.                                              *)

\* A new state holds the empty text.
LEMMA Empty ==
  /\ Upto(0) = <<>> /\ <<>> \in Seq(Nat) /\ NewState \in [tokens : Seq(Nat), words : Seq(Nat)]
  /\ <<>> \o (NewState.words \o NewState.tokens) = Upto(0)
<1> DEFINE e == <<>>
<1>1. Upto(0) = e /\ e \in Seq(Nat)
  BY DEF Upto
<1>2. e \o e = e
  BY ConcatEmptySeq
<1>3. NewState = [tokens |-> e, words |-> e]
  BY DEF NewState
<1> HIDE DEF e
<1>4. NewState.tokens = e /\ NewState.words = e
  BY <1>3
<1>5. NewState \in [tokens : Seq(Nat), words : Seq(Nat)]
  BY <1>1, <1>3
<1>6. e \o (NewState.words \o NewState.tokens) = Upto(0)
  BY <1>1, <1>2, <1>4
<1> QED BY <1>1, <1>5, <1>6 DEF e

\* transcribe_step is called: the streams with a first frame enter the pool, the others are
\* those that are open.
LEMMA BeginKeeps ==
  ASSUME IInv, NEW rs, TranscribeStep(rs), RequestsInv', ~Broken => ~Broken', Broken => Broken',
         client' = client, \A sid : Own(sid)' = Own(sid),
         OldIds' = Open, run # "aborted", call # "raised",
         \A i \in DOMAIN rs : /\ rs[i].is_first => Base(rs[i].stream_id)' = <<>>
                              /\ ~rs[i].is_first => /\ Base(rs[i].stream_id)' = Base(rs[i].stream_id)
                                                    /\ Held(rs[i].stream_id) = Upto(rs[i].index)
  PROVE  ControlInv' /\ PoolInv' /\ TextInv' /\ TablesInv'
<1> DEFINE States == [tokens : Seq(Nat), words : Seq(Nat)]
           New == {r.stream_id : r \in {q \in ToSet(rs) : q.is_first}}
<1>1. /\ step = "idle" /\ step' = "assign buffer" /\ requests' = rs /\ todo' = StreamIds(rs)
      /\ state_pool' = [sid \in DOMAIN state_pool \cup New |->
                          IF sid \in DOMAIN state_pool THEN state_pool[sid] ELSE NewState]
      /\ UNCHANGED <<bufVars, ctxVars, fbuffers, final>>
  BY DEF TranscribeStep, InitStates
<1>2. /\ Ids' = IdsOf(TRUE)' \cup IdsOf(FALSE)' /\ OldIds' \subseteq Ids'
      /\ StreamIds(rs) \in Seq(Nat) /\ Distinct(StreamIds(rs)) /\ ToSet(StreamIds(rs)) = Ids'
  <2>1. /\ rs \in Seq(ToSet(rs)) /\ \A i \in DOMAIN rs : rs[i].stream_id \in Nat
        /\ \A i, j \in DOMAIN rs : rs[i].stream_id = rs[j].stream_id => i = j
        /\ \A i \in DOMAIN rs : rs[i].is_last \in BOOLEAN
    BY <1>1 DEF RequestsInv, RequestOK, ToSet
  <2>2. StreamIds(rs) \in Seq(Nat) /\ Distinct(StreamIds(rs)) /\ ToSet(StreamIds(rs)) = Ids'
    <3>1. ToSet(StreamIds(rs)) = {rs[i].stream_id : i \in DOMAIN rs}
      BY <2>1, StreamIdsAre
    <3>2. StreamIds(rs) \in Seq(Nat) /\ Distinct(StreamIds(rs))
      BY <2>1, StreamIdsAre
    <3> QED BY <1>1, <3>1, <3>2 DEF Ids
  <2>3. Ids' = IdsOf(TRUE)' \cup IdsOf(FALSE)' /\ OldIds' \subseteq Ids'
    BY <1>1, <2>1 DEF Ids, IdsOf, OldIds
  <2> QED BY <2>2, <2>3
<1>3. /\ DOMAIN state_pool = Open /\ ~final
      /\ \A sid \in Open : state_pool[sid] \in States
  BY <1>1 DEF IInv, PoolInv, ControlInv
<1>4. New = Ids' \ OldIds'
  <2>1. \A i \in DOMAIN rs : rs[i].is_first \in BOOLEAN
    BY <1>1 DEF RequestsInv, RequestOK
  <2>2. \A i, j \in DOMAIN rs : rs[i].stream_id = rs[j].stream_id => i = j
    BY <1>1 DEF RequestsInv
  <2>3. Ids' = {rs[i].stream_id : i \in DOMAIN rs}
    BY <1>1 DEF Ids
  <2>4. OldIds' = {rs[i].stream_id : i \in {j \in DOMAIN rs : ~rs[j].is_first}}
    BY <1>1 DEF OldIds
  <2>5. New = {rs[i].stream_id : i \in {j \in DOMAIN rs : rs[j].is_first}}
    BY DEF ToSet
  <2> HIDE DEF New
  <2> QED BY <2>1, <2>2, <2>3, <2>4, <2>5
<1>5. /\ DOMAIN state_pool' = Ids'
      /\ \A sid \in Ids' : state_pool'[sid] \in States
      /\ \A sid \in Open : state_pool'[sid] = state_pool[sid]
      /\ \A sid \in New : state_pool'[sid] = NewState
  <2>1. NewState \in States
    BY Empty
  <2>2. DOMAIN state_pool' = Open \cup New
    BY <1>1, <1>3
  <2> HIDE DEF States, New
  <2> QED BY <1>1, <1>2, <1>3, <1>4, <2>1, <2>2
<1>6. ControlInv'
  <2>1. Pending' = Ids'
    BY <1>1 DEF Pending
  <2>2. /\ todo' \in Seq(Nat) /\ Distinct(todo)' /\ ToSet(todo)' = Ids'
    <3> DEFINE ids == StreamIds(rs)
    <3>1. todo' = ids /\ ids \in Seq(Nat) /\ Distinct(ids) /\ ToSet(ids) = Ids'
      BY <1>1, <1>2
    <3> HIDE DEF ids
    <3> QED BY <3>1 DEF ToSet, Distinct
  <2>3. final' \in BOOLEAN /\ ~final'
    BY <1>1, <1>3 DEF IInv, ControlInv
  <2> QED BY <1>1, <2>1, <2>2, <2>3 DEF ControlInv
<1>7. PoolInv'
  BY <1>1, <1>5 DEF PoolInv
<1>8. TextInv'
  <2> SUFFICES ASSUME NEW i \in DOMAIN rs
               PROVE  LET r == rs[i]
                      IN  /\ Held(r.stream_id)' = Upto(IF IsDecoded(r)' THEN r.index + 1 ELSE r.index)
                          /\ r.is_last /\ IsDecoded(r)' => state_pool'[r.stream_id].tokens = <<>>
    BY <1>1 DEF TextInv
  <2> DEFINE r == rs[i]
             sid == r.stream_id
  <2>1. RequestOK(r)' /\ sid \in Ids' /\ r \in ToSet(rs)
    BY <1>1 DEF RequestsInv, Ids, ToSet
  <2>2. ~IsDecoded(r)'
    BY <1>1, <1>3 DEF IsDecoded
  <2>3. Held(sid)' = Base(sid)' \o (state_pool'[sid].words \o state_pool'[sid].tokens)
    BY DEF Held
  <2>4. CASE r.is_first
    <3>1. sid \in New /\ r.index = 0 /\ Base(sid)' = <<>>
      BY <2>1, <2>4 DEF RequestOK
    <3>2. state_pool'[sid] = NewState
      <4> HIDE DEF sid, New
      <4> QED BY <1>5, <3>1
    <3>3. Held(sid)' = Upto(0)
      BY <2>3, <3>1, <3>2, Empty
    <3> QED BY <2>2, <3>1, <3>3
  <2>5. CASE ~r.is_first
    <3>1. sid \in Open
      <4>1. sid \in OldIds'
        BY <1>1, <2>5 DEF OldIds
      <4> QED BY <4>1
    <3>2. state_pool'[sid] = state_pool[sid]
      <4> HIDE DEF sid
      <4> QED BY <1>5, <3>1
    <3>4. Base(sid)' = Base(sid) /\ Held(sid) = Upto(r.index)
      BY <2>5
    <3>3. Held(sid)' = Upto(r.index)
      BY <2>3, <3>2, <3>4 DEF Held
    <3> QED BY <2>2, <3>3
  <2> QED BY <2>1, <2>4, <2>5 DEF RequestOK
<1>9. ASSUME ~Broken' PROVE BufTable' /\ CtxTable' /\ BufRows' /\ CtxRows'
  <2>1. BufTable /\ CtxTable /\ BufRows /\ CtxRows
    BY <1>9 DEF IInv, TablesInv
  <2>2. BufOpen = Open /\ CtxOpen = Open /\ BufOpen' = Ids' /\ CtxOpen' = OldIds'
    BY <1>1 DEF BufOpen, CtxOpen
  <2>3. /\ ToAssign("assign buffer") = {} /\ ToAssign("assign context") = {}
        /\ ToAssign("assign buffer")' = Ids'
    BY <1>1, <1>2 DEF ToAssign, ToSet
  <2>4. BufTable'
    <3>1. TableIs(buf_streamidx2slotidx, buf_slotidx2streamidx, available_slots)'
      BY <1>1, <2>1 DEF BufTable, TableIs, bufVars
    <3>2. DOMAIN buf_streamidx2slotidx' = DOMAIN buf_streamidx2slotidx
      BY <1>1 DEF bufVars
    <3> QED BY <1>2, <2>1, <2>2, <2>3, <3>1, <3>2 DEF BufTable
  <2>5. CtxTable'
    <3>1. TableIs(ctx_streamidx2slotidx, ctx_slotidx2streamidx, free_slots)'
      BY <1>1, <2>1 DEF CtxTable, TableIs, ctxVars
    <3>2. DOMAIN ctx_streamidx2slotidx' = DOMAIN ctx_streamidx2slotidx
      BY <1>1 DEF ctxVars
    <3> QED BY <1>2, <2>1, <2>2, <2>3, <3>1, <3>2 DEF CtxTable
  <2>6. BufRows' /\ CtxRows'
    <3>1. BufRows'
      BY <1>1, <2>1 DEF BufRows, bufVars
    <3>2. CtxRows'
      BY <1>1, <2>1 DEF CtxRows, ctxVars
    <3> QED BY <3>1, <3>2
  <2> QED BY <2>4, <2>5, <2>6
<1> QED BY <1>6, <1>7, <1>8, <1>9 DEF TablesInv

\* transcribe_step is left: its locals are gone.
LEMMA LeaveKeeps ==
  ASSUME LeaveStep
  PROVE  /\ step' = "idle" /\ RequestsInv' /\ ControlInv' /\ TextInv'
<1>1. requests' = <<>> /\ final' = FALSE /\ todo' = <<>> /\ step' = "idle"
  BY DEF LeaveStep
<1>2. RequestsInv'
  BY <1>1 DEF RequestsInv
<1>3. ControlInv'
  <2>1. ToSet(<<>>) = {} /\ Distinct(<<>>) /\ <<>> \in Seq(Nat)
    BY DEF ToSet, Distinct
  <2> QED BY <1>1, <2>1 DEF ControlInv, ToSet, Distinct
<1>4. TextInv'
  BY <1>1 DEF TextInv
<1> QED BY <1>1, <1>2, <1>3, <1>4

\* It returns: the states of the streams that go on stay, without the words of the response.
LEMMA RespondKeeps ==
  ASSUME IInv, Respond, client' = client, \A sid : Own(sid)' = Own(sid), Broken => Broken',
         Open' = IdsOf(FALSE)
  PROVE  /\ step' = "idle" /\ RequestsInv' /\ ControlInv' /\ PoolInv' /\ TextInv' /\ TablesInv'
         /\ DOMAIN state_pool = Ids
         /\ \A sid \in Ids : state_pool[sid] \in [tokens : Seq(Nat), words : Seq(Nat)]
         /\ \A sid \in IdsOf(FALSE) :
               state_pool'[sid] = [tokens |-> state_pool[sid].tokens, words |-> <<>>]
         /\ \A i \in DOMAIN requests :
               LET r == requests[i]
               IN  /\ Held(r.stream_id) = Upto(r.index + 1)
                   /\ r.is_last => state_pool[r.stream_id].tokens = <<>>
<1> DEFINE States == [tokens : Seq(Nat), words : Seq(Nat)]
<1>1. step = "respond" /\ state_pool' = CleanedUp /\ LeaveStep /\ UNCHANGED <<bufVars, ctxVars>>
  BY DEF Respond
<1>2. step' = "idle" /\ RequestsInv' /\ ControlInv' /\ TextInv'
  BY <1>1, LeaveKeeps
<1>3. DOMAIN state_pool = Ids /\ \A sid \in Ids : state_pool[sid] \in States
  BY <1>1 DEF IInv, PoolInv
<1>4. /\ Ids = IdsOf(TRUE) \cup IdsOf(FALSE) /\ IdsOf(TRUE) \cap IdsOf(FALSE) = {}
      /\ LastIds(requests) = IdsOf(TRUE) /\ ToSet(StreamIds(requests)) = Ids
  BY IdsAre DEF IInv
<1>5. /\ DOMAIN state_pool' = IdsOf(FALSE)
      /\ \A sid \in IdsOf(FALSE) :
            state_pool'[sid] = [tokens |-> state_pool[sid].tokens, words |-> <<>>]
  <2>1. state_pool' = [sid \in IdsOf(FALSE) |-> [state_pool[sid] EXCEPT !.words = <<>>]]
    BY <1>1, <1>3, <1>4 DEF CleanedUp
  <2>2. \A s \in States : [s EXCEPT !.words = <<>>] = [tokens |-> s.tokens, words |-> <<>>]
    OBVIOUS
  <2> HIDE DEF States
  <2> QED BY <1>3, <1>4, <2>1, <2>2
<1>6. PoolInv'
  <2>1. \A s \in States : [tokens |-> s.tokens, words |-> <<>>] \in States
    OBVIOUS
  <2>2. \A sid \in IdsOf(FALSE) : state_pool'[sid] \in States
    <3> HIDE DEF States
    <3> QED BY <1>3, <1>4, <1>5, <2>1
  <2> QED BY <1>2, <1>5, <2>2 DEF PoolInv
<1>7. ASSUME NEW i \in DOMAIN requests
      PROVE  LET r == requests[i]
             IN  /\ Held(r.stream_id) = Upto(r.index + 1)
                 /\ r.is_last => state_pool[r.stream_id].tokens = <<>>
  <2>1. final
    BY <1>1 DEF IInv, ControlInv
  <2>2. IsDecoded(requests[i])
    BY <1>1, <2>1 DEF IsDecoded
  <2> QED BY <2>2 DEF IInv, TextInv
<1>8. ASSUME ~Broken' PROVE BufTable' /\ CtxTable' /\ BufRows' /\ CtxRows'
  <2>1. BufTable /\ CtxTable /\ BufRows /\ CtxRows
    BY <1>8 DEF IInv, TablesInv
  <2>2. BufOpen = IdsOf(FALSE) /\ CtxOpen = IdsOf(FALSE) /\ BufOpen' = Open' /\ CtxOpen' = Open'
    BY <1>1, <1>2 DEF BufOpen, CtxOpen
  <2>3. ToAssign("assign buffer") = {} /\ ToAssign("assign context") = {}
    BY <1>1 DEF ToAssign
  <2>4. BufTable'
    <3>1. TableIs(buf_streamidx2slotidx, buf_slotidx2streamidx, available_slots)'
      BY <1>1, <2>1 DEF BufTable, TableIs, bufVars
    <3>2. DOMAIN buf_streamidx2slotidx' = DOMAIN buf_streamidx2slotidx
      BY <1>1 DEF bufVars
    <3> QED BY <2>1, <2>2, <2>3, <3>1, <3>2 DEF BufTable
  <2>5. CtxTable'
    <3>1. TableIs(ctx_streamidx2slotidx, ctx_slotidx2streamidx, free_slots)'
      BY <1>1, <2>1 DEF CtxTable, TableIs, ctxVars
    <3>2. DOMAIN ctx_streamidx2slotidx' = DOMAIN ctx_streamidx2slotidx
      BY <1>1 DEF ctxVars
    <3> QED BY <2>1, <2>2, <2>3, <3>1, <3>2 DEF CtxTable
  <2>6. BufRows'
    BY <1>1, <1>2, <2>1 DEF BufRows, bufVars
  <2>7. CtxRows'
    BY <1>1, <1>2, <2>1 DEF CtxRows, ctxVars
  <2> QED BY <2>4, <2>5, <2>6, <2>7
<1> QED BY <1>2, <1>3, <1>5, <1>6, <1>7, <1>8 DEF TablesInv

\* It raises: the tables are left as they are, and nothing is claimed of them.
LEMMA RaiseKeeps ==
  ASSUME IInv, StepRaises, Broken', run' = "aborted" \/ call' = "raised"
  PROVE  step' = "idle" /\ RequestsInv' /\ ControlInv' /\ PoolInv' /\ TextInv' /\ TablesInv'
<1>1. LeaveStep /\ state_pool' = state_pool
  BY DEF StepRaises
<1>2. step' = "idle" /\ RequestsInv' /\ ControlInv' /\ TextInv'
  BY <1>1, LeaveKeeps
<1>3. PoolInv'
  BY <1>1, <1>2 DEF IInv, PoolInv
<1> QED BY <1>2, <1>3 DEF TablesInv

-----------------------------------------------------------------------------
(* BasePipeline.run.                                                       *)

\* The requests of a batch: the first frame of the files admitted now, the next one of the
\* streams that run.
LEMMA BatchRequests ==
  ASSUME IInv, client = "run", run = "loop", ReturnBatch, requests' = RequestsOf(frames'),
         client' = client, session' = session, step' # "idle"
  PROVE  LET r == Iterators
         IN  /\ ToSet(r) \subseteq FileIds /\ DOMAIN requests' = DOMAIN r
             /\ Len(requests') <= batch_size
             /\ \A i \in DOMAIN r : /\ requests'[i].stream_id = r[i]
                                    /\ requests'[i].index = frame_count[r[i]]
                                    /\ requests'[i].is_first <=> frame_count[r[i]] = 0
             /\ RequestsInv' /\ Ids' = ToSet(r) /\ OldIds' = ToSet(streams)
             /\ IdsOf(FALSE)' = ToSet(streams')
             /\ \A sid \in ToSet(r) : sid \in ToSet(streams) <=> frame_count[sid] > 0
<1> DEFINE r == Iterators
           Made(i) == [stream_id |-> r[i], index |-> frame_count[r[i]],
                       is_first |-> frame_count[r[i]] = 0, is_last |-> Frame(r[i]).is_last,
                       source |-> <<session, r[i]>>]
<1>0. SrcInv /\ SrcProgress /\ NoEmptyFile
  BY DEF IInv, RunInv
<1>1. /\ r \in Seq(FileIds) /\ Distinct(r) /\ Len(r) <= batch_size /\ DOMAIN r = 1 .. Len(r)
      /\ ToSet(r) = ToSet(streams) \cup (stream_id .. stream_id + NumAdmitted - 1)
      /\ stream_id \in Nat /\ NumAdmitted \in Nat /\ Len(r) \in Nat
  BY <1>0, IteratorsAre
<1>2. /\ DOMAIN frames' = DOMAIN r
      /\ \A i \in DOMAIN r : frames'[i] = Frame(r[i])
      /\ ToSet(streams') = {sid \in ToSet(r) : ~Frame(sid).is_last}
  BY <1>0, BatchIs
<1>3. ToSet(r) \subseteq FileIds /\ FileIds \subseteq Nat
  <2>1. ToSet(r) \subseteq FileIds
    BY <1>0, AdvancedIs
  <2>2. FileIds \subseteq Nat
    BY DEF FileIds
  <2> QED BY <2>1, <2>2
<1>4. ASSUME NEW sid \in ToSet(r)
      PROVE  /\ Frame(sid).stream_id = sid /\ Frame(sid).index = frame_count[sid]
             /\ Frame(sid).is_first = (frame_count[sid] = 0)
             /\ Frame(sid).is_last \in BOOLEAN
  BY DEF Frame
<1>5. \A i \in DOMAIN r : r[i] \in ToSet(r)
  BY DEF ToSet
<1>6. requests' = [i \in DOMAIN r |-> Made(i)]
  <2> HIDE DEF r
  <2>1. requests' = [i \in DOMAIN r |->
           [stream_id |-> frames'[i].stream_id, index |-> frames'[i].index,
            is_first |-> frames'[i].is_first, is_last |-> frames'[i].is_last,
            source |-> <<session, frames'[i].stream_id>>]]
    BY <1>2 DEF RequestsOf
  <2>2. ASSUME NEW i \in DOMAIN r
        PROVE  [stream_id |-> frames'[i].stream_id, index |-> frames'[i].index,
                is_first |-> frames'[i].is_first, is_last |-> frames'[i].is_last,
                source |-> <<session, frames'[i].stream_id>>] = Made(i)
    <3>1. frames'[i] = Frame(r[i]) /\ r[i] \in ToSet(r)
      BY <1>2, <1>5
    <3>2. /\ frames'[i].stream_id = r[i] /\ frames'[i].index = frame_count[r[i]]
          /\ frames'[i].is_first = (frame_count[r[i]] = 0)
          /\ frames'[i].is_last = Frame(r[i]).is_last
      BY <1>4, <3>1
    <3> QED BY <3>2
  <2> HIDE DEF Made
  <2> QED BY <2>1, <2>2
<1>7. ASSUME NEW i \in DOMAIN r
      PROVE  /\ requests'[i].stream_id = r[i] /\ requests'[i].index = frame_count[r[i]]
             /\ requests'[i].is_first = (frame_count[r[i]] = 0)
             /\ requests'[i].is_last = Frame(r[i]).is_last
             /\ requests'[i].source = <<session, r[i]>>
  <2>1. requests'[i] = Made(i)
    <3> HIDE DEF Made, r
    <3> QED BY <1>6
  <2> QED BY <2>1
<1>8. DOMAIN requests' = DOMAIN r /\ Len(requests') = Len(r) /\ requests' \in Seq(ToSet(requests'))
  <2> HIDE DEF Made, r
  <2>1. DOMAIN requests' = 1 .. Len(r)
    BY <1>1, <1>6
  <2>2. requests' = [i \in 1 .. Len(r) |-> Made(i)]
    BY <1>1, <1>6
  <2>3. \A i \in 1 .. Len(r) : requests'[i] \in ToSet(requests')
    BY <2>1 DEF ToSet
  <2>4. requests' \in [1 .. Len(r) -> ToSet(requests')]
    BY <2>2, <2>3
  <2>5. requests' \in Seq(ToSet(requests'))
    BY <1>1, <2>4
  <2>6. Len(requests') \in Nat /\ DOMAIN requests' = 1 .. Len(requests')
    BY <2>5
  <2>7. Len(requests') = Len(r)
    BY <1>1, <2>1, <2>6
  <2> QED BY <1>1, <2>1, <2>5, <2>7
<1> HIDE DEF Made, r
<1>9. \A i \in DOMAIN requests' : RequestOK(requests[i])'
  <2> SUFFICES ASSUME NEW i \in DOMAIN requests' PROVE RequestOK(requests[i])'
    OBVIOUS
  <2>0. i \in DOMAIN r
    BY <1>8
  <2>1. r[i] \in ToSet(r) /\ r[i] \in Nat /\ r[i] \in FileIds
    BY <1>3, <1>5, <2>0
  <2>2. frame_count[r[i]] \in Nat
    BY <1>0, <2>1 DEF SrcInv
  <2>3. \A sid : Own(sid)' = <<session, sid>>
    BY DEF Own
  <2>4. Frame(r[i]).is_last \in BOOLEAN
    BY <1>4, <2>1
  <2>5. /\ requests'[i].stream_id \in Nat /\ requests'[i].index \in Nat
        /\ requests'[i].is_first \in BOOLEAN /\ requests'[i].is_last \in BOOLEAN
        /\ requests'[i].is_first <=> requests'[i].index = 0
    BY <1>7, <2>0, <2>1, <2>2, <2>4
  <2>6. requests'[i].source = <<session, requests'[i].stream_id>>
    BY <1>7, <2>0
  <2> QED BY <2>3, <2>5, <2>6 DEF RequestOK
<1>10. RequestsInv'
  <2>1. \A i, j \in DOMAIN r : requests'[i].stream_id = requests'[j].stream_id => i = j
    BY <1>1, <1>7 DEF Distinct
  <2>3. (requests \in Seq(ToSet(requests)))'
    BY <1>8 DEF ToSet
  <2> QED BY <1>8, <1>9, <2>1, <2>3 DEF RequestsInv
<1>11. \A sid \in ToSet(r) : sid \in ToSet(streams) <=> frame_count[sid] > 0
  <2> SUFFICES ASSUME NEW sid \in ToSet(r) PROVE sid \in ToSet(streams) <=> frame_count[sid] > 0
    OBVIOUS
  <2>1. Progress(sid) /\ frame_count[sid] \in Nat /\ start[sid] \in Nat /\ sid \in Nat
    BY <1>0, <1>3 DEF SrcProgress, SrcInv
  <2>2. CASE sid \in ToSet(streams)
    BY <1>0, <1>1, <2>1, <2>2 DEF Progress, SrcInv
  <2>3. CASE sid \notin ToSet(streams)
    BY <1>1, <2>1, <2>3 DEF Progress
  <2> QED BY <2>2, <2>3
<1>12. Ids' = ToSet(r)
  BY <1>7, <1>8 DEF Ids, ToSet
<1>13. OldIds' = ToSet(streams)
  <2>0. OldIds' = {requests'[i].stream_id : i \in {j \in DOMAIN r : ~requests'[j].is_first}}
    BY <1>8 DEF OldIds
  <2>1. OldIds' = {r[i] : i \in {j \in DOMAIN r : frame_count[r[j]] # 0}}
    <3> DEFINE p == requests'
               c(i) == frame_count[r[i]]
    <3>1. \A i \in DOMAIN r : p[i].stream_id = r[i] /\ (~p[i].is_first <=> c(i) # 0)
      BY <1>7
    <3>2. OldIds' = {p[i].stream_id : i \in {j \in DOMAIN r : ~p[j].is_first}}
      BY <2>0
    <3> HIDE DEF p, c
    <3>3. OldIds' = {r[i] : i \in {j \in DOMAIN r : c(j) # 0}}
      BY <3>1, <3>2
    <3> QED BY <3>3 DEF c
  <2>2. \A sid \in ToSet(r) : frame_count[sid] \in Nat
    BY <1>0, <1>3 DEF SrcInv
  <2>3. ToSet(streams) \subseteq ToSet(r)
    BY <1>1
  <2>4. \A i \in DOMAIN r : frame_count[r[i]] # 0 <=> r[i] \in ToSet(streams)
    BY <1>5, <1>11, <2>2
  <2>5. OldIds' = {r[i] : i \in {j \in DOMAIN r : r[j] \in ToSet(streams)}}
    BY <2>1, <2>4
  <2> QED BY <2>3, <2>5 DEF ToSet
<1>14. IdsOf(FALSE)' = ToSet(streams')
  <2>1. IdsOf(FALSE)' = {r[i] : i \in {j \in DOMAIN r : Frame(r[j]).is_last = FALSE}}
    BY <1>7, <1>8 DEF IdsOf
  <2>2. \A i \in DOMAIN r : Frame(r[i]).is_last = FALSE <=> ~Frame(r[i]).is_last
    BY <1>4, <1>5
  <2> QED BY <1>2, <2>1, <2>2 DEF ToSet
<1> QED BY <1>1, <1>3, <1>7, <1>8, <1>10, <1>11, <1>12, <1>13, <1>14 DEF r

\* run takes the next batch of the generator and begins a step.
LEMMA NextBatchKeeps ==
  ASSUME IInv, NextBatch, OfRun
  PROVE  IInv'
<1>0. PICK r, rs : r = Iterators /\ rs = RequestsOf(frames')
  OBVIOUS
<1>1. /\ run = "loop" /\ run' = "step" /\ ReturnBatch /\ TranscribeStep(rs)
      /\ client = "run" /\ UNCHANGED <<session, pipeline_output, aborted, adapterVars, client>>
  BY <1>0 DEF NextBatch, OfRun
<1>2. /\ step = "idle" /\ step' = "assign buffer" /\ requests' = rs
      /\ \A sid \in DOMAIN state_pool : sid \in DOMAIN state_pool' /\ state_pool'[sid] = state_pool[sid]
  BY <1>1 DEF TranscribeStep, InitStates
<1>3. call = "out" /\ chunks = 0 /\ call' = "out" /\ chunks' = 0
  BY <1>1 DEF IInv, ClientInv, adapterVars
<1>4. SrcInv /\ SrcProgress /\ NoEmptyFile
  BY DEF IInv, RunInv
<1>5. SrcInv' /\ SrcProgress'
  BY <1>1, <1>4, BatchKeeps
<1>6. /\ audio' = audio /\ FileIds' = FileIds
      /\ \A sid \in FileIds : NSamples(sid)' = NSamples(sid)
      /\ \A sid \in FileIds :
            frame_count'[sid] = IF sid \in ToSet(r) THEN frame_count[sid] + 1 ELSE frame_count[sid]
  <2>1. StepIterators /\ Advanced = ToSet(r)
    BY <1>0, <1>1 DEF ReturnBatch
  <2> QED BY <1>4, <2>1, SteppedIs
<1>7. /\ ToSet(r) \subseteq FileIds /\ DOMAIN requests' = DOMAIN r
      /\ Len(requests') <= batch_size
      /\ \A i \in DOMAIN r : /\ requests'[i].stream_id = r[i]
                             /\ requests'[i].index = frame_count[r[i]]
                             /\ requests'[i].is_first <=> frame_count[r[i]] = 0
      /\ RequestsInv' /\ Ids' = ToSet(r) /\ OldIds' = ToSet(streams)
      /\ IdsOf(FALSE)' = ToSet(streams')
      /\ \A sid \in ToSet(r) : sid \in ToSet(streams) <=> frame_count[sid] > 0
  BY <1>0, <1>1, <1>2, BatchRequests
<1>8. /\ DOMAIN pipeline_output = {sid \in FileIds : frame_count[sid] > 0}
      /\ \A sid \in DOMAIN pipeline_output :
            IF sid \in ToSet(streams) THEN Held(sid) = Upto(frame_count[sid])
                                      ELSE pipeline_output[sid] = Upto(frame_count[sid])
  BY <1>1 DEF IInv, RunInv
<1>9. \A i \in DOMAIN r : r[i] \in ToSet(r)
  BY DEF ToSet
<1>10. ASSUME NEW sid PROVE Own(sid)' = Own(sid) /\ Base(sid)' = Base(sid)
  BY <1>1 DEF Own, Base, adapterVars
<1>11. Open = ToSet(streams)
  BY <1>1 DEF Open
<1>12. ASSUME NEW i \in DOMAIN rs
       PROVE  /\ rs[i].is_first => Base(rs[i].stream_id)' = <<>>
              /\ ~rs[i].is_first => /\ Base(rs[i].stream_id)' = Base(rs[i].stream_id)
                                    /\ Held(rs[i].stream_id) = Upto(rs[i].index)
  <2>1. /\ i \in DOMAIN r /\ r[i] \in ToSet(r) /\ r[i] \in FileIds
        /\ rs[i].stream_id = r[i] /\ rs[i].index = frame_count[r[i]]
        /\ rs[i].is_first <=> frame_count[r[i]] = 0
    BY <1>2, <1>7, <1>9
  <2> DEFINE sid == r[i]
  <2>2. frame_count[sid] \in Nat
    BY <1>4, <2>1 DEF SrcInv
  <2>3. CASE frame_count[sid] = 0
    <3>1. sid \notin DOMAIN pipeline_output
      BY <1>8, <2>3
    <3>2. Base(sid) = <<>>
      BY <1>1, <3>1 DEF Base
    <3> HIDE DEF sid
    <3> QED BY <1>10, <2>1, <2>3, <3>2 DEF sid
  <2>4. CASE frame_count[sid] # 0
    <3>1. sid \in DOMAIN pipeline_output /\ sid \in ToSet(streams)
      BY <1>7, <1>8, <2>1, <2>2, <2>4
    <3>2. Held(sid) = Upto(frame_count[sid])
      <4> HIDE DEF sid
      <4> QED BY <1>8, <3>1
    <3> HIDE DEF sid
    <3> QED BY <1>10, <2>1, <2>4, <3>2 DEF sid
  <2> QED BY <2>3, <2>4
<1>13. ControlInv' /\ PoolInv' /\ TextInv' /\ TablesInv'
  <2>1. Broken' = Broken /\ run # "aborted" /\ call # "raised" /\ OldIds' = Open
    BY <1>1, <1>3, <1>7, <1>11 DEF Broken
  <2>2. client' = client /\ RequestsInv' /\ \A sid : Own(sid)' = Own(sid)
    BY <1>1, <1>7, <1>10
  <2> QED BY <1>1, <1>12, <2>1, <2>2, BeginKeeps
<1>14. ClientInv'
  BY <1>1, <1>2, <1>3 DEF IInv, ClientInv, adapterVars
<1>15. AdapterInv'
  BY <1>1, <1>3 DEF IInv, AdapterInv, adapterVars
<1>16. RunInv'
  <2>1. NoEmptyFile'
    BY <1>4, <1>6 DEF NoEmptyFile
  <2>2. \A sid \in DOMAIN pipeline_output : pipeline_output[sid] \in Seq(Nat)
    BY DEF IInv, RunInv
  <2>3. Ids' \subseteq FileIds'
    BY <1>6, <1>7
  <2>4. \A i \in DOMAIN requests' : frame_count'[requests'[i].stream_id] = requests'[i].index + 1
    BY <1>6, <1>7, <1>9
  <2>5. \A sid \in FileIds : frame_count[sid] \in Nat
    BY <1>4 DEF SrcInv
  <2>6. DOMAIN pipeline_output = {sid \in FileIds : frame_count'[sid] > 0} \ (Ids' \ OldIds')
    <3>1. ASSUME NEW sid \in FileIds
          PROVE  frame_count[sid] > 0 <=> frame_count'[sid] > 0 /\ ~(sid \in Ids' /\ sid \notin OldIds')
      <4>1. CASE sid \in ToSet(r)
        <5>1. frame_count'[sid] = frame_count[sid] + 1 /\ frame_count[sid] \in Nat
          BY <1>6, <2>5, <4>1
        <5>2. frame_count'[sid] > 0
          BY <5>1
        <5> QED BY <1>7, <4>1, <5>2
      <4>2. CASE sid \notin ToSet(r)
        BY <1>6, <1>7, <4>2
      <4> QED BY <4>1, <4>2
    <3> QED BY <1>8, <3>1
  <2>7. \A sid \in DOMAIN pipeline_output \ Ids' : pipeline_output[sid] = Upto(frame_count'[sid])
    <3> SUFFICES ASSUME NEW sid \in DOMAIN pipeline_output, sid \notin Ids'
                 PROVE  pipeline_output[sid] = Upto(frame_count'[sid])
      OBVIOUS
    <3>1. sid \in FileIds /\ sid \notin ToSet(r)
      BY <1>7, <1>8
    <3>2. sid \notin ToSet(streams)
      BY <1>7, <3>1, IdsAre, OldIds' \subseteq Ids' DEF OldIds, Ids
    <3> QED BY <1>6, <1>8, <3>1, <3>2
  <2> QED BY <1>1, <1>6, <1>7, <2>1, <2>2, <2>3, <2>4, <2>6, <2>7 DEF RunInv
<1> QED BY <1>5, <1>7, <1>13, <1>14, <1>15, <1>16 DEF IInv

\* run begins: a new generator and an empty pool; only an aborted run leaves slots taken.
LEMMA StartRunKeeps ==
  ASSUME IInv, StartRun, OfRun
  PROVE  IInv'
<1>1. PICK a \in AudioLists : NewGenerator(a)
  BY DEF StartRun
<1>2. /\ run \in {"out", "aborted"} /\ run' = "loop" /\ session' = session + 1
      /\ state_pool' = Ctx!NoEntries /\ pipeline_output' = Ctx!NoEntries
      /\ UNCHANGED <<bufVars, ctxVars, stepVars, aborted, adapterVars, client>>
      /\ client = "run"
  BY DEF StartRun, OpenSession, OfRun
<1>3. /\ call = "out" /\ chunks = 0 /\ step = "idle" /\ step' = "idle" /\ requests' = requests
      /\ call' = "out" /\ chunks' = 0 /\ requests = <<>>
      /\ run = "aborted" => aborted
  BY <1>2 DEF IInv, ClientInv, RequestsInv, adapterVars, stepVars
<1>4. a \in Seq(Nat) /\ SrcInv' /\ SrcProgress'
  BY <1>1, StreamerAssumption, RunAssumption, NewGeneratorIs
<1>5. /\ audio' = a /\ FileIds' = 0 .. Len(a) - 1 /\ streams' = <<>>
      /\ frame_count' = [i \in 0 .. Len(a) - 1 |-> 0]
  BY <1>1 DEF NewGenerator, FileIds, n_audio_files
<1>6. DOMAIN state_pool' = {} /\ DOMAIN pipeline_output' = {}
  BY <1>2 DEF Ctx!NoEntries
<1>7. ToSet(streams') = {} /\ Open' = {}
  <2>1. ToSet(<<>>) = {}
    BY NothingLeft
  <2>2. Open' = ToSet(streams')
    BY <1>2 DEF Open, ToSet
  <2> QED BY <1>5, <2>1, <2>2
<1>8. RequestsInv' /\ TextInv'
  BY <1>3 DEF RequestsInv, TextInv
<1>9. ControlInv'
  BY <1>2, <1>3 DEF IInv, ControlInv, stepVars, Pending
<1>10. ClientInv'
  BY <1>2, <1>3 DEF IInv, ClientInv, adapterVars
<1>11. PoolInv'
  BY <1>3, <1>6, <1>7 DEF PoolInv
<1>12. AdapterInv'
  BY <1>2, <1>3 DEF IInv, AdapterInv, adapterVars
<1>13. RunInv'
  <2>1. NoEmptyFile'
    <3> SUFFICES ASSUME NEW sid \in 0 .. Len(a) - 1 PROVE NSamples(sid)' > 0
      BY <1>5 DEF NoEmptyFile
    <3>1. sid + 1 \in DOMAIN a
      BY <1>4
    <3>2. a[sid + 1] + flush_size > 0
      BY <3>1, StreamerAssumption, RunAssumption
    <3>3. NSamples(sid)' = a[sid + 1] + flush_size
      BY <1>5 DEF NSamples
    <3> QED BY <3>2, <3>3
  <2>2. \A sid \in FileIds' : frame_count'[sid] = 0
    BY <1>5
  <2>3. {sid \in FileIds' : frame_count'[sid] > 0} = {}
    BY <2>2
  <2> QED BY <1>2, <1>6, <2>1, <2>3 DEF RunInv
<1>14. ASSUME ~Broken' PROVE BufTable' /\ CtxTable' /\ BufRows' /\ CtxRows'
  <2>1. ~Broken /\ run = "out" /\ streams = <<>>
    BY <1>2, <1>3, <1>14 DEF Broken, IInv, ClientInv, adapterVars
  <2>2. BufTable /\ CtxTable /\ BufRows /\ CtxRows
    BY <2>1 DEF IInv, TablesInv
  <2>3. BufOpen = {} /\ CtxOpen = {} /\ BufOpen' = {} /\ CtxOpen' = {}
    <3>1. Open = {}
      BY <1>2, <2>1, NothingLeft DEF Open
    <3> QED BY <1>3, <1>7, <3>1 DEF BufOpen, CtxOpen
  <2>4. DOMAIN buf_streamidx2slotidx = {} /\ DOMAIN ctx_streamidx2slotidx = {}
    BY <1>2, <2>2, <2>3 DEF BufTable, CtxTable
  <2>5. DOMAIN buf_slotidx2streamidx = {} /\ DOMAIN ctx_slotidx2streamidx = {}
    BY <2>2, <2>4 DEF BufTable, CtxTable, TableIs
  <2>6. BufTable' /\ CtxTable'
    BY <1>2, <2>2, <2>3, <2>4 DEF BufTable, CtxTable, TableIs, bufVars, ctxVars
  <2>7. BufRows'
    BY <1>2, <1>3, <2>2, <2>5 DEF BufRows, bufVars
  <2>8. CtxRows'
    BY <1>2, <1>3, <2>2, <2>5 DEF CtxRows, ctxVars
  <2> QED BY <2>6, <2>7, <2>8
<1> QED BY <1>4, <1>8, <1>9, <1>10, <1>11, <1>12, <1>13, <1>14 DEF IInv, TablesInv

\* run returns at StopIteration, when nothing is running any more.
LEMMA ReturnOutputKeeps ==
  ASSUME IInv, ReturnOutput, OfRun
  PROVE  IInv' /\ streams = <<>> /\ start' = start /\ frame_count' = frame_count /\ audio' = audio
<1>1. /\ run = "loop" /\ run' = "out" /\ Stopped /\ state_pool' = Ctx!NoEntries
      /\ UNCHANGED <<bufVars, ctxVars, stepVars, session, pipeline_output, aborted, adapterVars,
                     client>>
      /\ client = "run"
  BY DEF ReturnOutput, StopGenerator, OpenSession, OfRun
<1>2. /\ call = "out" /\ chunks = 0 /\ step = "idle" /\ step' = "idle" /\ requests' = requests
      /\ call' = "out" /\ chunks' = 0 /\ requests = <<>>
  BY <1>1 DEF IInv, ClientInv, RequestsInv, adapterVars, stepVars
<1>3. SrcInv /\ SrcProgress /\ NoEmptyFile
  BY DEF IInv, RunInv
<1>4. /\ SrcInv' /\ audio' = audio /\ streams = <<>> /\ streams' = streams
      /\ stream_id' = stream_id /\ start' = start /\ frame_count' = frame_count
      /\ elapsed_durations' = elapsed_durations /\ processed_streams' = processed_streams
  BY <1>1, <1>3, StoppedIs
<1>5. SrcProgress' /\ NoEmptyFile'
  BY <1>3, <1>4 DEF SrcProgress, Progress, NoEmptyFile, FileIds, n_audio_files,
                    NSamples
<1>6. Open = {} /\ Open' = {} /\ DOMAIN state_pool' = {}
  <2>1. Open = ToSet(streams) /\ Open' = ToSet(streams) /\ DOMAIN state_pool' = {}
    BY <1>1, <1>4 DEF Open, ToSet, Ctx!NoEntries
  <2> QED BY <1>4, <2>1, NothingLeft
<1>7. RequestsInv' /\ TextInv'
  BY <1>2 DEF RequestsInv, TextInv
<1>8. ControlInv'
  BY <1>1, <1>2 DEF IInv, ControlInv, stepVars, Pending
<1>9. ClientInv'
  BY <1>1, <1>2, <1>4 DEF IInv, ClientInv, adapterVars
<1>10. PoolInv'
  BY <1>2, <1>6 DEF PoolInv
<1>11. AdapterInv'
  BY <1>1, <1>2 DEF IInv, AdapterInv, adapterVars
<1>12. RunInv'
  BY <1>1, <1>5 DEF IInv, RunInv
<1>13. ASSUME ~Broken' PROVE BufTable' /\ CtxTable' /\ BufRows' /\ CtxRows'
  <2>1. ~Broken
    BY <1>1, <1>2, <1>13 DEF Broken
  <2>2. BufTable /\ CtxTable /\ BufRows /\ CtxRows
    BY <2>1 DEF IInv, TablesInv
  <2>3. BufOpen = {} /\ CtxOpen = {} /\ BufOpen' = {} /\ CtxOpen' = {}
    BY <1>2, <1>6 DEF BufOpen, CtxOpen
  <2>4. BufTable' /\ CtxTable'
    BY <1>1, <1>2, <2>2, <2>3 DEF BufTable, CtxTable, TableIs, bufVars, ctxVars, ToAssign
  <2>5. BufRows'
    BY <1>1, <1>2, <2>2 DEF BufRows, bufVars, Own
  <2>6. CtxRows'
    BY <1>1, <1>2, <2>2 DEF CtxRows, ctxVars, Own
  <2> QED BY <2>4, <2>5, <2>6
<1> QED BY <1>4, <1>5, <1>7, <1>8, <1>9, <1>10, <1>11, <1>12, <1>13 DEF IInv, TablesInv

\* run is left by an exception: from here on nothing is claimed of the tables.
LEMMA AbortKeeps ==
  ASSUME IInv, Abort, OfRun
  PROVE  IInv'
<1>1. /\ run = "step" /\ StepRaises /\ run' = "aborted" /\ aborted' = TRUE /\ client = "run"
      /\ UNCHANGED <<streamerVars, session, pipeline_output, adapterVars, client>>
  BY DEF Abort, OfRun
<1>2. step' = "idle" /\ RequestsInv' /\ ControlInv' /\ PoolInv' /\ TextInv' /\ TablesInv'
  <2>1. Broken'
    BY <1>1 DEF Broken
  <2> QED BY <1>1, <2>1, RaiseKeeps
<1>3. SrcInv' /\ SrcProgress'
  BY <1>1 DEF IInv, streamerVars, SrcInv, SrcProgress, Progress, NoEmptyFile, FileIds,
              n_audio_files, NSamples
<1>4. call = "out" /\ chunks = 0 /\ call' = "out" /\ chunks' = 0
  BY <1>1 DEF IInv, ClientInv, adapterVars
<1>5. ClientInv'
  BY <1>1, <1>2, <1>4 DEF ClientInv
<1>6. AdapterInv'
  BY <1>1, <1>4 DEF IInv, AdapterInv, adapterVars
<1>7. RunInv'
  BY <1>1 DEF IInv, RunInv, streamerVars, NoEmptyFile, FileIds, n_audio_files, NSamples
<1> QED BY <1>2, <1>3, <1>5, <1>6, <1>7 DEF IInv

\* A step of run goes on.
LEMMA ContinueRunKeeps ==
  ASSUME IInv, Continue, OfRun
  PROVE  IInv'
<1>1. StepContinues
  BY DEF Continue
<1>2. Inside
  BY DEF IInv, ClientInv, Continue, OfRun, Inside, runVars
<1> QED BY <1>1, <1>2, ContinueKeeps

\* What run accumulated and what the states hold make the same text as before the response.
LEMMA StepReturnsKeeps ==
  ASSUME IInv, StepReturns, OfRun
  PROVE  IInv'
<1> DEFINE States == [tokens : Seq(Nat), words : Seq(Nat)]
<1>1. /\ run = "step" /\ run' = "loop" /\ pipeline_output' = Accumulated(Outputs) /\ Respond
      /\ UNCHANGED <<streamerVars, session, aborted, adapterVars, client>> /\ client = "run"
  BY DEF StepReturns, OfRun
<1>2. call = "out" /\ chunks = 0 /\ call' = "out" /\ chunks' = 0
  BY <1>1 DEF IInv, ClientInv, adapterVars
<1>3. /\ IdsOf(FALSE) = ToSet(streams) /\ Ids \subseteq FileIds
      /\ \A i \in DOMAIN requests : frame_count[requests[i].stream_id] = requests[i].index + 1
      /\ DOMAIN pipeline_output = {sid \in FileIds : frame_count[sid] > 0} \ (Ids \ OldIds)
      /\ \A sid \in DOMAIN pipeline_output \ Ids : pipeline_output[sid] = Upto(frame_count[sid])
      /\ \A sid \in DOMAIN pipeline_output : pipeline_output[sid] \in Seq(Nat)
      /\ NoEmptyFile
  BY <1>1 DEF IInv, RunInv
<1>4. /\ step' = "idle" /\ RequestsInv' /\ ControlInv' /\ PoolInv' /\ TextInv' /\ TablesInv'
      /\ DOMAIN state_pool = Ids
      /\ \A sid \in Ids : state_pool[sid] \in States
      /\ \A sid \in IdsOf(FALSE) :
            state_pool'[sid] = [tokens |-> state_pool[sid].tokens, words |-> <<>>]
      /\ \A i \in DOMAIN requests :
            LET r == requests[i]
            IN  /\ Held(r.stream_id) = Upto(r.index + 1)
                /\ r.is_last => state_pool[r.stream_id].tokens = <<>>
  <2>1. \A sid : Own(sid)' = Own(sid)
    BY <1>1 DEF Own
  <2>2. (Broken => Broken') /\ client' = client
    BY <1>1, <1>2 DEF Broken
  <2>3. Open' = IdsOf(FALSE)
    BY <1>1, <1>3 DEF Open, streamerVars, ToSet
  <2> QED BY <1>1, <2>1, <2>2, <2>3, RespondKeeps
<1>5. /\ FileIds' = FileIds /\ frame_count' = frame_count /\ streams' = streams
      /\ SrcInv' /\ SrcProgress' /\ NoEmptyFile'
  BY <1>1, <1>3 DEF IInv, streamerVars, SrcInv, SrcProgress, Progress, NoEmptyFile, FileIds,
              n_audio_files, NSamples
<1>6. ClientInv'
  BY <1>1, <1>2, <1>4 DEF IInv, ClientInv, adapterVars
<1>7. AdapterInv'
  BY <1>1, <1>2 DEF IInv, AdapterInv, adapterVars
<1>8. /\ DOMAIN pipeline_output' = DOMAIN pipeline_output \cup Ids
      /\ \A sid \in Ids : pipeline_output'[sid] = Base(sid) \o state_pool[sid].words
      /\ \A sid \in DOMAIN pipeline_output \ Ids : pipeline_output'[sid] = pipeline_output[sid]
  <2> DEFINE os == ToSet(Outputs)
             Text(sid) == IF sid \in DOMAIN pipeline_output THEN pipeline_output[sid] ELSE <<>>
             Of(sid) == CHOOSE o \in os : o.stream_id = sid
  <2>1. pipeline_output' =
          [sid \in DOMAIN pipeline_output \cup {o.stream_id : o \in os} |->
              IF \E o \in os : o.stream_id = sid
              THEN Text(sid) \o Of(sid).final_transcript
              ELSE Text(sid)]
    BY <1>1 DEF Accumulated
  <2>2. \A sid : Text(sid) = Base(sid)
    BY <1>1 DEF Base
  <2>3. os = {[stream_id |-> sid, final_transcript |-> state_pool[sid].words] : sid \in Ids}
    BY DEF Outputs, ToSet, Ids
  <2>4. \A o \in os : o.stream_id \in Ids /\ o.final_transcript = state_pool[o.stream_id].words
    BY <2>3
  <2>5. ASSUME NEW sid \in Ids PROVE \E o \in os : o.stream_id = sid
    <3> DEFINE o == [stream_id |-> sid, final_transcript |-> state_pool[sid].words]
    <3>1. o \in os /\ o.stream_id = sid
      BY <2>3
    <3> QED BY <3>1
  <2>6. {o.stream_id : o \in os} = Ids
    BY <2>4, <2>5
  <2>7. ASSUME NEW sid \in Ids PROVE Of(sid).final_transcript = state_pool[sid].words
    <3>1. Of(sid) \in os /\ Of(sid).stream_id = sid
      BY <2>5
    <3> HIDE DEF Of
    <3> QED BY <2>4, <3>1
  <2> HIDE DEF os, Of, Text
  <2>8. DOMAIN pipeline_output' = DOMAIN pipeline_output \cup Ids
    BY <2>1, <2>6
  <2>9. \A sid \in Ids : pipeline_output'[sid] = Base(sid) \o state_pool[sid].words
    BY <2>1, <2>2, <2>5, <2>6, <2>7
  <2>10. \A sid \in DOMAIN pipeline_output \ Ids : pipeline_output'[sid] = Text(sid)
    BY <2>1, <2>4
  <2> QED BY <2>8, <2>9, <2>10 DEF Text
<1>9. ASSUME NEW i \in DOMAIN requests
      PROVE  LET sid == requests[i].stream_id
             IN  /\ pipeline_output'[sid] \in Seq(Nat)
                 /\ requests[i].is_last => pipeline_output'[sid] = Upto(frame_count[sid])
                 /\ ~requests[i].is_last =>
                       pipeline_output'[sid] \o (state_pool'[sid].words \o state_pool'[sid].tokens)
                          = Upto(frame_count[sid])
  <2> DEFINE sid == requests[i].stream_id
             b == Base(sid)
             w == state_pool[sid].words
             t == state_pool[sid].tokens
             e == <<>>
  <2>1. sid \in Ids /\ requests[i].is_last \in BOOLEAN
    BY DEF Ids, IInv, RequestsInv, RequestOK
  <2>2. b \in Seq(Nat) /\ w \in Seq(Nat) /\ t \in Seq(Nat) /\ e \in Seq(Nat)
    <3>1. state_pool[sid] \in States
      <4> HIDE DEF sid, States
      <4> QED BY <1>4, <2>1
    <3> QED BY <3>1, BaseIs DEF IInv
  <2>3. b \o (w \o t) = Upto(frame_count[sid]) /\ (requests[i].is_last => t = e)
    BY <1>3, <1>4 DEF Held
  <2>4. pipeline_output'[sid] = b \o w
    <3> HIDE DEF sid
    <3> QED BY <1>8, <2>1
  <2>5. ~requests[i].is_last => state_pool'[sid].words = e /\ state_pool'[sid].tokens = t
    <3>1. ~requests[i].is_last => sid \in IdsOf(FALSE)
      BY <2>1 DEF IdsOf
    <3>2. ~requests[i].is_last => state_pool'[sid] = [tokens |-> t, words |-> e]
      <4> HIDE DEF sid
      <4> QED BY <1>4, <3>1
    <3> HIDE DEF sid, t, e
    <3> QED BY <3>2
  <2> HIDE DEF sid, b, w, t, e
  <2>5a. b \o w \in Seq(Nat)
    BY <2>2
  <2>6. (b \o w) \o t = b \o (w \o t)
    BY ONLY <2>2, Associative, ZenonT(40)
  <2>7. w \o e = w /\ e \o t = t
    BY <2>2, ConcatEmptySeq DEF e
  <2> QED BY <2>3, <2>4, <2>5, <2>5a, <2>6, <2>7 DEF sid
<1>10. RunInv'
  <2>1. DOMAIN pipeline_output' = {sid \in FileIds : frame_count[sid] > 0}
    <3>1. \A sid \in Ids : frame_count[sid] > 0
      <4>1. \A i \in DOMAIN requests : requests[i].index \in Nat
        BY DEF IInv, RequestsInv, RequestOK
      <4>2. \A i \in DOMAIN requests : frame_count[requests[i].stream_id] > 0
        BY <1>3, <4>1
      <4> QED BY <4>2 DEF Ids
    <3>2. OldIds \subseteq Ids
      BY IdsAre DEF IInv
    <3> QED BY <1>3, <1>8, <3>1, <3>2
  <2>2. ASSUME NEW sid \in DOMAIN pipeline_output'
        PROVE  /\ pipeline_output'[sid] \in Seq(Nat)
               /\ IF sid \in ToSet(streams) THEN Held(sid)' = Upto(frame_count[sid])
                                            ELSE pipeline_output'[sid] = Upto(frame_count[sid])
    <3>1. Base(sid)' = pipeline_output'[sid]
      BY <1>1 DEF Base
    <3>2. Held(sid)' = pipeline_output'[sid] \o (state_pool'[sid].words \o state_pool'[sid].tokens)
      BY <3>1 DEF Held
    <3>3. CASE sid \in Ids
      <4>1. PICK i \in DOMAIN requests : requests[i].stream_id = sid
        BY <3>3 DEF Ids
      <4>2. sid \in ToSet(streams) <=> ~requests[i].is_last
        BY <1>3, <4>1 DEF IdsOf, IInv, RequestsInv, RequestOK
      <4> QED BY <1>9, <3>2, <4>1, <4>2
    <3>4. CASE sid \notin Ids
      <4>1. sid \in DOMAIN pipeline_output /\ pipeline_output'[sid] = pipeline_output[sid]
        BY <1>8, <3>4
      <4>2. sid \notin ToSet(streams)
        BY <1>3, <3>4, IdsAre DEF IInv
      <4> QED BY <1>3, <3>4, <4>1, <4>2
    <3> QED BY <3>3, <3>4
  <2> QED BY <1>1, <1>5, <2>1, <2>2 DEF RunInv, ToSet
<1> QED BY <1>4, <1>5, <1>6, <1>7, <1>10 DEF IInv

-----------------------------------------------------------------------------
(* The adapter.                                                            *)

\* What simulstream does leaves run alone.
LEMMA RunAside ==
  ASSUME IInv, client = "simulstream", client' = client, UNCHANGED runVars
  PROVE  SrcInv' /\ SrcProgress' /\ RunInv' /\ run = "out" /\ run' = "out" /\ ~aborted /\ ~aborted'
         /\ streams = <<>> /\ streams' = <<>>
<1>1. run = "out" /\ ~aborted /\ streams = <<>>
  BY DEF IInv, ClientInv
<1>2. run' = "out" /\ ~aborted' /\ streams' = <<>>
  BY <1>1 DEF runVars, streamerVars
<1>3. SrcInv' /\ SrcProgress'
  BY DEF IInv, runVars, streamerVars, SrcInv, SrcProgress, Progress, NoEmptyFile, FileIds,
         n_audio_files, NSamples
<1>4. RunInv'
  BY <1>2 DEF IInv, RunInv, runVars, streamerVars, NoEmptyFile, FileIds, n_audio_files,
              NSamples
<1> QED BY <1>1, <1>2, <1>3, <1>4

\* A list of one request.
LEMMA OneRequest ==
  ASSUME NEW x, NEW s, s = <<x>>
  PROVE  DOMAIN s = {1} /\ s[1] = x /\ s \in Seq(ToSet(s))
<1>1. DOMAIN s = 1 .. 1 /\ s[1] = x
  OBVIOUS
<1>2. DOMAIN s = {1}
  BY <1>1
<1>3. x \in ToSet(s)
  BY <1>1, <1>2 DEF ToSet
<1> DEFINE T == ToSet(s)
           e == <<x>>
<1>4. s \in Seq(T)
  <2>1. e \in Seq(T)
    <3>1. x \in T
      BY <1>3
    <3> HIDE DEF T
    <3> QED BY <3>1
  <2> HIDE DEF T, e
  <2> QED BY <2>1, s = e DEF e
<1> QED BY <1>1, <1>2, <1>4

\* The adapter sends a chunk as a batch of one request that is never the last.
LEMMA ProcessChunkKeeps ==
  ASSUME IInv, Adapter!ProcessChunk, OfSimulstream
  PROVE  IInv'
<1>0. PICK rs : rs = <<[stream_id |-> adapter_stream_id, index |-> chunks, is_first |-> chunks = 0,
                        is_last |-> FALSE, source |-> adapter_stream_id]>>
  OBVIOUS
<1>1. /\ call = "out" /\ ~_finalized /\ call' = "process_chunk" /\ TranscribeStep(rs)
      /\ UNCHANGED <<adapter_stream_id, chunks, _finalized, _final_transcript_acc, runVars, client>>
      /\ client = "simulstream"
  BY <1>0, AdapterSteps DEF Adapter!ProcessChunk, Adapter!is_first_chunk, OfSimulstream
<1>2. step = "idle" /\ step' = "assign buffer" /\ requests' = rs
  BY <1>1 DEF TranscribeStep
<1>3. /\ SrcInv' /\ SrcProgress' /\ RunInv' /\ run = "out" /\ run' = "out" /\ ~aborted /\ ~aborted'
      /\ streams' = <<>>
  BY <1>1, RunAside
<1>4. /\ DOMAIN rs = {1} /\ rs[1].stream_id = adapter_stream_id /\ rs[1].index = chunks
      /\ rs[1].is_first = (chunks = 0) /\ rs[1].is_last = FALSE
      /\ rs[1].source = adapter_stream_id /\ rs \in Seq(ToSet(rs))
  <2> DEFINE x == [stream_id |-> adapter_stream_id, index |-> chunks, is_first |-> chunks = 0,
                   is_last |-> FALSE, source |-> adapter_stream_id]
  <2>1. DOMAIN rs = {1} /\ rs[1] = x /\ rs \in Seq(ToSet(rs))
    <3> HIDE DEF x
    <3> QED BY <1>0, OneRequest DEF x
  <2> QED BY <2>1
<1>5. adapter_stream_id \in Nat /\ chunks \in Nat /\ _final_transcript_acc \in Seq(Nat)
  BY DEF IInv, AdapterInv
<1>6. ASSUME NEW sid PROVE Own(sid) = sid /\ Own(sid)' = sid /\ Base(sid)' = Base(sid)
                           /\ Base(sid) = _final_transcript_acc
  BY <1>1 DEF Own, Base
<1>7. RequestsInv'
  <2>1. \A i \in DOMAIN requests' : RequestOK(requests[i])'
    <3>1. \A sid : Own(sid)' = sid
      BY <1>6
    <3>2. DOMAIN requests' = {1} /\ requests'[1].source = requests'[1].stream_id
      BY <1>2, <1>4
    <3> QED BY <1>2, <1>4, <1>5, <3>1, <3>2 DEF RequestOK
  <2> QED BY <1>2, <1>4, <2>1 DEF RequestsInv, ToSet
<1>8. OldIds' = Open /\ ~Broken /\ ~Broken'
  <2>1. OldIds' = {rs[i].stream_id : i \in {j \in {1} : ~rs[j].is_first}}
    BY <1>2, <1>4 DEF OldIds
  <2>2. Open = IF chunks > 0 THEN {adapter_stream_id} ELSE {}
    BY <1>1 DEF Open
  <2>3. OldIds' = Open
    <3>1. CASE chunks = 0
      <4>1. Open = {}
        BY <2>2, <3>1
      <4>2. rs[1].is_first
        BY <1>4, <3>1
      <4> QED BY <2>1, <4>1, <4>2
    <3>2. CASE chunks # 0
      <4>1. OldIds' = {adapter_stream_id}
        BY <1>4, <2>1, <3>2
      <4> QED BY <1>5, <2>2, <3>2, <4>1
    <3> QED BY <3>1, <3>2
  <2> QED BY <1>1, <1>3, <2>3 DEF Broken
<1>9. ASSUME NEW i \in DOMAIN rs
      PROVE  /\ rs[i].is_first => Base(rs[i].stream_id)' = <<>>
             /\ ~rs[i].is_first => /\ Base(rs[i].stream_id)' = Base(rs[i].stream_id)
                                   /\ Held(rs[i].stream_id) = Upto(rs[i].index)
  <2>1. i = 1
    BY <1>4
  <2>2. chunks = 0 => _final_transcript_acc = <<>>
    BY <1>1 DEF IInv, AdapterInv
  <2>3. chunks # 0 => Held(adapter_stream_id) = Upto(chunks)
    BY <1>1, <1>5 DEF IInv, AdapterInv
  <2> QED BY <1>4, <1>6, <2>1, <2>2, <2>3
<1>10. ControlInv' /\ PoolInv' /\ TextInv' /\ TablesInv'
  <2>1. /\ ~Broken => ~Broken'
        /\ Broken => Broken'
        /\ run # "aborted" /\ call # "raised" /\ OldIds' = Open
    BY <1>1, <1>3, <1>8
  <2>2. client' = client /\ RequestsInv' /\ \A sid : Own(sid)' = Own(sid)
    BY <1>1, <1>6, <1>7
  <2> QED BY <1>1, <1>9, <2>1, <2>2, BeginKeeps
<1>11. ClientInv'
  BY <1>1, <1>2, <1>3 DEF IInv, ClientInv
<1>12. AdapterInv'
  BY <1>1, <1>2, <1>4 DEF IInv, AdapterInv
<1> QED BY <1>3, <1>7, <1>10, <1>11, <1>12 DEF IInv

\* A step of the adapter goes on.
LEMMA ContinueChunkKeeps ==
  ASSUME IInv, Adapter!Continue, OfSimulstream
  PROVE  IInv'
<1>1. call = "process_chunk" /\ StepContinues /\ UNCHANGED <<adapterVars, runVars, client>>
  BY AdapterSteps, AdapterVars DEF Adapter!Continue, OfSimulstream
<1>2. Inside
  BY <1>1 DEF IInv, ClientInv, Inside
<1> QED BY <1>1, <1>2, ContinueKeeps

\* The adapter appends what became final to its transcript.
LEMMA ChunkReturnsKeeps ==
  ASSUME IInv, Adapter!ChunkReturns, OfSimulstream
  PROVE  IInv'
<1>1. /\ call = "process_chunk" /\ call' = "out" /\ Respond /\ chunks' = chunks + 1
      /\ _final_transcript_acc' = _final_transcript_acc \o Outputs[1].final_transcript
      /\ UNCHANGED <<adapter_stream_id, _finalized, runVars, client>> /\ client = "simulstream"
  BY AdapterSteps, AdapterOperators DEF Adapter!ChunkReturns, OfSimulstream
<1>2. /\ SrcInv' /\ SrcProgress' /\ RunInv' /\ run' = "out" /\ ~aborted /\ ~aborted'
      /\ streams' = <<>>
  BY <1>1, RunAside
<1>3. /\ DOMAIN requests = {1} /\ requests[1].stream_id = adapter_stream_id
      /\ requests[1].index = chunks /\ ~requests[1].is_last /\ ~_finalized
      /\ adapter_stream_id \in Nat /\ chunks \in Nat /\ _final_transcript_acc \in Seq(Nat)
  BY <1>1 DEF IInv, AdapterInv
<1> DEFINE sid == adapter_stream_id
           b == _final_transcript_acc
           w == state_pool[sid].words
           t == state_pool[sid].tokens
           e == <<>>
<1>4. Ids = {sid} /\ IdsOf(FALSE) = {sid}
  <2>1. requests[1].is_last \in BOOLEAN
    BY <1>3 DEF IInv, RequestsInv, RequestOK
  <2> QED BY <1>3, <2>1 DEF Ids, IdsOf
<1>5. /\ step' = "idle" /\ RequestsInv' /\ ControlInv' /\ PoolInv' /\ TextInv' /\ TablesInv'
      /\ DOMAIN state_pool = Ids
      /\ \A x \in Ids : state_pool[x] \in [tokens : Seq(Nat), words : Seq(Nat)]
      /\ \A x \in IdsOf(FALSE) :
            state_pool'[x] = [tokens |-> state_pool[x].tokens, words |-> <<>>]
      /\ \A i \in DOMAIN requests :
            LET r == requests[i]
            IN  /\ Held(r.stream_id) = Upto(r.index + 1)
                /\ r.is_last => state_pool[r.stream_id].tokens = <<>>
  <2>1. \A x : Own(x)' = Own(x)
    BY <1>1 DEF Own
  <2>2. (Broken => Broken') /\ client' = client
    BY <1>1, <1>2 DEF Broken
  <2>3. Open' = IdsOf(FALSE)
    <3>1. Open' = {sid}
      BY <1>1, <1>3 DEF Open
    <3> QED BY <1>4, <3>1
  <2> QED BY <1>1, <2>1, <2>2, <2>3, RespondKeeps
<1>6. b \in Seq(Nat) /\ w \in Seq(Nat) /\ t \in Seq(Nat) /\ e \in Seq(Nat)
  BY <1>3, <1>4, <1>5
<1>7. b \o (w \o t) = Upto(chunks + 1)
  <2>1. Held(sid) = Upto(chunks + 1)
    BY <1>3, <1>5
  <2>2. Base(sid) = b
    BY <1>1 DEF Base
  <2> QED BY <2>1, <2>2 DEF Held
<1>8. _final_transcript_acc' = b \o w
  BY <1>1, <1>3 DEF Outputs
<1>9. state_pool'[sid].words = e /\ state_pool'[sid].tokens = t
  <2>1. state_pool'[sid] = [tokens |-> t, words |-> e]
    BY <1>4, <1>5
  <2> HIDE DEF t, e
  <2> QED BY <2>1
<1>10. Held(adapter_stream_id)' = Upto(chunks') /\ _final_transcript_acc' \in Seq(Nat)
  <2>1. Held(adapter_stream_id)' = _final_transcript_acc' \o (state_pool'[sid].words \o state_pool'[sid].tokens)
    BY <1>1 DEF Held, Base
  <2>2. Held(adapter_stream_id)' = (b \o w) \o (e \o t)
    BY <1>8, <1>9, <2>1
  <2> HIDE DEF b, w, t, e
  <2>3. (b \o w) \o t = b \o (w \o t)
    BY ONLY <1>6, Associative, ZenonT(40)
  <2>4. b \o w \in Seq(Nat) /\ e \o t = t
    BY <1>6, ConcatEmptySeq DEF e
  <2> QED BY <1>1, <1>7, <1>8, <2>2, <2>3, <2>4
<1>11. ClientInv'
  BY <1>1, <1>2, <1>5 DEF IInv, ClientInv
<1>12. AdapterInv'
  <2>1. chunks' \in Nat /\ chunks' # 0
    BY <1>1, <1>3
  <2> QED BY <1>1, <1>3, <1>10, <2>1 DEF IInv, AdapterInv
<1> QED BY <1>2, <1>5, <1>11, <1>12 DEF IInv

\* The step raises inside the adapter: from here on nothing is claimed of the tables.
LEMMA ChunkRaisesKeeps ==
  ASSUME IInv, Adapter!ChunkRaises, OfSimulstream
  PROVE  IInv'
<1>1. /\ call = "process_chunk" /\ StepRaises /\ call' = "raised" /\ client = "simulstream"
      /\ UNCHANGED <<adapter_stream_id, chunks, _finalized, _final_transcript_acc, runVars, client>>
  BY AdapterSteps DEF Adapter!ChunkRaises, OfSimulstream
<1>2. /\ SrcInv' /\ SrcProgress' /\ RunInv' /\ run' = "out" /\ ~aborted' /\ streams' = <<>>
  BY <1>1, RunAside
<1>3. step' = "idle" /\ RequestsInv' /\ ControlInv' /\ PoolInv' /\ TextInv' /\ TablesInv'
  <2>1. Broken'
    BY <1>1 DEF Broken
  <2> QED BY <1>1, <2>1, RaiseKeeps
<1>4. ClientInv'
  BY <1>1, <1>2, <1>3 DEF IInv, ClientInv
<1>5. AdapterInv'
  BY <1>1 DEF IInv, AdapterInv
<1> QED BY <1>2, <1>3, <1>4, <1>5 DEF IInv

\* end_of_stream and clear: the stream's state is deleted, its slots stay.
LEMMA StreamEndsKeeps ==
  ASSUME IInv, client = "simulstream", call = "out", call' = "out",
         UNCHANGED <<bufVars, ctxVars, stepVars, runVars, client>>,
         Open' = {}, DOMAIN state_pool' = {}, AdapterInv'
  PROVE  IInv'
<1>1. /\ SrcInv' /\ SrcProgress' /\ RunInv' /\ run = "out" /\ run' = "out" /\ ~aborted /\ ~aborted'
      /\ streams' = <<>>
  BY RunAside
<1>2. step = "idle" /\ step' = "idle" /\ requests = <<>> /\ requests' = <<>>
  BY <1>1 DEF IInv, ClientInv, RequestsInv, stepVars
<1>3. RequestsInv' /\ TextInv'
  BY <1>2 DEF RequestsInv, TextInv
<1>4. ControlInv'
  BY <1>2 DEF IInv, ControlInv, stepVars, Pending
<1>5. ClientInv'
  BY <1>1, <1>2 DEF IInv, ClientInv
<1>6. PoolInv'
  BY <1>2 DEF PoolInv
<1>7. TablesInv'
  <2>1. ~Broken /\ ~Broken'
    BY <1>1 DEF Broken
  <2>2. BufTable /\ CtxTable /\ BufRows /\ CtxRows
    BY <2>1 DEF IInv, TablesInv
  <2>3. BufOpen' = {} /\ CtxOpen' = {}
    BY <1>2 DEF BufOpen, CtxOpen
  <2>4. BufTable'
    BY <2>2, <2>3 DEF BufTable, TableIs, bufVars
  <2>5. CtxTable'
    BY <2>2, <2>3 DEF CtxTable, TableIs, ctxVars
  <2>6. BufRows'
    BY <1>2, <2>2 DEF BufRows, bufVars, Own
  <2>7. CtxRows'
    BY <1>2, <2>2 DEF CtxRows, ctxVars, Own
  <2> QED BY <2>4, <2>5, <2>6, <2>7 DEF TablesInv
<1> QED BY <1>1, <1>3, <1>4, <1>5, <1>6, <1>7 DEF IInv

\* end_of_stream takes the rest of the text and deletes the state.
LEMMA EndOfStreamKeeps ==
  ASSUME IInv, Adapter!EndOfStream, OfSimulstream
  PROVE  IInv'
<1>1. /\ call = "out" /\ call' = "out" /\ ~_finalized /\ _finalized' = TRUE
      /\ state_pool' = [sid \in DOMAIN state_pool \ {adapter_stream_id} |-> state_pool[sid]]
      /\ UNCHANGED <<bufVars, ctxVars, stepVars, adapter_stream_id, chunks, _final_transcript_acc,
                     runVars, client>>
      /\ client = "simulstream"
  BY AdapterVars DEF Adapter!EndOfStream, Adapter!Deleted, OfSimulstream
<1>2. DOMAIN state_pool = Open /\ Open \subseteq {adapter_stream_id}
  <2>1. run = "out" /\ step = "idle"
    BY <1>1 DEF IInv, ClientInv
  <2> QED BY <1>1, <2>1 DEF IInv, PoolInv, Open
<1>3. Open' = {} /\ DOMAIN state_pool' = {}
  BY <1>1, <1>2 DEF Open
<1>4. AdapterInv'
  BY <1>1 DEF IInv, AdapterInv
<1> QED BY <1>1, <1>3, <1>4, StreamEndsKeeps

\* clear deletes the state and begins the next stream.
LEMMA ClearKeeps ==
  ASSUME IInv, Adapter!Clear, OfSimulstream
  PROVE  IInv'
<1>1. /\ call = "out" /\ call' = "out" /\ _finalized' = FALSE /\ chunks' = 0
      /\ adapter_stream_id' = adapter_stream_id + 1 /\ _final_transcript_acc' = <<>>
      /\ state_pool' = IF chunks # 0 /\ ~_finalized
                       THEN [sid \in DOMAIN state_pool \ {adapter_stream_id} |-> state_pool[sid]]
                       ELSE state_pool
      /\ UNCHANGED <<bufVars, ctxVars, stepVars, runVars, client>> /\ client = "simulstream"
  BY AdapterVars DEF Adapter!Clear, Adapter!Deleted, Adapter!is_first_chunk, OfSimulstream
<1>2. /\ DOMAIN state_pool = Open
      /\ Open = IF chunks # 0 /\ ~_finalized THEN {adapter_stream_id} ELSE {}
  <2>1. run = "out" /\ step = "idle" /\ chunks \in Nat
    BY <1>1 DEF IInv, ClientInv, AdapterInv
  <2> QED BY <1>1, <2>1 DEF IInv, PoolInv, Open
<1>3. Open' = {} /\ DOMAIN state_pool' = {}
  BY <1>1, <1>2 DEF Open
<1>4. AdapterInv'
  <2>1. adapter_stream_id' \in Nat
    BY <1>1 DEF IInv, AdapterInv
  <2> DEFINE e == <<>>
  <2>2. _final_transcript_acc' = e /\ e \in Seq(Nat)
    BY <1>1, Empty
  <2>3. chunks' \in Nat /\ ~(chunks' > 0)
    BY <1>1
  <2> HIDE DEF e
  <2> QED BY <1>1, <2>1, <2>2, <2>3 DEF AdapterInv, e
<1> QED BY <1>1, <1>3, <1>4, StreamEndsKeeps

-----------------------------------------------------------------------------
(* The theorems about the pipeline under its clients.                      *)

\* All slots are free, each once.
LEMMA FreshTable ==
  ASSUME NEW d, NEW e, NEW q, DOMAIN d = {}, DOMAIN e = {}, q = [i \in 1 .. num_slots |-> i - 1]
  PROVE  TableIs(d, e, q)
<1>1. num_slots \in Nat
  BY StreamerAssumption, RunAssumption
<1>2. \A i \in 1 .. num_slots : i - 1 \in Rows
  BY <1>1 DEF Rows
<1>3. DOMAIN q = 1 .. num_slots /\ \A i \in 1 .. num_slots : q[i] = i - 1
  OBVIOUS
<1>4. q \in Seq(Rows)
  <2>1. q \in [1 .. num_slots -> Rows]
    BY <1>2
  <2> QED BY <1>1, <2>1
<1>5. Distinct(q)
  <2> SUFFICES ASSUME NEW i \in 1 .. num_slots, NEW j \in 1 .. num_slots, q[i] = q[j] PROVE i = j
    BY <1>3 DEF Distinct
  <2>1. i - 1 = j - 1
    BY <1>3
  <2> QED BY <1>1, <2>1
<1>6. ToSet(q) = Rows
  <2>1. ASSUME NEW s \in Rows PROVE s \in ToSet(q)
    <3>1. s + 1 \in 1 .. num_slots /\ (s + 1) - 1 = s
      BY <1>1 DEF Rows
    <3>2. q[s + 1] = s
      BY <1>3, <3>1
    <3> QED BY <1>3, <3>1, <3>2 DEF ToSet
  <2>2. ASSUME NEW s \in ToSet(q) PROVE s \in Rows
    BY <1>2, <1>3 DEF ToSet
  <2> QED BY <2>1, <2>2
<1> QED BY <1>4, <1>5, <1>6 DEF TableIs

\* A new pipeline.
LEMMA ClientsBegin ==
  ASSUME ClientsInit
  PROVE  IInv
<1>1. /\ Buf!BufInit /\ Ctx!CMInit /\ state_pool = Ctx!NoEntries /\ requests = <<>>
      /\ final = FALSE /\ todo = <<>> /\ step = "idle"
  BY DEF ClientsInit, Init, PipelineInit
<1>2. /\ SetAudioFilepaths(<<>>) /\ pipeline_output = Ctx!NoEntries /\ run = "out"
      /\ aborted = FALSE
  BY DEF ClientsInit, Init
<1>3. /\ adapter_stream_id = 0 /\ chunks = 0 /\ _finalized = FALSE /\ call = "out"
      /\ _final_transcript_acc = <<>> /\ client \in {"run", "simulstream"}
  BY DEF ClientsInit, Adapter!Init
<1>4. DOMAIN state_pool = {} /\ DOMAIN pipeline_output = {}
  BY <1>1, <1>2 DEF Ctx!NoEntries
<1>5. /\ audio = <<>> /\ stream_id = 0 /\ streams = <<>> /\ processed_streams = {}
      /\ start = [sid \in FileIds |-> 0] /\ frame_count = [sid \in FileIds |-> 0]
      /\ elapsed_durations = [sid \in FileIds |-> 0]
  BY <1>2 DEF SetAudioFilepaths
<1>6. FileIds = {} /\ Len(audio) = 0 /\ audio \in Seq(Nat)
  <2>1. Len(audio) = 0 /\ audio \in Seq(Nat)
    BY <1>5
  <2> QED BY <2>1 DEF FileIds, n_audio_files
<1>7. ToSet(<<>>) = {} /\ Distinct(<<>>) /\ <<>> \in Seq(Nat) /\ <<>> \in Seq({}) /\ Len(<<>>) = 0
  BY DEF ToSet, Distinct
<1>8. SrcInv /\ SrcProgress /\ NoEmptyFile
  <2>1. Len(streams) <= batch_size
    BY <1>5, <1>7, StreamerAssumption, RunAssumption
  <2> QED BY <1>5, <1>6, <1>7, <2>1 DEF SrcInv, SrcProgress, NoEmptyFile
<1>9. RequestsInv /\ TextInv
  BY <1>1, <1>7 DEF RequestsInv, TextInv
<1>10. ControlInv
  BY <1>1, <1>7 DEF ControlInv
<1>11. ClientInv
  BY <1>1, <1>2, <1>3, <1>5 DEF ClientInv
<1>12. Open = {}
  BY <1>3, <1>5, <1>7 DEF Open
<1>13. PoolInv
  BY <1>1, <1>4, <1>12 DEF PoolInv
<1>14. RunInv
  BY <1>2, <1>4, <1>8 DEF RunInv
<1>15. AdapterInv
  <2>1. ~(chunks > 0) /\ chunks \in Nat /\ adapter_stream_id \in Nat
    BY <1>3
  <2> DEFINE e == <<>>
  <2>2. _final_transcript_acc = e /\ e \in Seq(Nat)
    BY <1>3, <1>7
  <2> HIDE DEF e
  <2> QED BY <1>3, <2>1, <2>2 DEF AdapterInv, e
<1>16. TablesInv
  <2>1. BufOpen = {} /\ CtxOpen = {}
    BY <1>1, <1>12 DEF BufOpen, CtxOpen
  <2>2. BufTable
    <3>1. DOMAIN buf_streamidx2slotidx = {} /\ DOMAIN buf_slotidx2streamidx = {}
      BY <1>1 DEF Buf!BufInit, Buf!NoEntries
    <3>2. TableIs(buf_streamidx2slotidx, buf_slotidx2streamidx, available_slots)
      BY <1>1, <3>1, FreshTable DEF Buf!BufInit
    <3> QED BY <2>1, <3>1, <3>2 DEF BufTable
  <2>3. CtxTable
    <3>1. DOMAIN ctx_streamidx2slotidx = {} /\ DOMAIN ctx_slotidx2streamidx = {}
      BY <1>1 DEF Ctx!CMInit, Ctx!NoEntries
    <3>2. TableIs(ctx_streamidx2slotidx, ctx_slotidx2streamidx, free_slots)
      BY <1>1, <3>1, FreshTable DEF Ctx!CMInit
    <3> QED BY <2>1, <3>1, <3>2 DEF CtxTable
  <2>4. BufRows
    BY <1>1 DEF BufRows, Rows, Buf!BufInit, Buf!NoEntries, Buf!Slots
  <2>5. CtxRows
    BY <1>1 DEF CtxRows, Rows, Ctx!CMInit, Ctx!NoEntries, Ctx!Slots, Ctx!Blank
  <2> QED BY <2>2, <2>3, <2>4, <2>5 DEF TablesInv
<1> QED BY <1>8, <1>9, <1>10, <1>11, <1>13, <1>14, <1>15, <1>16 DEF IInv

\* A step of neither client.
LEMMA ClientsStutter ==
  ASSUME IInv, UNCHANGED clientVars
  PROVE  IInv'
<1>1. /\ UNCHANGED <<bufVars, ctxVars, state_pool, stepVars, streamerVars, adapterVars>>
      /\ UNCHANGED <<session, pipeline_output, run, aborted, client>>
  BY DEF clientVars, pipelineVars, runVars
<1>2. SrcInv' /\ SrcProgress'
  BY <1>1 DEF IInv, streamerVars, SrcInv, SrcProgress, Progress, NoEmptyFile, FileIds,
              n_audio_files, NSamples
<1>3. /\ RequestsInv'
      /\ \A sid : Own(sid)' = Own(sid) /\ Base(sid)' = Base(sid) /\ Held(sid)' = Held(sid)
      /\ Ids' = Ids /\ OldIds' = OldIds /\ GroupIds' = GroupIds /\ Open' = Open /\ Group' = Group
      /\ IdsOf(TRUE)' = IdsOf(TRUE) /\ IdsOf(FALSE)' = IdsOf(FALSE)
      /\ Broken' = Broken /\ Pending' = Pending
  <2>1. Own(0)' = Own(0) /\ \A sid : Own(sid)' = Own(sid)
    BY <1>1 DEF Own
  <2>2. RequestsInv'
    BY <1>1 DEF IInv, RequestsInv, RequestOK, Own, stepVars, ToSet
  <2>3. \A sid : Base(sid)' = Base(sid) /\ Held(sid)' = Held(sid)
    BY <1>1 DEF Base, Held, adapterVars
  <2>4. /\ Ids' = Ids /\ OldIds' = OldIds
        /\ IdsOf(TRUE)' = IdsOf(TRUE) /\ IdsOf(FALSE)' = IdsOf(FALSE)
    BY <1>1 DEF Ids, OldIds, IdsOf, stepVars
  <2>5. GroupIds' = GroupIds /\ Group' = Group
    BY <1>1, GroupSame DEF stepVars
  <2>6. Open' = Open /\ Broken' = Broken
    BY <1>1 DEF Open, Broken, streamerVars, adapterVars, ToSet
  <2>7. Pending' = Pending
    BY <1>1, <2>4, <2>5 DEF Pending, stepVars
  <2> QED BY <2>1, <2>2, <2>3, <2>4, <2>5, <2>6, <2>7
<1>4. ControlInv' /\ ClientInv' /\ PoolInv'
  <2>1. ControlInv'
    BY <1>1, <1>3 DEF IInv, ControlInv, stepVars, ToSet, Distinct
  <2>2. ClientInv'
    BY <1>1 DEF IInv, ClientInv, stepVars, streamerVars, adapterVars
  <2>3. PoolInv'
    BY <1>1, <1>3 DEF IInv, PoolInv, stepVars, adapterVars
  <2> QED BY <2>1, <2>2, <2>3
<1>5. TextInv'
  BY <1>1 DEF IInv, TextInv, Held, Base, IsDecoded, stepVars, adapterVars
<1>6. RunInv' /\ AdapterInv'
  <2>1. RunInv'
    <3>1. NoEmptyFile' = NoEmptyFile /\ FileIds' = FileIds
      BY <1>1 DEF streamerVars, NoEmptyFile, FileIds, n_audio_files, NSamples
    <3>2. ToSet(streams)' = ToSet(streams) /\ frame_count' = frame_count
      BY <1>1 DEF streamerVars, ToSet
    <3>3. run' = run /\ pipeline_output' = pipeline_output /\ requests' = requests
      BY <1>1 DEF stepVars
    <3> QED BY <1>3, <3>1, <3>2, <3>3 DEF IInv, RunInv
  <2>2. AdapterInv'
    BY <1>1 DEF IInv, AdapterInv, Held, Base, stepVars, adapterVars
  <2> QED BY <2>1, <2>2
<1>7. TablesInv'
  <2> SUFFICES ASSUME ~Broken PROVE BufTable' /\ CtxTable' /\ BufRows' /\ CtxRows'
    BY <1>3 DEF TablesInv
  <2>1. BufTable /\ CtxTable /\ BufRows /\ CtxRows
    BY DEF IInv, TablesInv
  <2>2. step' = step /\ todo' = todo /\ final' = final /\ requests' = requests
    BY <1>1 DEF stepVars
  <2>3. BufOpen' = BufOpen /\ CtxOpen' = CtxOpen
    BY <1>3, <2>2 DEF BufOpen, CtxOpen, ToSet
  <2>4. /\ ToSet(todo)' = ToSet(todo) /\ client' = client
        /\ ToAssign("assign buffer")' = ToAssign("assign buffer")
        /\ ToAssign("assign context")' = ToAssign("assign context")
    BY <1>1, <2>2 DEF ToAssign, ToSet
  <2>5. /\ buf_streamidx2slotidx' = buf_streamidx2slotidx
        /\ buf_slotidx2streamidx' = buf_slotidx2streamidx /\ available_slots' = available_slots
        /\ audio_bufferers' = audio_bufferers /\ feature_buffer' = feature_buffer
        /\ slots_to_reset' = slots_to_reset /\ fbuffers' = fbuffers
    BY <1>1 DEF bufVars, stepVars
  <2>6. /\ ctx_streamidx2slotidx' = ctx_streamidx2slotidx
        /\ ctx_slotidx2streamidx' = ctx_slotidx2streamidx /\ free_slots' = free_slots
        /\ cache' = cache /\ context' = context /\ mapping' = mapping
    BY <1>1 DEF ctxVars
  <2>7. BufTable'
    BY <2>1, <2>3, <2>4, <2>5 DEF BufTable, TableIs
  <2>8. CtxTable'
    BY <2>1, <2>3, <2>4, <2>6 DEF CtxTable, TableIs
  <2>9. BufRows'
    BY <1>3, <2>1, <2>2, <2>5 DEF BufRows
  <2>10. CtxRows'
    BY <1>3, <2>1, <2>2, <2>4, <2>6 DEF CtxRows
  <2> QED BY <2>7, <2>8, <2>9, <2>10
<1> QED BY <1>2, <1>3, <1>4, <1>5, <1>6, <1>7 DEF IInv

\* The inductive invariant, whichever client the pipeline serves.
THEOREM PipelineInvariance == ClientsSpec => []IInv
<1>1. ClientsInit => IInv
  BY ClientsBegin
<1>2. IInv /\ [ClientsNext]_clientVars => IInv'
  <2> SUFFICES ASSUME IInv, [ClientsNext]_clientVars PROVE IInv'
    OBVIOUS
  <2> QED BY StartRunKeeps, NextBatchKeeps, ContinueRunKeeps, StepReturnsKeeps, AbortKeeps,
             ReturnOutputKeeps, ProcessChunkKeeps, ContinueChunkKeeps, ChunkReturnsKeeps,
             ChunkRaisesKeeps, EndOfStreamKeeps, ClearKeeps, ClientsStutter DEF ClientsNext
<1> QED BY <1>1, <1>2, PTL DEF ClientsSpec

\* Whatever slots and ids are reused for, the encoder is given for a stream its own audio of
\* this session, as long as no run was aborted.
THEOREM OwnAudio == ClientsSpec => []EncoderSeesOwnAudio
<1>1. IInv => EncoderSeesOwnAudio
  <2> SUFFICES ASSUME IInv, step = "encode", ~aborted
               PROVE  \A i \in DOMAIN Group :
                         /\ GroupFeatures(Group[i].stream_id) = {Group[i].source}
                         /\ context[i] \subseteq {Group[i].source}
    BY DEF EncoderSeesOwnAudio
  <2>1. ~Broken
    BY DEF IInv, ClientInv, Broken
  <2> QED BY <2>1, EncoderInput DEF IInv, TablesInv
<1> QED BY <1>1, PipelineInvariance, PTL

\* Between steps the bufferer, the context manager and the state pool know the same streams.
THEOREM TablesAgreeAlways == ClientsSpec => []TablesAgree
<1>1. IInv => TablesAgree
  <2> SUFFICES ASSUME IInv, run = "loop", ~aborted
               PROVE  /\ DOMAIN state_pool = ToSet(streams)
                      /\ DOMAIN buf_streamidx2slotidx = ToSet(streams)
                      /\ DOMAIN ctx_streamidx2slotidx = ToSet(streams)
    BY DEF TablesAgree
  <2>1. client = "run" /\ call = "out" /\ step = "idle" /\ ~Broken
    BY DEF IInv, ClientInv, Broken
  <2>2. Open = ToSet(streams) /\ BufOpen = ToSet(streams) /\ CtxOpen = ToSet(streams)
    BY <2>1 DEF Open, BufOpen, CtxOpen
  <2>3. DOMAIN state_pool = ToSet(streams)
    BY <2>1, <2>2 DEF IInv, PoolInv
  <2>4. BufTable /\ CtxTable
    BY <2>1 DEF IInv, TablesInv
  <2> QED BY <2>1, <2>2, <2>3, <2>4 DEF BufTable, CtxTable, ToAssign
<1> QED BY <1>1, PipelineInvariance, PTL

\* Each frame is transcribed once and in order, aborted runs before or not.
THEOREM TextIsWhole == ClientsSpec => []NothingLostOrRepeated
<1>1. IInv => NothingLostOrRepeated
  <2> SUFFICES ASSUME IInv, run = "loop", NEW sid \in DOMAIN pipeline_output
               PROVE  LET held == IF sid \in DOMAIN state_pool
                                  THEN state_pool[sid].words \o state_pool[sid].tokens ELSE <<>>
                      IN  pipeline_output[sid] \o held = Upto(frame_count[sid])
    BY DEF NothingLostOrRepeated, Upto
  <2>1. client = "run" /\ call = "out" /\ step = "idle"
    BY DEF IInv, ClientInv
  <2>2. DOMAIN state_pool = ToSet(streams)
    BY <2>1 DEF IInv, PoolInv, Open
  <2>3. CASE sid \in ToSet(streams)
    <3>1. Held(sid) = Upto(frame_count[sid]) /\ Base(sid) = pipeline_output[sid]
      BY <2>1, <2>3 DEF IInv, RunInv, Base
    <3> QED BY <2>2, <2>3, <3>1 DEF Held
  <2>4. CASE sid \notin ToSet(streams)
    <3>1. pipeline_output[sid] = Upto(frame_count[sid]) /\ pipeline_output[sid] \in Seq(Nat)
      BY <2>4 DEF IInv, RunInv
    <3> DEFINE p == pipeline_output[sid]
               e == <<>>
    <3>2. p \o e = p
      BY <3>1, ConcatEmptySeq
    <3> HIDE DEF p, e
    <3>3. p \o (IF sid \in DOMAIN state_pool
                THEN state_pool[sid].words \o state_pool[sid].tokens ELSE e) = p
      BY <2>2, <2>4, <3>2
    <3> QED BY <3>1, <3>3 DEF p, e
  <2> QED BY <2>3, <2>4
<1> QED BY <1>1, PipelineInvariance, PTL

\* The chunks of every stream simulstream pushes come out as its text.
THEOREM AdapterTextIsWhole == ClientsSpec => []AdapterTranscribesAll
<1>1. IInv => AdapterTranscribesAll
  <2> DEFINE b == _final_transcript_acc
             w == state_pool[adapter_stream_id].words
             t == state_pool[adapter_stream_id].tokens
  <2> SUFFICES ASSUME IInv, call = "out", ~_finalized, chunks > 0
               PROVE  (b \o w) \o t = Upto(chunks)
    BY DEF AdapterTranscribesAll, Adapter!NothingLostOrRepeated, Upto
  <2>1. client = "simulstream" /\ run = "out" /\ step = "idle"
    BY DEF IInv, ClientInv
  <2>2. Held(adapter_stream_id) = Upto(chunks) /\ b \in Seq(Nat)
    BY DEF IInv, AdapterInv
  <2>3. DOMAIN state_pool = {adapter_stream_id}
    BY <2>1 DEF IInv, PoolInv, Open
  <2>4. state_pool[adapter_stream_id] \in [tokens : Seq(Nat), words : Seq(Nat)]
    BY <2>3 DEF IInv, PoolInv
  <2>5. w \in Seq(Nat) /\ t \in Seq(Nat)
    BY <2>4
  <2>6. b \o (w \o t) = Upto(chunks)
    BY <2>1, <2>2 DEF Held, Base
  <2> HIDE DEF b, w, t
  <2> QED BY <2>2, <2>5, <2>6, Associative
<1> QED BY <1>1, PipelineInvariance, PTL

\* What run returns: the text of every file, streamed to its end.
THEOREM EveryTextIsReturned == ClientsSpec => RunReturnsEveryText
<1> DEFINE A == run = "loop" /\ run' = "out" =>
                  \A sid \in FileIds :
                      /\ sid \in DOMAIN pipeline_output
                      /\ pipeline_output[sid] = [i \in 1 .. frame_count[sid] |-> i - 1]
                      /\ start[sid] >= NSamples(sid)
<1>1. ASSUME IInv, [ClientsNext]_clientVars PROVE [A]_vars
  <2> SUFFICES ASSUME run = "loop", run' = "out", NEW sid \in FileIds
               PROVE  /\ sid \in DOMAIN pipeline_output
                      /\ pipeline_output[sid] = Upto(frame_count[sid])
                      /\ start[sid] >= NSamples(sid)
    BY DEF Upto
  <2>1. ReturnOutput /\ OfRun
    <3>1. client = "run"
      BY <1>1 DEF IInv, ClientInv
    <3>2. run' # run
      OBVIOUS
    <3> QED BY <1>1, <3>1, <3>2
            DEF ClientsNext, clientVars, runVars, StartRun, NextBatch, Continue, StepReturns, Abort,
                OfSimulstream
  <2>2. streams = <<>> /\ stream_id = Len(audio)
    <3>1. Stopped
      BY <2>1 DEF ReturnOutput, StopGenerator
    <3> QED BY <1>1, <3>1, StoppedIs DEF IInv, RunInv
  <2>3. SrcInv /\ NoEmptyFile /\ Progress(sid)
    BY <1>1 DEF IInv, RunInv, SrcProgress
  <2>4. /\ sid \in Nat /\ sid < Len(audio) /\ NSamples(sid) \in Nat /\ NSamples(sid) > 0
        /\ start[sid] \in Nat /\ frame_count[sid] \in Nat
    BY <2>3, SamplesAre DEF NoEmptyFile, SrcInv
  <2>5. sid \notin ToSet(streams)
    BY <2>2, NothingLeft
  <2>6. start[sid] >= NSamples(sid)
    BY <2>2, <2>3, <2>4, <2>5 DEF Progress
  <2>7. frame_count[sid] > 0
    BY <2>3, <2>4, <2>6 DEF Progress
  <2>8. sid \in DOMAIN pipeline_output /\ pipeline_output[sid] = Upto(frame_count[sid])
    BY <1>1, <2>5, <2>7 DEF IInv, RunInv
  <2> QED BY <2>6, <2>8
<1>2. IInv /\ [ClientsNext]_clientVars => [A]_vars
  <2> HIDE DEF A
  <2> QED BY <1>1
<1>3. ClientsSpec => [][A]_vars
  <2> HIDE DEF A
  <2> QED BY <1>2, PipelineInvariance, PTL DEF ClientsSpec
<1> QED BY <1>3 DEF RunReturnsEveryText

\* batch_size streams always find their slots, in the bufferer and in the context manager: only
\* the model can abort the first run that is.
THEOREM SlotsSuffice == ClientsSpec => AlwaysASlot
<1> DEFINE A == Abort /\ ~aborted => step \in {"features", "encode"}
<1>1. ASSUME IInv, [ClientsNext]_clientVars PROVE [A]_vars
  <2> SUFFICES ASSUME Abort, ~aborted PROVE step \in {"features", "encode"}
    OBVIOUS
  <2>1. run = "step" /\ StepRaises
    BY DEF Abort
  <2>2. client = "run" /\ call = "out" /\ ~Broken
    BY <1>1, <2>1 DEF IInv, ClientInv, Broken
  <2>3. BufTable /\ CtxTable /\ RequestsInv /\ ControlInv /\ Len(requests) <= batch_size
    BY <1>1, <2>1, <2>2 DEF IInv, TablesInv, RunInv
  <2>4. IsFiniteSet(Ids) /\ Cardinality(Ids) \in Nat /\ Cardinality(Ids) <= num_slots
    <3> DEFINE ids == StreamIds(requests)
    <3>1. ids \in Seq(Nat) /\ Distinct(ids) /\ ToSet(ids) = Ids
      BY <2>3, IdsAre
    <3>2. Len(ids) = Len(requests)
      <4>1. DOMAIN ids = DOMAIN requests /\ requests \in Seq(ToSet(requests))
        BY <2>3 DEF StreamIds, RequestsInv
      <4> HIDE DEF ids
      <4> QED BY <3>1, <4>1
    <3> HIDE DEF ids
    <3>3. IsFiniteSet(Ids) /\ Cardinality(Ids) = Len(requests)
      BY <3>1, <3>2, SizeOfDistinct
    <3> QED BY <2>3, <3>3, FS_CardinalityType, StreamerAssumption, RunAssumption
  <2>5. ASSUME NEW x \in Ids PROVE IsFiniteSet(Ids \ {x}) /\ ~(num_slots <= Cardinality(Ids \ {x}))
    <3>1. IsFiniteSet(Ids \ {x}) /\ Cardinality(Ids \ {x}) = Cardinality(Ids) - 1
      BY <2>4, FS_RemoveElement
    <3> QED BY <2>4, <3>1, StreamerAssumption, RunAssumption
  <2>6. ~NoBuffer
    <3> SUFFICES ASSUME NoBuffer PROVE FALSE
      OBVIOUS
    <3> DEFINE x == Head(todo)
    <3>1. step = "assign buffer" /\ todo # <<>> /\ x \notin DOMAIN buf_streamidx2slotidx
          /\ available_slots = <<>>
      BY DEF NoBuffer, Buf!AssignSlotRaises, Buf!Known
    <3>2. x \in Ids
      BY <2>3, <3>1, TodoIs DEF Pending
    <3>3. DOMAIN buf_streamidx2slotidx \subseteq Ids
      BY <2>2, <2>3, <3>1 DEF BufTable, BufOpen
    <3> HIDE DEF x
    <3>4. num_slots <= Cardinality(Ids \ {x})
      <4>1. TableIs(buf_streamidx2slotidx, buf_slotidx2streamidx, <<>>)
        BY <2>3, <3>1 DEF BufTable
      <4>2. IsFiniteSet(Ids \ {x}) /\ DOMAIN buf_streamidx2slotidx \subseteq Ids \ {x} /\ num_slots \in Nat
        BY <2>5, <3>1, <3>2, <3>3, StreamerAssumption, RunAssumption DEF x
      <4> QED BY <4>1, <4>2, TableFull
    <3> QED BY <2>5, <3>2, <3>4
  <2>7. ~NoContext
    <3> SUFFICES ASSUME NoContext PROVE FALSE
      OBVIOUS
    <3> DEFINE x == Head(todo)
    <3>1. step = "assign context" /\ todo # <<>> /\ x \notin DOMAIN ctx_streamidx2slotidx
          /\ free_slots = <<>>
      BY DEF NoContext, Ctx!NoFreeSlot, Ctx!Known
    <3>2. x \in Ids
      BY <2>3, <3>1, TodoIs, GroupNow DEF Pending, ControlInv
    <3>3. DOMAIN ctx_streamidx2slotidx \subseteq Ids
      BY <2>2, <2>3, <3>1, IdsAre DEF CtxTable, CtxOpen
    <3> HIDE DEF x
    <3>4. num_slots <= Cardinality(Ids \ {x})
      <4>1. TableIs(ctx_streamidx2slotidx, ctx_slotidx2streamidx, <<>>)
        BY <2>3, <3>1 DEF CtxTable
      <4>2. IsFiniteSet(Ids \ {x}) /\ DOMAIN ctx_streamidx2slotidx \subseteq Ids \ {x} /\ num_slots \in Nat
        BY <2>5, <3>1, <3>2, <3>3, StreamerAssumption, RunAssumption DEF x
      <4> QED BY <4>1, <4>2, TableFull
    <3> QED BY <2>5, <3>2, <3>4
  <2> QED BY <2>1, <2>6, <2>7 DEF StepRaises, ModelRaises
<1>2. IInv /\ [ClientsNext]_clientVars => [A]_vars
  <2> HIDE DEF A
  <2> QED BY <1>1
<1>3. ClientsSpec => [][A]_vars
  <2> HIDE DEF A
  <2> QED BY <1>2, PipelineInvariance, PTL DEF ClientsSpec
<1> QED BY <1>3 DEF AlwaysASlot
=============================================================================
