---------------------------- MODULE BiasingProofs ----------------------------
(***************************************************************************)
(* The multi-model of the biasing models keeps every model whole: proofs   *)
(* for any models, any sizes of the tensors and any streams.               *)
(***************************************************************************)
EXTENDS BiasedStreams, TLAPS

-----------------------------------------------------------------------------
(* One group of tensors g, that of the states or that of the arcs: n ids,   *)
(* of which some are active; the cells of active models lie apart from each *)
(* other within the cells in use, and what is not in use is zero.           *)
Arena(n, active, g) ==
    /\ g.total \in Nat /\ g.reserved \in Nat /\ g.total <= g.reserved
    /\ DOMAIN g.buf = 0 .. g.reserved - 1
    /\ g.offset \in [0 .. n - 1 -> Nat] /\ g.size \in [0 .. n - 1 -> Nat]
    /\ \A id \in 0 .. n - 1 :
          active[id] => g.size[id] > 0 /\ g.offset[id] + g.size[id] <= g.total
    /\ \A a, b \in 0 .. n - 1 :
          active[a] /\ active[b] /\ a # b =>
              \/ g.offset[a] + g.size[a] <= g.offset[b]
              \/ g.offset[b] + g.size[b] <= g.offset[a]
    /\ \A i \in g.total .. g.reserved - 1 : g.buf[i] = Zero

States == [offset |-> model2states_offset, size |-> model2num_states, buf |-> all_states,
           total |-> num_states_total, reserved |-> num_states_reserved]
Arcs == [offset |-> model2arcs_offset, size |-> model2num_arcs_extended, buf |-> all_arcs,
         total |-> num_arcs_extended_total, reserved |-> num_arcs_extended_reserved]

\* The cells of a model.
Cells(g, id) == Slice(g.buf, g.offset, g.size, id)

\* g after add_model put k cells for model m under id, count of them its data.
WithModel(g, slots, id, m, k, count) ==
    [offset |-> Assigned(g.offset, slots, 0, id, g.total),
     size |-> Assigned(g.size, slots, 0, id, k),
     buf |-> Copied(Extended(g.buf, Grown(g.reserved, g.total, k), Zero), g.total, m, count),
     total |-> g.total + k,
     reserved |-> Grown(g.reserved, g.total, k)]

\* g after remove_model took the cells of id out; act are the active models then.
WithoutModel(g, act, id) ==
    [offset |-> Shifted(g.offset, act, id, g.size[id]),
     size |-> [g.size EXCEPT ![id] = 0],
     buf |-> Cut(g.buf, g.offset[id], g.offset[id] + g.size[id], g.total),
     total |-> g.total - g.size[id],
     reserved |-> g.reserved]

\* Where a range of k cells at x is after the s cells at st were cut out.
Moved(x, k, y, st, s) ==
    \/ x >= st + s /\ y = x - s
    \/ x + k <= st /\ y = x

\* Two ranges that were apart still are.
LEMMA MovedApart ==
    ASSUME NEW st \in Nat, NEW s \in Nat, NEW x \in Nat, NEW k \in Nat, NEW y \in Nat,
           NEW v \in Nat, NEW l \in Nat, NEW w \in Nat,
           Moved(x, k, y, st, s), Moved(v, l, w, st, s), x + k <= v \/ v + l <= x
    PROVE  y + k <= w \/ w + l <= y
BY DEF Moved

\* The cells of id can be taken out of g; what that gives, the group h with the
\* active models act.
CanLeave(n, active, g, id) ==
    /\ n \in Nat /\ active \in [0 .. n - 1 -> BOOLEAN] /\ Arena(n, active, g)
    /\ id \in 0 .. n - 1 /\ active[id]
Left(n, act, g, h) ==
    /\ Arena(n, act, h)
    /\ \A o \in 0 .. n - 1 : act[o] => Cells(h, o) = Cells(g, o)

\* remove_model on one group: the others keep their cells.
LEMMA ArenaWithoutModel ==
    ASSUME NEW n, NEW active, NEW g, NEW id, CanLeave(n, active, g, id),
           NEW act, act = [active EXCEPT ![id] = FALSE]
    PROVE  Left(n, act, g, WithoutModel(g, act, id))
<1> DEFINE h == WithoutModel(g, act, id)
<1>f. /\ n \in Nat /\ active \in [0 .. n - 1 -> BOOLEAN] /\ Arena(n, active, g)
      /\ id \in 0 .. n - 1 /\ active[id]
  BY DEF CanLeave
<1> SUFFICES Arena(n, act, h) /\ \A o \in 0 .. n - 1 : act[o] => Cells(h, o) = Cells(g, o)
  BY DEF Left
<1> DEFINE offset == g.offset
           size == g.size
           buf == g.buf
           total == g.total
           reserved == g.reserved
           s == size[id]
           st == offset[id]
           off == h.offset
           siz == h.size
           b == h.buf
<1>h. /\ off = Shifted(offset, act, id, s) /\ siz = [size EXCEPT ![id] = 0]
      /\ b = Cut(buf, st, st + s, total) /\ h.total = total - s /\ h.reserved = reserved
      /\ st = offset[id] /\ s = size[id]
  BY DEF WithoutModel, h
<1>arena. /\ \A o \in 0 .. n - 1 : offset[o] \in Nat /\ size[o] \in Nat
          /\ \A o \in 0 .. n - 1 : active[o] => size[o] > 0 /\ offset[o] + size[o] <= total
          /\ \A o, c \in 0 .. n - 1 :
                active[o] /\ active[c] /\ o # c =>
                    offset[o] + size[o] <= offset[c] \/ offset[c] + size[c] <= offset[o]
          /\ \A i \in total .. reserved - 1 : buf[i] = Zero
          /\ DOMAIN buf = 0 .. reserved - 1
          /\ offset \in [0 .. n - 1 -> Nat] /\ size \in [0 .. n - 1 -> Nat]
  BY <1>f DEF Arena
<1>1. /\ total \in Nat /\ reserved \in Nat /\ s \in Nat /\ st \in Nat
      /\ s > 0 /\ st + s <= total /\ total <= reserved
  BY <1>f DEF Arena
<1> HIDE DEF offset, size, buf, total, reserved, s, st, off, siz, b, h
<1>2. \A o \in 0 .. n - 1 : act[o] => active[o] /\ o # id
  BY <1>f
<1>3. \A o \in 0 .. n - 1 :
         /\ siz[o] = IF o = id THEN 0 ELSE size[o]
         /\ off[o] = IF o = id THEN 0
                     ELSE IF act[o] /\ offset[o] >= st THEN offset[o] - s ELSE offset[o]
  BY <1>f, <1>h, <1>arena DEF Shifted
<1>siz. siz \in [0 .. n - 1 -> Nat]
  BY <1>f, <1>h, <1>arena
<1>off. off = [o \in 0 .. n - 1 |-> off[o]]
  BY <1>f, <1>h, <1>arena DEF Shifted
<1>b. DOMAIN b = 0 .. reserved - 1
  BY <1>f, <1>h, <1>arena DEF Cut
<1>cut. \A i \in 0 .. reserved - 1 :
            b[i] = IF i < st \/ i >= total THEN buf[i]
                   ELSE IF i < total - s THEN buf[i + s] ELSE Zero
  <2>1. (st + s) - st = s
    BY <1>1
  <2> QED
    BY <1>f, <1>h, <1>arena, <2>1 DEF Cut
<1>4. \A o \in 0 .. n - 1 : act[o] => Moved(offset[o], size[o], off[o], st, s)
  <2> SUFFICES ASSUME NEW o \in 0 .. n - 1, act[o]
               PROVE  Moved(offset[o], size[o], off[o], st, s)
    OBVIOUS
  <2>1. active[o] /\ o # id /\ size[o] \in Nat /\ offset[o] \in Nat /\ size[o] > 0
    BY <1>2, <1>arena
  <2>2. st + s <= offset[o] \/ offset[o] + size[o] <= st
    <3>1. \/ offset[id] + size[id] <= offset[o]
          \/ offset[o] + size[o] <= offset[id]
      BY <1>f, <2>1, <1>arena
    <3>2. st = offset[id] /\ s = size[id]
      BY <1>h
    <3> QED
      BY ONLY <3>1, <3>2
  <2>3. off[o] = IF offset[o] >= st THEN offset[o] - s ELSE offset[o]
    BY <1>3, <2>1
  <2> QED
    <3>1. CASE st + s <= offset[o]
      <4>1. offset[o] >= st + s /\ offset[o] >= st
        BY ONLY <2>1, <1>1, <3>1
      <4> QED
        BY ONLY <2>3, <4>1, Zenon DEF Moved
    <3>2. CASE offset[o] + size[o] <= st
      <4>1. ~(offset[o] >= st)
        BY ONLY <2>1, <1>1, <3>2
      <4> QED
        BY ONLY <2>3, <3>2, <4>1, Zenon DEF Moved
    <3> QED
      BY <2>2, <3>1, <3>2
<1>5. /\ off \in [0 .. n - 1 -> Nat]
      /\ siz \in [0 .. n - 1 -> Nat]
  <2>2. \A o \in 0 .. n - 1 : off[o] \in Nat
    <3> SUFFICES ASSUME NEW o \in 0 .. n - 1 PROVE off[o] \in Nat
      OBVIOUS
    <3>1. offset[o] \in Nat
      BY <1>arena
    <3>2. CASE act[o]
      <4>1. \/ offset[o] >= st + s /\ off[o] = offset[o] - s
            \/ offset[o] + size[o] <= st /\ off[o] = offset[o]
        BY <3>2, <1>4 DEF Moved
      <4> QED
        BY <3>1, <4>1, <1>1
    <3>3. CASE ~act[o]
      <4>1. off[o] = 0 \/ off[o] = offset[o]
        BY <3>3, <1>3
      <4> QED
        BY <3>1, <4>1
    <3> QED
      BY <3>2, <3>3
  <2> QED
    BY <1>siz, <1>off, <2>2
<1>6. \A o \in 0 .. n - 1 : act[o] => siz[o] > 0 /\ off[o] + siz[o] <= total - s
  <2> SUFFICES ASSUME NEW o \in 0 .. n - 1, act[o]
               PROVE  siz[o] > 0 /\ off[o] + siz[o] <= total - s
    OBVIOUS
  <2>1. /\ siz[o] = size[o] /\ size[o] \in Nat /\ size[o] > 0
        /\ offset[o] \in Nat /\ offset[o] + size[o] <= total
    BY <1>2, <1>3, <1>arena
  <2>2. \/ offset[o] >= st + s /\ off[o] = offset[o] - s
        \/ offset[o] + size[o] <= st /\ off[o] = offset[o]
    BY <1>4 DEF Moved
  <2>3. offset[o] + size[o] <= st => offset[o] + size[o] <= total - s
    BY <1>1, <2>1
  <2> QED
    BY <1>1, <2>1, <2>2, <2>3
<1>7. \A a, c \in 0 .. n - 1 : act[a] /\ act[c] /\ a # c =>
         off[a] + siz[a] <= off[c] \/ off[c] + siz[c] <= off[a]
  <2> SUFFICES ASSUME NEW a \in 0 .. n - 1, NEW c \in 0 .. n - 1, act[a], act[c], a # c
               PROVE  off[a] + siz[a] <= off[c] \/ off[c] + siz[c] <= off[a]
    OBVIOUS
  <2>1. /\ siz[a] = size[a] /\ size[a] \in Nat /\ offset[a] \in Nat
        /\ siz[c] = size[c] /\ size[c] \in Nat /\ offset[c] \in Nat
        /\ off[a] \in Nat /\ off[c] \in Nat
    BY <1>2, <1>3, <1>5, <1>arena
  <2>2. offset[a] + size[a] <= offset[c] \/ offset[c] + size[c] <= offset[a]
    BY <1>2, <1>arena
  <2>3. /\ Moved(offset[a], size[a], off[a], st, s)
        /\ Moved(offset[c], size[c], off[c], st, s)
    BY <1>4
  <2>4. off[a] + size[a] <= off[c] \/ off[c] + size[c] <= off[a]
    BY ONLY <1>1, <2>1, <2>2, <2>3, MovedApart
  <2> QED
    BY <2>1, <2>4
<1>9. \A i \in (total - s) .. (reserved - 1) : b[i] = Zero
  <2> SUFFICES ASSUME NEW i \in (total - s) .. (reserved - 1) PROVE b[i] = Zero
    OBVIOUS
  <2>1. i \in 0 .. reserved - 1 /\ ~(i < st) /\ ~(i < total - s)
    BY <1>1
  <2>2. CASE i >= total
    BY <1>1, <1>cut, <1>arena, <2>1, <2>2
  <2>3. CASE i < total
    BY <1>1, <1>cut, <2>1, <2>3
  <2> QED
    BY <1>1, <2>2, <2>3
<1>8. ASSUME NEW x \in Nat, NEW k \in Nat, NEW y \in Nat,
             x + k <= total, Moved(x, k, y, st, s)
      PROVE  \A i \in 0 .. k - 1 : b[y + i] = buf[x + i]
  <2> SUFFICES ASSUME NEW i \in 0 .. k - 1 PROVE b[y + i] = buf[x + i]
    OBVIOUS
  <2>1. CASE x >= st + s /\ y = x - s
    <3>1. /\ y + i \in 0 .. reserved - 1 /\ ~(y + i < st) /\ ~(y + i >= total)
          /\ y + i < total - s /\ (y + i) + s = x + i
      BY <1>1, <1>8, <2>1
    <3> QED
      BY <1>cut, <3>1
  <2>2. CASE x + k <= st /\ y = x
    <3>1. y + i \in 0 .. reserved - 1 /\ y + i < st /\ y + i = x + i
      BY <1>1, <1>8, <2>2
    <3> QED
      BY <1>cut, <3>1
  <2> QED
    BY <1>8, <2>1, <2>2 DEF Moved
<1>10. \A o \in 0 .. n - 1 :
          act[o] => Cells(h, o) = Cells(g, o)
  <2> SUFFICES ASSUME NEW o \in 0 .. n - 1, act[o]
               PROVE  Cells(h, o) = Cells(g, o)
    OBVIOUS
  <2>1. /\ siz[o] = size[o] /\ size[o] \in Nat /\ offset[o] \in Nat
        /\ offset[o] + size[o] <= total /\ off[o] \in Nat
    BY <1>2, <1>3, <1>5, <1>arena
  <2>2. Moved(offset[o], size[o], off[o], st, s)
    BY <1>4
  <2>3. \A i \in 0 .. size[o] - 1 : b[off[o] + i] = buf[offset[o] + i]
    BY <1>8, <2>1, <2>2
  <2> QED
    BY <2>1, <2>3 DEF Slice, Cells, offset, size, buf, off, siz, b
<1>11. total - s \in Nat /\ total - s <= reserved
  BY <1>1
<1> QED
  <2>1. Arena(n, act, h)
    <3>1. h.total = total - s /\ h.reserved = reserved
      BY <1>h
    <3> QED
      BY <3>1, <1>1, <1>5, <1>6, <1>7, <1>9, <1>11, <1>b DEF Arena, off, siz, b
  <2> QED
    BY <2>1, <1>10

\* The tensors are long enough after they grew.
LEMMA GrownFits ==
    ASSUME NEW reserved \in Nat, NEW total \in Nat, NEW added \in Nat
    PROVE  /\ Grown(reserved, total, added) \in Nat
           /\ Grown(reserved, total, added) >= reserved
           /\ Grown(reserved, total, added) >= total + added
BY DEF Grown

\* g can take k cells, count of them filled, under an id that is not in use.
Fits(n, active, g, slots, id, k, count) ==
    /\ n \in Nat /\ active \in [0 .. n - 1 -> BOOLEAN] /\ Arena(n, active, g)
    /\ slots \in Nat /\ n <= slots
    /\ id \in 0 .. slots - 1 /\ (id \in 0 .. n - 1 => ~active[id])
    /\ k \in Nat /\ k > 0 /\ count \in Nat /\ count <= k

\* What taking them gives: the group h with the active models act.
Taken(n, active, g, act, h, slots, id, m, k, count) ==
    /\ Arena(slots, act, h)
    /\ \A o \in 0 .. n - 1 : active[o] => Cells(h, o) = Cells(g, o)
    /\ Cells(h, id) = [i \in 0 .. k - 1 |-> IF i < count THEN <<m, i>> ELSE Zero]

\* add_model on one group: the others keep their cells, and the new model's hold
\* its own data, with zeros behind the count cells that were copied.
LEMMA ArenaWithModel ==
    ASSUME NEW n, NEW active, NEW g, NEW slots, NEW id, NEW k, NEW count, NEW m,
           Fits(n, active, g, slots, id, k, count)
    PROVE  Taken(n, active, g, Assigned(active, slots, FALSE, id, TRUE),
                 WithModel(g, slots, id, m, k, count), slots, id, m, k, count)
<1> DEFINE act == Assigned(active, slots, FALSE, id, TRUE)
           h == WithModel(g, slots, id, m, k, count)
<1>a. act = Assigned(active, slots, FALSE, id, TRUE)
  OBVIOUS
<1>f. /\ n \in Nat /\ active \in [0 .. n - 1 -> BOOLEAN] /\ Arena(n, active, g)
      /\ slots \in Nat /\ n <= slots
      /\ id \in 0 .. slots - 1 /\ (id \in 0 .. n - 1 => ~active[id])
      /\ k \in Nat /\ k > 0 /\ count \in Nat /\ count <= k
  BY DEF Fits
<1> HIDE DEF act
<1> SUFFICES /\ Arena(slots, act, h)
             /\ \A o \in 0 .. n - 1 : active[o] => Cells(h, o) = Cells(g, o)
             /\ Cells(h, id) = [i \in 0 .. k - 1 |-> IF i < count THEN <<m, i>> ELSE Zero]
  BY DEF act, Taken
<1> DEFINE offset == g.offset
           size == g.size
           buf == g.buf
           total == g.total
           reserved == g.reserved
           off == h.offset
           siz == h.size
           b == h.buf
           res == h.reserved
<1>h. /\ off = Assigned(offset, slots, 0, id, total) /\ siz = Assigned(size, slots, 0, id, k)
      /\ b = Copied(Extended(buf, res, Zero), total, m, count)
      /\ h.total = total + k /\ res = Grown(reserved, total, k)
  BY DEF WithModel, h
<1>1. /\ total \in Nat /\ reserved \in Nat /\ total <= reserved
      /\ res \in Nat /\ res >= reserved /\ res >= total + k
  <2>1. total \in Nat /\ reserved \in Nat /\ total <= reserved
    BY <1>f DEF Arena
  <2> HIDE DEF total, reserved, res
  <2> QED
    BY <1>f, <1>h, <2>1, GrownFits
<1>old. /\ \A o \in 0 .. n - 1 : offset[o] \in Nat /\ size[o] \in Nat /\ active[o] \in BOOLEAN
        /\ \A o \in 0 .. n - 1 : active[o] => size[o] > 0 /\ offset[o] + size[o] <= total
        /\ \A o, c \in 0 .. n - 1 :
              active[o] /\ active[c] /\ o # c =>
                  offset[o] + size[o] <= offset[c] \/ offset[c] + size[c] <= offset[o]
        /\ \A i \in total .. reserved - 1 : buf[i] = Zero
        /\ DOMAIN buf = 0 .. reserved - 1 /\ DOMAIN offset = 0 .. n - 1
        /\ DOMAIN size = 0 .. n - 1 /\ DOMAIN active = 0 .. n - 1
  BY <1>f DEF Arena
<1> HIDE DEF offset, size, buf, total, reserved, off, siz, b, res, h
<1>2. \A o \in 0 .. slots - 1 :
         /\ act[o] = IF o = id THEN TRUE ELSE IF o \in 0 .. n - 1 THEN active[o] ELSE FALSE
         /\ off[o] = IF o = id THEN total ELSE IF o \in 0 .. n - 1 THEN offset[o] ELSE 0
         /\ siz[o] = IF o = id THEN k ELSE IF o \in 0 .. n - 1 THEN size[o] ELSE 0
  BY <1>f, <1>a, <1>h, <1>old DEF Assigned
<1>3. \A o \in 0 .. slots - 1 : act[o] => (o = id \/ (o \in 0 .. n - 1 /\ active[o] /\ o # id))
  BY <1>f, <1>2
<1>new. off[id] = total /\ siz[id] = k
  BY <1>f, <1>2
<1>kept. \A o \in 0 .. n - 1 :
            active[o] => /\ o \in 0 .. slots - 1 /\ o # id
                         /\ off[o] = offset[o] /\ siz[o] = size[o]
  <2> SUFFICES ASSUME NEW o \in 0 .. n - 1, active[o]
               PROVE  /\ o \in 0 .. slots - 1 /\ o # id
                      /\ off[o] = offset[o] /\ siz[o] = size[o]
    OBVIOUS
  <2>1. o \in 0 .. slots - 1 /\ o # id
    BY <1>f
  <2> QED
    BY <1>f, <2>1, <1>2
<1>4. /\ off \in [0 .. slots - 1 -> Nat] /\ siz \in [0 .. slots - 1 -> Nat]
  <2>1. \A o \in 0 .. slots - 1 : off[o] \in Nat /\ siz[o] \in Nat
    <3> SUFFICES ASSUME NEW o \in 0 .. slots - 1 PROVE off[o] \in Nat /\ siz[o] \in Nat
      OBVIOUS
    <3>1. CASE o \in 0 .. n - 1 /\ o # id
      BY <1>f, <3>1, <1>2, <1>old
    <3>2. CASE o = id
      BY <1>f, <3>2, <1>1, <1>new
    <3>3. CASE o \notin 0 .. n - 1 /\ o # id
      <4>1. off[o] = 0 /\ siz[o] = 0
        BY <1>f, <3>3, <1>2
      <4> QED
        BY <1>f, <4>1
    <3> QED
      BY <1>f, <3>1, <3>2, <3>3
  <2>2. /\ off = [o \in 0 .. slots - 1 |-> off[o]]
        /\ siz = [o \in 0 .. slots - 1 |-> siz[o]]
    BY <1>f, <1>h DEF Assigned
  <2> QED
    BY <1>f, <2>1, <2>2
<1>5. /\ DOMAIN b = 0 .. res - 1
      /\ \A i \in 0 .. res - 1 :
            b[i] = IF total <= i /\ i < total + count THEN <<m, i - total>>
                   ELSE IF i \in 0 .. reserved - 1 THEN buf[i] ELSE Zero
  BY <1>f, <1>h, <1>old DEF Copied, Extended
<1>6. \A o \in 0 .. slots - 1 : act[o] => siz[o] > 0 /\ off[o] + siz[o] <= total + k
  <2> SUFFICES ASSUME NEW o \in 0 .. slots - 1, act[o]
               PROVE  siz[o] > 0 /\ off[o] + siz[o] <= total + k
    OBVIOUS
  <2>1. CASE o = id
    BY <1>f, <2>1, <1>1, <1>new
  <2>2. CASE o \in 0 .. n - 1 /\ active[o]
    <3>1. /\ siz[o] = size[o] /\ off[o] = offset[o] /\ size[o] > 0
          /\ offset[o] + size[o] <= total /\ offset[o] \in Nat /\ size[o] \in Nat
      BY <1>f, <2>2, <1>kept, <1>old
    <3> QED
      BY <1>f, <3>1, <1>1
  <2> QED
    BY <1>f, <2>1, <2>2, <1>3
<1>7. \A a, c \in 0 .. slots - 1 : act[a] /\ act[c] /\ a # c =>
         off[a] + siz[a] <= off[c] \/ off[c] + siz[c] <= off[a]
  <2> SUFFICES ASSUME NEW a \in 0 .. slots - 1, NEW c \in 0 .. slots - 1, act[a], act[c], a # c
               PROVE  off[a] + siz[a] <= off[c] \/ off[c] + siz[c] <= off[a]
    OBVIOUS
  <2>1. CASE a = id
    <3>1. c \in 0 .. n - 1 /\ active[c]
      BY <1>f, <2>1, <1>3
    <3>2. off[c] = offset[c] /\ siz[c] = size[c] /\ offset[c] + size[c] <= total
      BY <1>f, <3>1, <1>kept, <1>old
    <3> QED
      BY <1>f, <2>1, <3>2, <1>new
  <2>2. CASE c = id
    <3>1. a \in 0 .. n - 1 /\ active[a]
      BY <1>f, <2>2, <1>3
    <3>2. off[a] = offset[a] /\ siz[a] = size[a] /\ offset[a] + size[a] <= total
      BY <1>f, <3>1, <1>kept, <1>old
    <3> QED
      BY <1>f, <2>2, <3>2, <1>new
  <2>3. CASE a # id /\ c # id
    <3>1. a \in 0 .. n - 1 /\ active[a] /\ c \in 0 .. n - 1 /\ active[c]
      BY <1>f, <2>3, <1>3
    <3> QED
      BY <1>f, <3>1, <1>kept, <1>old
  <2> QED
    BY <1>f, <2>1, <2>2, <2>3
<1>9. \A i \in (total + k) .. (res - 1) : b[i] = Zero
  <2> SUFFICES ASSUME NEW i \in (total + k) .. (res - 1) PROVE b[i] = Zero
    OBVIOUS
  <2>1. i \in 0 .. res - 1 /\ ~(i < total + count)
    BY <1>f, <1>1
  <2>2. i \in 0 .. reserved - 1 => i \in total .. reserved - 1
    BY <1>f, <1>1
  <2> QED
    BY <1>f, <1>5, <1>old, <2>1, <2>2
<1>10. Arena(slots, act, h)
  <2>1. total + k \in Nat /\ res \in Nat /\ total + k <= res
    BY <1>f, <1>1
  <2> QED
    BY <1>f, <2>1, <1>h, <1>4, <1>5, <1>6, <1>7, <1>9 DEF Arena, off, siz, b, res
<1>11. ASSUME NEW x \in Nat, NEW l \in Nat, x + l <= total
       PROVE  \A i \in 0 .. l - 1 : b[x + i] = buf[x + i]
  <2> SUFFICES ASSUME NEW i \in 0 .. l - 1 PROVE b[x + i] = buf[x + i]
    OBVIOUS
  <2>1. x + i \in 0 .. res - 1 /\ x + i \in 0 .. reserved - 1 /\ ~(total <= x + i)
    BY <1>f, <1>1, <1>11
  <2> QED
    BY <1>f, <1>5, <2>1
<1>12. \A o \in 0 .. n - 1 :
          active[o] => Cells(h, o) = Cells(g, o)
  <2> SUFFICES ASSUME NEW o \in 0 .. n - 1, active[o]
               PROVE  Cells(h, o) = Cells(g, o)
    OBVIOUS
  <2>1. /\ off[o] = offset[o] /\ siz[o] = size[o] /\ offset[o] \in Nat /\ size[o] \in Nat
        /\ offset[o] + size[o] <= total
    BY <1>f, <1>kept, <1>old
  <2>2. \A i \in 0 .. size[o] - 1 : b[offset[o] + i] = buf[offset[o] + i]
    BY <1>f, <1>11, <2>1
  <2> QED
    BY <1>f, <2>1, <2>2 DEF Slice, Cells, offset, size, buf, off, siz, b
<1>13. Cells(h, id) = [i \in 0 .. k - 1 |-> IF i < count THEN <<m, i>> ELSE Zero]
  <2>1. ASSUME NEW i \in 0 .. k - 1
        PROVE  b[total + i] = IF i < count THEN <<m, i>> ELSE Zero
    <3>1. total + i \in 0 .. res - 1 /\ total <= total + i
      BY <1>f, <1>1
    <3>2. CASE i < count
      <4>1. total + i < total + count /\ (total + i) - total = i
        BY <1>f, <1>1, <3>2
      <4> QED
        BY <1>f, <1>5, <3>1, <3>2, <4>1
    <3>3. CASE ~(i < count)
      <4>1. ~(total + i < total + count)
        BY <1>f, <1>1, <3>3
      <4>2. total + i \in 0 .. reserved - 1 => total + i \in total .. reserved - 1
        BY <1>f, <1>1
      <4> QED
        BY <1>f, <1>5, <1>old, <3>1, <3>3, <4>1, <4>2
    <3> QED
      BY <1>f, <3>2, <3>3
  <2> QED
    BY <1>f, <2>1, <1>new DEF Slice, Cells, off, siz, b
<1> QED
  BY <1>f, <1>10, <1>12, <1>13

-----------------------------------------------------------------------------
(* The multi-model as a whole.  An id in use is active until it is free     *)
(* again, and the tables and both groups of tensors agree.                  *)
MMInv ==
    /\ num_models \in Nat /\ num_models_reserved \in Nat
    /\ num_models_reserved > 0 /\ num_models <= num_models_reserved
    /\ free_ids \subseteq 0 .. num_models - 1
    /\ model2active \in [0 .. num_models_reserved - 1 -> BOOLEAN]
    /\ DOMAIN model2alpha = 0 .. num_models_reserved - 1
    /\ \A id \in 0 .. num_models_reserved - 1 :
          model2active[id] <=> id < num_models /\ id \notin free_ids
    /\ Arena(num_models_reserved, model2active, States)
    /\ Arena(num_models_reserved, model2active, Arcs)
    /\ full_graph \in {NoGraph, Sizes}

\* A multi-model without models.
LEMMA MultiModelStarts == MMInit => MMInv
<1> SUFFICES ASSUME MMInit PROVE MMInv
  OBVIOUS
<1> USE MultiModelAssumption DEF MultiModelAssumption, MMInit
<1>1. ASSUME NEW n \in Positive, NEW r \in Positive
      PROVE  Arena(n, Zeros(n, FALSE), [offset |-> Zeros(n, 0), size |-> Zeros(n, 0),
                                         buf |-> Zeros(r, Zero), total |-> 0, reserved |-> r])
  BY DEF Arena, Zeros, Positive
<1>2. num_models = 0 /\ num_models_reserved \in Nat /\ num_models_reserved > 0
  BY DEF Positive
<1>3. /\ model2active = Zeros(num_models_reserved, FALSE)
      /\ model2active \in [0 .. num_models_reserved - 1 -> BOOLEAN]
      /\ DOMAIN model2alpha = 0 .. num_models_reserved - 1
      /\ \A id \in 0 .. num_models_reserved - 1 : ~model2active[id] /\ ~(id < num_models)
  BY <1>2 DEF Zeros
<1>4. /\ Arena(num_models_reserved, model2active, States)
      /\ Arena(num_models_reserved, model2active, Arcs)
  BY <1>1 DEF States, Arcs
<1>5. free_ids = {} /\ full_graph = NoGraph /\ num_models = 0
  OBVIOUS
<1>6. num_models <= num_models_reserved /\ num_models \in Nat
  BY <1>2
<1> HIDE DEF MMInit
<1> QED
  BY <1>2, <1>3, <1>4, <1>5, <1>6 DEF MMInv

\* add_model gives an id that was not in use, under which the new model can be
\* read as it is, and leaves every other model as it was.
LEMMA AddKeeps ==
    ASSUME MMInv, NEW m \in Models, NEW id \in NextIds, AddModel(m, id)
    PROVE  /\ MMInv'
           /\ id \in 0 .. num_models' - 1 /\ num_models <= num_models'
           /\ id \in 0 .. num_models_reserved - 1 => ~model2active[id]
           /\ id \in free_ids \/ (free_ids = {} /\ id = num_models)
           /\ num_models' = IF id = num_models THEN num_models + 1 ELSE num_models
           /\ free_ids' = free_ids \ {id}
           /\ model2active'[id] /\ StoredAt(id)' = DataOf(m)
           /\ \A o \in 0 .. num_models_reserved - 1 :
                 /\ o # id => (model2active[o] <=> model2active'[o])
                 /\ model2active[o] => StoredAt(o)' = StoredAt(o)
<1> DEFINE n == num_models_reserved
           slots == ModelsGrown(id)
<1>1. /\ states_of[m] \in Nat /\ states_of[m] > 0 /\ states_of[m] <= states_of[m]
      /\ extended_arcs_of[m] \in Nat /\ extended_arcs_of[m] > 0
      /\ arcs_of[m] \in Nat /\ arcs_of[m] <= extended_arcs_of[m]
  BY MultiModelAssumption DEF MultiModelAssumption, Positive
<1>2. /\ n \in Nat /\ num_models \in Nat /\ n > 0 /\ num_models <= n
      /\ free_ids \subseteq 0 .. num_models - 1
      /\ model2active \in [0 .. n - 1 -> BOOLEAN]
      /\ DOMAIN model2alpha = 0 .. n - 1
      /\ \A o \in 0 .. n - 1 : model2active[o] <=> o < num_models /\ o \notin free_ids
  BY DEF MMInv
<1>3. id \in free_ids \/ (free_ids = {} /\ id = num_models)
  BY DEF NextIds
<1>4. id \in Nat /\ id <= num_models /\ (id \in 0 .. n - 1 => ~model2active[id])
  <2>1. CASE id \in free_ids
    BY <1>2, <2>1
  <2>2. CASE id = num_models
    <3>1. ~(id < num_models)
      BY <1>2, <2>2
    <3> QED
      BY <1>2, <2>2, <3>1
  <2> QED
    BY <1>3, <2>1, <2>2
<1>5. slots \in Nat /\ n <= slots /\ id \in 0 .. slots - 1
  BY <1>2, <1>4 DEF ModelsGrown
<1>6. /\ num_models_reserved' = slots
      /\ num_states_reserved' = Grown(num_states_reserved, num_states_total, states_of[m])
      /\ num_arcs_extended_reserved' =
            Grown(num_arcs_extended_reserved, num_arcs_extended_total, extended_arcs_of[m])
      /\ free_ids' = free_ids \ {id}
      /\ num_models' = IF id = num_models THEN num_models + 1 ELSE num_models
      /\ model2active' = Assigned(model2active, slots, FALSE, id, TRUE)
      /\ model2alpha' = Assigned(model2alpha, slots, 0, id, alpha_of[m])
  BY DEF AddModel
<1>7. Arena(n, model2active, States) /\ Arena(n, model2active, Arcs)
  BY DEF MMInv
<1>8. /\ States' = WithModel(States, slots, id, m, states_of[m], states_of[m])
      /\ Arcs' = WithModel(Arcs, slots, id, m, extended_arcs_of[m], arcs_of[m])
  BY DEF AddModel, WithModel, States, Arcs
<1> HIDE DEF n, slots
<1>9. /\ Arena(slots, model2active', States')
      /\ \A o \in 0 .. n - 1 : model2active[o] => Cells(States', o) = Cells(States, o)
      /\ Cells(States', id)
            = [i \in 0 .. states_of[m] - 1 |-> IF i < states_of[m] THEN <<m, i>> ELSE Zero]
  <2>1. Fits(n, model2active, States, slots, id, states_of[m], states_of[m])
    BY <1>1, <1>2, <1>4, <1>5, <1>7 DEF Fits
  <2>2. Taken(n, model2active, States, Assigned(model2active, slots, FALSE, id, TRUE),
              WithModel(States, slots, id, m, states_of[m], states_of[m]), slots, id, m, states_of[m], states_of[m])
    BY ONLY <2>1, ArenaWithModel, Zenon
  <2> QED
    BY <2>2, <1>6, <1>8 DEF Taken
<1>10. /\ Arena(slots, model2active', Arcs')
       /\ \A o \in 0 .. n - 1 : model2active[o] => Cells(Arcs', o) = Cells(Arcs, o)
       /\ Cells(Arcs', id) = [i \in 0 .. extended_arcs_of[m] - 1 |->
                                 IF i < arcs_of[m] THEN <<m, i>> ELSE Zero]
  <2>1. Fits(n, model2active, Arcs, slots, id, extended_arcs_of[m], arcs_of[m])
    BY <1>1, <1>2, <1>4, <1>5, <1>7 DEF Fits
  <2>2. Taken(n, model2active, Arcs, Assigned(model2active, slots, FALSE, id, TRUE),
              WithModel(Arcs, slots, id, m, extended_arcs_of[m], arcs_of[m]), slots, id, m, extended_arcs_of[m], arcs_of[m])
    BY ONLY <2>1, ArenaWithModel, Zenon
  <2> QED
    BY <2>2, <1>6, <1>8 DEF Taken
<1>11. /\ model2active'[id]
       /\ \A o \in 0 .. slots - 1 : o # id =>
             model2active'[o] = IF o \in 0 .. n - 1 THEN model2active[o] ELSE FALSE
       /\ model2active' \in [0 .. slots - 1 -> BOOLEAN]
       /\ DOMAIN model2alpha' = 0 .. slots - 1
       /\ model2alpha'[id] = alpha_of[m]
       /\ \A o \in 0 .. n - 1 : o # id => model2alpha'[o] = model2alpha[o]
  <2>1. /\ model2active' = [i \in 0 .. slots - 1 |->
              IF i = id THEN TRUE ELSE IF i \in 0 .. n - 1 THEN model2active[i] ELSE FALSE]
        /\ model2alpha' = [i \in 0 .. slots - 1 |->
              IF i = id THEN alpha_of[m] ELSE IF i \in 0 .. n - 1 THEN model2alpha[i] ELSE 0]
    BY <1>2, <1>6 DEF Assigned
  <2>2. \A o \in 0 .. n - 1 : o \in 0 .. slots - 1
    BY <1>2, <1>5
  <2>3. model2active' \in [0 .. slots - 1 -> BOOLEAN]
    BY <1>2, <2>1
  <2> QED
    BY <1>5, <2>1, <2>2, <2>3
<1>12. /\ MMInv'
       /\ id \in 0 .. num_models' - 1 /\ num_models <= num_models'
  <2>1. /\ num_models' \in Nat /\ slots \in Nat /\ slots > 0 /\ num_models' <= slots
        /\ id \in 0 .. num_models' - 1 /\ num_models <= num_models'
    <3>1. id < slots /\ num_models <= slots
      BY <1>2, <1>4, <1>5
    <3> QED
      BY <1>2, <1>4, <1>5, <1>6, <3>1
  <2>2. free_ids' \subseteq 0 .. num_models' - 1
    BY <1>2, <1>6, <2>1
  <2>3. \A o \in 0 .. slots - 1 : model2active'[o] <=> o < num_models' /\ o \notin free_ids'
    <3> SUFFICES ASSUME NEW o \in 0 .. slots - 1
                 PROVE  model2active'[o] <=> o < num_models' /\ o \notin free_ids'
      OBVIOUS
    <3>1. CASE o = id
      <4>1. model2active'[o] /\ o < num_models' /\ o \notin free_ids'
        <5>1. id < num_models' /\ id \notin free_ids'
          BY <1>6, <2>1
        <5> QED
          BY <1>11, <3>1, <5>1
      <4> QED
        BY <4>1
    <3>2. CASE o # id
      <4>1. o < num_models' <=> o < num_models
        BY <1>2, <1>4, <1>5, <1>6, <3>2
      <4>2. o \notin free_ids' <=> o \notin free_ids
        BY <1>6, <3>2
      <4>3. CASE o \in 0 .. n - 1
        BY <1>2, <1>11, <3>2, <4>1, <4>2, <4>3
      <4>4. CASE o \notin 0 .. n - 1
        <5>1. ~(o < num_models)
          BY <1>2, <1>5, <4>4
        <5> QED
          BY <1>11, <3>2, <4>1, <4>4, <5>1
      <4> QED
        BY <4>3, <4>4
    <3> QED
      BY <3>1, <3>2
  <2>4. full_graph' \in {NoGraph, Sizes'}
    <3>1. full_graph' = IF Sizes' = Sizes THEN full_graph ELSE NoGraph
      BY <1>6 DEF AddModel, Reallocated, Sizes, slots
    <3>2. full_graph \in {NoGraph, Sizes}
      BY DEF MMInv
    <3> QED
      BY <3>1, <3>2
  <2> QED
    BY ONLY <1>6, <1>9, <1>10, <1>11, <2>1, <2>2, <2>3, <2>4 DEF MMInv
<1>13. StoredAt(id)' = DataOf(m)
  <2>1. Cells(States', id) = [i \in 0 .. states_of[m] - 1 |-> <<m, i>>]
    BY <1>1, <1>9
  <2> QED
    BY <2>1, <1>10, <1>11 DEF StoredAt, DataOf, Cells, States, Arcs
<1>14. \A o \in 0 .. n - 1 : /\ o # id => (model2active[o] <=> model2active'[o])
                             /\ model2active[o] => StoredAt(o)' = StoredAt(o)
  <2> SUFFICES ASSUME NEW o \in 0 .. n - 1
               PROVE  /\ o # id => (model2active[o] <=> model2active'[o])
                      /\ model2active[o] => StoredAt(o)' = StoredAt(o)
    OBVIOUS
  <2>1. o \in 0 .. slots - 1 /\ (model2active[o] => o # id)
    BY <1>2, <1>4, <1>5
  <2>2. o # id => (model2active[o] <=> model2active'[o])
    BY <1>11, <2>1
  <2>3. ASSUME model2active[o] PROVE StoredAt(o)' = StoredAt(o)
    <3>1. /\ Cells(States', o) = Cells(States, o) /\ Cells(Arcs', o) = Cells(Arcs, o)
          /\ model2alpha'[o] = model2alpha[o]
      BY <1>9, <1>10, <1>11, <2>1, <2>3
    <3> QED
      BY <3>1 DEF StoredAt, Cells, States, Arcs
  <2> QED
    BY <2>2, <2>3
<1> QED
  BY <1>3, <1>4, <1>6, <1>11, <1>12, <1>13, <1>14 DEF n

\* remove_model takes one model away, the one under id, and leaves every other as
\* it was, though their cells may have moved.
LEMMA RemoveKeeps ==
    ASSUME MMInv, NEW id \in Nat, RemoveModel(id)
    PROVE  /\ MMInv'
           /\ id \in 0 .. num_models - 1 /\ id \in 0 .. num_models_reserved - 1
           /\ id \notin free_ids /\ ~model2active'[id]
           /\ num_models' = num_models /\ free_ids' = free_ids \cup {id}
           /\ num_models_reserved' = num_models_reserved
           /\ \A o \in 0 .. num_models_reserved - 1 : o # id =>
                 /\ model2active[o] <=> model2active'[o]
                 /\ model2active[o] => StoredAt(o)' = StoredAt(o)
<1> DEFINE n == num_models_reserved
<1>1. /\ n \in Nat /\ num_models \in Nat /\ n > 0 /\ num_models <= n
      /\ free_ids \subseteq 0 .. num_models - 1
      /\ model2active \in [0 .. n - 1 -> BOOLEAN]
      /\ DOMAIN model2alpha = 0 .. n - 1
      /\ \A o \in 0 .. n - 1 : model2active[o] <=> o < num_models /\ o \notin free_ids
      /\ Arena(n, model2active, States) /\ Arena(n, model2active, Arcs)
      /\ full_graph \in {NoGraph, Sizes}
  BY DEF MMInv
<1>2. /\ num_models' = num_models /\ num_models_reserved' = n /\ free_ids' = free_ids \cup {id}
      /\ model2active' = [model2active EXCEPT ![id] = FALSE]
      /\ model2alpha' = [model2alpha EXCEPT ![id] = 0]
      /\ full_graph' = full_graph /\ Sizes' = Sizes
      /\ id \notin free_ids /\ ~(id >= num_models)
  BY DEF RemoveModel, RemoveModelRaises, Sizes
<1>3. id \in 0 .. num_models - 1 /\ id \in 0 .. n - 1 /\ model2active[id]
  BY <1>1, <1>2
<1>4. /\ States' = WithoutModel(States, model2active', id)
      /\ Arcs' = WithoutModel(Arcs, model2active', id)
  BY DEF RemoveModel, WithoutModel, States, Arcs
<1> HIDE DEF n
<1>5. /\ Arena(n, model2active', States')
      /\ \A o \in 0 .. n - 1 : model2active'[o] => Cells(States', o) = Cells(States, o)
  <2>1. CanLeave(n, model2active, States, id)
    BY <1>1, <1>3 DEF CanLeave
  <2>2. Left(n, model2active', States, WithoutModel(States, model2active', id))
    BY ONLY <1>2, <2>1, ArenaWithoutModel, Zenon
  <2> QED
    BY <1>4, <2>2 DEF Left
<1>6. /\ Arena(n, model2active', Arcs')
      /\ \A o \in 0 .. n - 1 : model2active'[o] => Cells(Arcs', o) = Cells(Arcs, o)
  <2>1. CanLeave(n, model2active, Arcs, id)
    BY <1>1, <1>3 DEF CanLeave
  <2>2. Left(n, model2active', Arcs, WithoutModel(Arcs, model2active', id))
    BY ONLY <1>2, <2>1, ArenaWithoutModel, Zenon
  <2> QED
    BY <1>4, <2>2 DEF Left
<1>7. /\ model2active' \in [0 .. n - 1 -> BOOLEAN] /\ ~model2active'[id]
      /\ \A o \in 0 .. n - 1 : o # id => model2active'[o] = model2active[o]
      /\ DOMAIN model2alpha' = 0 .. n - 1
      /\ \A o \in 0 .. n - 1 : o # id => model2alpha'[o] = model2alpha[o]
  BY <1>1, <1>2, <1>3
<1>8. MMInv'
  <2>1. \A o \in 0 .. n - 1 : model2active'[o] <=> o < num_models /\ o \notin free_ids'
    BY <1>1, <1>2, <1>7
  <2>2. free_ids' \subseteq 0 .. num_models - 1
    BY <1>1, <1>2, <1>3
  <2> QED
    BY ONLY <1>1, <1>2, <1>5, <1>6, <1>7, <2>1, <2>2 DEF MMInv
<1>9. \A o \in 0 .. n - 1 : o # id =>
         /\ model2active[o] <=> model2active'[o]
         /\ model2active[o] => StoredAt(o)' = StoredAt(o)
  <2> SUFFICES ASSUME NEW o \in 0 .. n - 1, o # id
               PROVE  /\ model2active[o] <=> model2active'[o]
                      /\ model2active[o] => StoredAt(o)' = StoredAt(o)
    OBVIOUS
  <2>1. model2active'[o] = model2active[o] /\ model2alpha'[o] = model2alpha[o]
    BY <1>7
  <2>2. ASSUME model2active[o] PROVE StoredAt(o)' = StoredAt(o)
    <3>1. Cells(States', o) = Cells(States, o) /\ Cells(Arcs', o) = Cells(Arcs, o)
      BY <1>5, <1>6, <2>1, <2>2
    <3> QED
      BY <2>1, <3>1 DEF StoredAt, Cells, States, Arcs
  <2> QED
    BY <2>1, <2>2
<1> QED
  BY <1>2, <1>3, <1>7, <1>8, <1>9 DEF n

-----------------------------------------------------------------------------
(* Each of the two is a step of the reference implementation.               *)
LEMMA ListOfModels ==
    ASSUME MMInv
    PROVE  /\ DOMAIN ModelList = 0 .. num_models - 1
           /\ \A o \in 0 .. num_models - 1 :
                 o \in 0 .. num_models_reserved - 1
                 /\ ModelList[o] = IF model2active[o] THEN StoredAt(o) ELSE Removed
<1>1. num_models \in Nat /\ num_models_reserved \in Nat /\ num_models <= num_models_reserved
  BY DEF MMInv
<1>2. DOMAIN ModelList = 0 .. num_models - 1
  BY DEF ModelList
<1>4. \A o \in 0 .. num_models - 1 :
         o \in 0 .. num_models_reserved - 1
         /\ ModelList[o] = IF model2active[o] THEN StoredAt(o) ELSE Removed
  BY <1>1 DEF ModelList
<1> QED
  BY <1>2, <1>4

\* Adding a model is what the reference does.
LEMMA AddIsReferenceAdd ==
    ASSUME MMInv, NEW m \in Models, NEW id \in NextIds, AddModel(m, id)
    PROVE  Ref!AddModel
<1> DEFINE data == DataOf(m)
<1>1. /\ MMInv'
      /\ id \in 0 .. num_models' - 1 /\ num_models <= num_models'
      /\ id \in free_ids \/ (free_ids = {} /\ id = num_models)
      /\ num_models' = IF id = num_models THEN num_models + 1 ELSE num_models
      /\ free_ids' = free_ids \ {id}
      /\ model2active'[id] /\ StoredAt(id)' = data
      /\ \A o \in 0 .. num_models_reserved - 1 :
            /\ o # id => (model2active[o] <=> model2active'[o])
            /\ model2active[o] => StoredAt(o)' = StoredAt(o)
      /\ id \in 0 .. num_models_reserved - 1 => ~model2active[id]
  BY AddKeeps
<1>2. num_models \in Nat /\ free_ids \subseteq 0 .. num_models - 1
  BY DEF MMInv
<1> HIDE DEF data
<1>3. /\ DOMAIN ModelList = 0 .. num_models - 1
      /\ \A o \in 0 .. num_models - 1 :
            o \in 0 .. num_models_reserved - 1
            /\ ModelList[o] = IF model2active[o] THEN StoredAt(o) ELSE Removed
  BY ListOfModels
<1>4. ModelList' = [o \in 0 .. num_models' - 1 |->
                       IF model2active'[o] THEN StoredAt(o)' ELSE Removed]
  BY DEF ModelList, Removed
<1>5. \A o \in 0 .. num_models - 1 : o # id =>
         (IF model2active'[o] THEN StoredAt(o)' ELSE Removed) = ModelList[o]
  BY <1>1, <1>3
<1>6. CASE id \in free_ids
  <2>1. num_models' = num_models /\ id \in 0 .. num_models - 1
    BY <1>1, <1>2, <1>6
  <2>2. ModelList' = [ModelList EXCEPT ![id] = data]
    <3>1. [ModelList EXCEPT ![id] = data]
            = [o \in 0 .. num_models - 1 |-> IF o = id THEN data ELSE ModelList[o]]
      BY <1>3, <2>1
    <3>2. \A o \in 0 .. num_models - 1 :
             (IF model2active'[o] THEN StoredAt(o)' ELSE Removed)
               = IF o = id THEN data ELSE ModelList[o]
      BY <1>1, <1>5
    <3> QED
      BY <1>4, <2>1, <3>1, <3>2
  <2> QED
    BY <1>1, <1>6, <2>2 DEF Ref!AddModel, Ref!AddUnderFreeId, data
<1>7. CASE free_ids = {} /\ id = num_models
  <2>1. /\ num_models' = num_models + 1 /\ free_ids' = free_ids
        /\ num_models' - 1 = num_models
    BY <1>1, <1>2, <1>7
  <2>2. ModelList' = [o \in 0 .. id |-> IF o = id THEN data ELSE ModelList[o]]
    <3>1. \A o \in 0 .. id :
             (IF model2active'[o] THEN StoredAt(o)' ELSE Removed)
               = IF o = id THEN data ELSE ModelList[o]
      <4> SUFFICES ASSUME NEW o \in 0 .. id
                   PROVE  (IF model2active'[o] THEN StoredAt(o)' ELSE Removed)
                            = IF o = id THEN data ELSE ModelList[o]
        OBVIOUS
      <4>1. o = id \/ (o # id /\ o \in 0 .. num_models - 1)
        BY <1>2, <1>7
      <4> QED
        BY <1>1, <1>5, <4>1
    <3> QED
      BY <1>4, <1>7, <2>1, <3>1
  <2>3. id \in {0} \cup {i + 1 : i \in DOMAIN ModelList} /\ id \notin DOMAIN ModelList
    <3>1. CASE num_models = 0
      BY <1>3, <1>7, <3>1
    <3>2. CASE num_models > 0
      <4>1. num_models - 1 \in DOMAIN ModelList /\ id = (num_models - 1) + 1
        BY <1>2, <1>3, <1>7, <3>2
      <4>2. id \notin DOMAIN ModelList
        BY <1>2, <1>3, <1>7
      <4> QED
        BY <4>1, <4>2
    <3> QED
      BY <1>2, <3>1, <3>2
  <2> QED
    BY <1>7, <2>1, <2>2, <2>3 DEF Ref!AddModel, Ref!AddUnderNewId, data
<1> QED
  BY <1>1, <1>6, <1>7

\* Removing one is, too.
LEMMA RemoveIsReferenceRemove ==
    ASSUME MMInv, NEW id \in Nat, RemoveModel(id)
    PROVE  Ref!RemoveModel
<1>1. /\ MMInv'
      /\ id \in 0 .. num_models - 1
      /\ id \notin free_ids /\ ~model2active'[id]
      /\ num_models' = num_models /\ free_ids' = free_ids \cup {id}
      /\ \A o \in 0 .. num_models_reserved - 1 : o # id =>
            /\ model2active[o] <=> model2active'[o]
            /\ model2active[o] => StoredAt(o)' = StoredAt(o)
  BY RemoveKeeps
<1>2. /\ DOMAIN ModelList = 0 .. num_models - 1
      /\ \A o \in 0 .. num_models - 1 :
            o \in 0 .. num_models_reserved - 1
            /\ ModelList[o] = IF model2active[o] THEN StoredAt(o) ELSE Removed
  BY ListOfModels
<1>3. ModelList' = [o \in 0 .. num_models' - 1 |->
                       IF model2active'[o] THEN StoredAt(o)' ELSE Removed]
  BY DEF ModelList, Removed
<1>4. ModelList' = [ModelList EXCEPT ![id] = Removed]
  <2>1. \A o \in 0 .. num_models - 1 :
           (IF model2active'[o] THEN StoredAt(o)' ELSE Removed)
             = IF o = id THEN Removed ELSE ModelList[o]
    BY <1>1, <1>2
  <2>2. [ModelList EXCEPT ![id] = Removed]
          = [o \in 0 .. num_models - 1 |-> IF o = id THEN Removed ELSE ModelList[o]]
    BY <1>2
  <2> QED
    BY <1>1, <1>3, <2>1, <2>2
<1> QED
  BY <1>1, <1>2, <1>4 DEF Ref!RemoveModel

\* Nothing an outsider sees changes when the tensors do not.
LEMMA NothingMoves ==
    ASSUME MMInv, \/ UNCHANGED mmVars
                  \/ Capture
    PROVE  /\ MMInv' /\ UNCHANGED <<ModelList, free_ids>>
           /\ num_models' = num_models /\ model2active' = model2active
           /\ \A o : StoredAt(o)' = StoredAt(o)
<1>1. UNCHANGED <<num_models, free_ids, model2active, model2alpha, model2num_states,
                  model2states_offset, model2num_arcs_extended, model2arcs_offset,
                  num_states_total, all_states, num_arcs_extended_total, all_arcs,
                  num_models_reserved, num_states_reserved, num_arcs_extended_reserved>>
  BY DEF mmVars, Capture
<1>2. full_graph' \in {NoGraph, Sizes}
  BY DEF mmVars, Capture, MMInv
<1>3. Sizes' = Sizes /\ States' = States /\ Arcs' = Arcs
  BY <1>1 DEF Sizes, States, Arcs
<1>4. \A o : StoredAt(o)' = StoredAt(o)
  BY <1>1 DEF StoredAt, Slice
<1>5. MMInv'
  BY <1>1, <1>2, <1>3 DEF MMInv
<1>6. ModelList' = ModelList
  BY <1>1, <1>4 DEF ModelList, Removed
<1> QED
  BY <1>1, <1>4, <1>5, <1>6

-----------------------------------------------------------------------------
(* The streams.  Every id a config holds was given by the decoder, and a    *)
(* config that holds one holds that of its own model, which no other config *)
(* holds, unless a close_session left ids behind; what has been prepared    *)
(* of a group stays prepared.                                               *)
ClientInv ==
    /\ multi_model_id \in [Configs -> {NoId} \cup 0 .. num_models - 1]
    /\ \A sid \in DOMAIN biasing_cfg : biasing_cfg[sid] \in Configs
    /\ group \in Seq(DOMAIN biasing_cfg) /\ remaining \in Seq(DOMAIN biasing_cfg)
    /\ phase \in {"idle", "prepare", "decode", "release", "close"}
    /\ phase \in {"idle", "close"} => group = <<>> /\ remaining = <<>>
    /\ phase = "decode" => remaining = <<>>

OwnInv ==
    ~stale_ids /\ phase # "close" =>
        /\ \A c \in Configs : multi_model_id[c] # NoId => Own(c)
        /\ \A c, d \in Configs :
              multi_model_id[c] # NoId /\ c # d => multi_model_id[c] # multi_model_id[d]

PreparedInv ==
    phase \in {"prepare", "decode"} =>
        \A sid \in StreamsOf(group) :
            \/ sid \in StreamsOf(remaining)
            \/ biasing_cfg[sid] \notin auto_managed
            \/ multi_model_id[biasing_cfg[sid]] # NoId

IndInv == MMInv /\ ClientInv /\ OwnInv /\ PreparedInv

\* The pipeline before its first batch.
LEMMA InitHolds == BiasingInit => IndInv
<1> SUFFICES ASSUME BiasingInit PROVE IndInv
  OBVIOUS
<1>1. MMInv
  BY MultiModelStarts DEF BiasingInit
<1>2. ClientInv
  BY DEF BiasingInit, ClientInv, NoStreams, NoId
<1>3. OwnInv
  BY DEF BiasingInit, OwnInv
<1>4. PreparedInv
  BY DEF BiasingInit, PreparedInv
<1> QED
  BY <1>1, <1>2, <1>3, <1>4 DEF IndInv

\* The stream whose turn it is, and those that are left then.
LEMMA Turn ==
    ASSUME ClientInv, remaining # <<>>
    PROVE  /\ Head(remaining) \in DOMAIN biasing_cfg /\ Config \in Configs
           /\ Tail(remaining) \in Seq(DOMAIN biasing_cfg)
           /\ StreamsOf(remaining) \subseteq {Head(remaining)} \cup StreamsOf(Tail(remaining))
<1>1. remaining \in Seq(DOMAIN biasing_cfg)
  BY DEF ClientInv
<1>2. Head(remaining) \in DOMAIN biasing_cfg /\ Tail(remaining) \in Seq(DOMAIN biasing_cfg)
  BY <1>1
<1>3. Config \in Configs
  BY <1>2 DEF ClientInv, Config
<1>4. ASSUME NEW i \in DOMAIN remaining
      PROVE  remaining[i] = Head(remaining) \/ \E j \in DOMAIN Tail(remaining) : Tail(remaining)[j] = remaining[i]
  <2>1. CASE i = 1
    BY <1>1, <2>1
  <2>2. CASE i # 1
    <3>1. i - 1 \in DOMAIN Tail(remaining) /\ Tail(remaining)[i - 1] = remaining[i]
      BY <1>1, <2>2
    <3> QED
      BY <3>1
  <2> QED
    BY <2>1, <2>2
<1> QED
  BY <1>2, <1>3, <1>4 DEF StreamsOf

\* Steps that leave the configs alone, or clear ids, and no tensors.
LEMMA OwnStays ==
    ASSUME MMInv, ClientInv, OwnInv,
           UNCHANGED mmVars \/ Capture,
           stale_ids' = stale_ids, phase # "close",
           \A c \in Configs : multi_model_id'[c] \in {NoId, multi_model_id[c]}
    PROVE  OwnInv'
<1>1. model2active' = model2active /\ \A o : StoredAt(o)' = StoredAt(o)
  BY NothingMoves
<1>2. \A c \in Configs : multi_model_id'[c] # NoId => (Own(c) => Own(c)')
  BY <1>1 DEF Own
<1> QED
  BY <1>2 DEF OwnInv

\* More models, more ids.
LEMMA MoreIds ==
    ASSUME NEW a \in Nat, NEW b \in Nat, a <= b
    PROVE  0 .. a - 1 \subseteq 0 .. b - 1
OBVIOUS

\* A model more, under the id of a config that held none, or of none that counts.
LEMMA OwnAdded ==
    ASSUME MMInv, ClientInv, OwnInv, phase # "close", stale_ids' = stale_ids,
           NEW c \in Configs, NEW id \in NextIds, AddModel(model_of[c], id),
           multi_model_id' = [multi_model_id EXCEPT ![c] = id]
    PROVE  /\ MMInv' /\ OwnInv'
           /\ multi_model_id' \in [Configs -> {NoId} \cup 0 .. num_models' - 1]
           /\ multi_model_id'[c] # NoId
<1>1. model_of[c] \in Models
  BY BiasedStreamsAssumption DEF BiasedStreamsAssumption
<1>2. /\ MMInv'
      /\ id \in 0 .. num_models' - 1 /\ num_models <= num_models'
      /\ id \in 0 .. num_models_reserved - 1 => ~model2active[id]
      /\ model2active'[id] /\ StoredAt(id)' = DataOf(model_of[c])
      /\ \A o \in 0 .. num_models_reserved - 1 :
            /\ o # id => (model2active[o] <=> model2active'[o])
            /\ model2active[o] => StoredAt(o)' = StoredAt(o)
  BY <1>1, AddKeeps
<1>3. /\ num_models \in Nat /\ num_models' \in Nat /\ num_models <= num_models_reserved
      /\ num_models_reserved \in Nat
  BY <1>2 DEF MMInv
<1>4. multi_model_id \in [Configs -> {NoId} \cup 0 .. num_models - 1]
  BY DEF ClientInv
<1>5. /\ multi_model_id' \in [Configs -> {NoId} \cup 0 .. num_models' - 1]
      /\ multi_model_id'[c] = id /\ id # NoId
      /\ \A d \in Configs : d # c => multi_model_id'[d] = multi_model_id[d]
  <2>1. id # NoId
    BY <1>2, <1>3 DEF NoId
  <2>2. 0 .. num_models - 1 \subseteq 0 .. num_models' - 1
    BY <1>2, <1>3, MoreIds
  <2> QED
    BY <1>2, <1>4, <2>1, <2>2
<1>6. ASSUME ~stale_ids' /\ phase' # "close"
      PROVE  /\ \A d \in Configs : multi_model_id'[d] # NoId => Own(d)'
             /\ \A d, e \in Configs :
                   multi_model_id'[d] # NoId /\ d # e => multi_model_id'[d] # multi_model_id'[e]
  <2>1. /\ \A d \in Configs : multi_model_id[d] # NoId => Own(d)
        /\ \A d, e \in Configs :
              multi_model_id[d] # NoId /\ d # e => multi_model_id[d] # multi_model_id[e]
    BY <1>6 DEF OwnInv
  <2>2. ASSUME NEW d \in Configs, d # c, multi_model_id[d] # NoId
        PROVE  multi_model_id[d] # id /\ Own(d)'
    <3>1. multi_model_id[d] \in 0 .. num_models_reserved - 1
      BY <1>3, <1>4, <2>2
    <3>2. /\ model2active[multi_model_id[d]]
          /\ StoredAt(multi_model_id[d]) = DataOf(model_of[d])
      BY <2>1, <2>2 DEF Own
    <3>3. multi_model_id[d] # id
      BY <1>2, <3>1, <3>2
    <3>4. /\ model2active'[multi_model_id[d]]
          /\ StoredAt(multi_model_id[d])' = DataOf(model_of[d])
      BY <1>2, <3>1, <3>2, <3>3
    <3>5. multi_model_id'[d] = multi_model_id[d]
      BY <1>5, <2>2
    <3> QED
      BY <3>3, <3>4, <3>5 DEF Own
  <2>3. Own(c)'
    BY <1>2, <1>5 DEF Own
  <2> QED
    BY <1>5, <2>1, <2>2, <2>3
<1> QED
  BY <1>2, <1>5, <1>6 DEF OwnInv

\* A model less, and the config whose it was holds no id any more.
LEMMA OwnRemoved ==
    ASSUME MMInv, ClientInv, OwnInv, phase # "close", stale_ids' = stale_ids,
           NEW c \in Configs, multi_model_id[c] # NoId, RemoveModel(multi_model_id[c]),
           multi_model_id' = [multi_model_id EXCEPT ![c] = NoId]
    PROVE  /\ MMInv' /\ OwnInv'
           /\ multi_model_id' \in [Configs -> {NoId} \cup 0 .. num_models' - 1]
<1> DEFINE id == multi_model_id[c]
<1>1. multi_model_id \in [Configs -> {NoId} \cup 0 .. num_models - 1]
  BY DEF ClientInv
<1>2. num_models \in Nat /\ num_models <= num_models_reserved /\ num_models_reserved \in Nat
  BY DEF MMInv
<1>3. id \in Nat
  BY <1>1, <1>2
<1>4. /\ MMInv' /\ num_models' = num_models
      /\ \A o \in 0 .. num_models_reserved - 1 : o # id =>
            /\ model2active[o] <=> model2active'[o]
            /\ model2active[o] => StoredAt(o)' = StoredAt(o)
  BY <1>3, RemoveKeeps
<1>5. /\ multi_model_id' \in [Configs -> {NoId} \cup 0 .. num_models' - 1]
      /\ multi_model_id'[c] = NoId
      /\ \A d \in Configs : d # c => multi_model_id'[d] = multi_model_id[d]
  BY <1>1, <1>4
<1>6. ASSUME ~stale_ids' /\ phase' # "close"
      PROVE  /\ \A d \in Configs : multi_model_id'[d] # NoId => Own(d)'
             /\ \A d, e \in Configs :
                   multi_model_id'[d] # NoId /\ d # e => multi_model_id'[d] # multi_model_id'[e]
  <2>1. /\ \A d \in Configs : multi_model_id[d] # NoId => Own(d)
        /\ \A d, e \in Configs :
              multi_model_id[d] # NoId /\ d # e => multi_model_id[d] # multi_model_id[e]
    BY <1>6 DEF OwnInv
  <2>2. ASSUME NEW d \in Configs, d # c, multi_model_id[d] # NoId
        PROVE  Own(d)'
    <3>1. multi_model_id[d] \in 0 .. num_models_reserved - 1 /\ multi_model_id[d] # id
      BY <1>1, <1>2, <2>1, <2>2
    <3>2. /\ model2active[multi_model_id[d]]
          /\ StoredAt(multi_model_id[d]) = DataOf(model_of[d])
      BY <2>1, <2>2 DEF Own
    <3>3. /\ model2active'[multi_model_id[d]]
          /\ StoredAt(multi_model_id[d])' = DataOf(model_of[d])
      BY <1>4, <3>1, <3>2
    <3>4. multi_model_id'[d] = multi_model_id[d]
      BY <1>5, <2>2
    <3> QED
      BY <3>3, <3>4 DEF Own
  <2> QED
    BY <1>5, <2>1, <2>2
<1> QED
  BY <1>4, <1>5, <1>6 DEF OwnInv

\* Every step of the pipeline and of the user.
LEMMA NextHolds == IndInv /\ [BiasingNext]_biasingVars => IndInv'
<1> SUFFICES ASSUME MMInv, ClientInv, OwnInv, PreparedInv, [BiasingNext]_biasingVars PROVE IndInv'
  BY DEF IndInv
<1> USE DEF NextStream, GroupReturns
\* the ids and the tensors are left alone
<1>same. ASSUME UNCHANGED mmVars \/ Capture, UNCHANGED multi_model_id
         PROVE  /\ MMInv' /\ (stale_ids' = stale_ids /\ phase # "close" => OwnInv')
                /\ multi_model_id' \in [Configs -> {NoId} \cup 0 .. num_models' - 1]
  <2>1. MMInv' /\ num_models' = num_models
    BY <1>same, NothingMoves
  <2>2. stale_ids' = stale_ids /\ phase # "close" => OwnInv'
    BY <1>same, OwnStays
  <2> QED
    BY <1>same, <2>1, <2>2 DEF ClientInv
\* the loop of prepare goes on
<1>turn. ASSUME phase = "prepare", remaining # <<>>, NextStream, MMInv', OwnInv',
                multi_model_id' \in [Configs -> {NoId} \cup 0 .. num_models' - 1],
                Config \in auto_managed => multi_model_id'[Config] # NoId,
                \A c \in Configs : c # Config => multi_model_id'[c] = multi_model_id[c]
         PROVE  IndInv'
  <2>1. /\ Head(remaining) \in DOMAIN biasing_cfg /\ Config \in Configs
        /\ Tail(remaining) \in Seq(DOMAIN biasing_cfg)
        /\ StreamsOf(remaining) \subseteq {Head(remaining)} \cup StreamsOf(Tail(remaining))
    BY <1>turn, Turn
  <2>2. ClientInv'
    BY <1>turn, <2>1 DEF ClientInv
  <2>3. PreparedInv'
    <3> SUFFICES ASSUME NEW sid \in StreamsOf(group)
                 PROVE  \/ sid \in StreamsOf(Tail(remaining))
                        \/ biasing_cfg[sid] \notin auto_managed
                        \/ multi_model_id'[biasing_cfg[sid]] # NoId
      BY <1>turn DEF PreparedInv, StreamsOf
    <3>1. biasing_cfg[sid] \in Configs
      BY DEF ClientInv, StreamsOf
    <3>2. CASE sid = Head(remaining)
      BY <1>turn, <3>2 DEF Config
    <3>3. CASE sid # Head(remaining) /\ sid \in StreamsOf(remaining)
      BY <2>1, <3>3
    <3>4. CASE sid \notin StreamsOf(remaining)
      <4>1. \/ biasing_cfg[sid] \notin auto_managed
            \/ multi_model_id[biasing_cfg[sid]] # NoId
        BY <1>turn, <3>4 DEF PreparedInv
      <4> QED
        BY <1>turn, <3>1, <4>1
    <3> QED
      BY <3>2, <3>3, <3>4
  <2> QED
    BY <1>turn, <2>2, <2>3 DEF IndInv
\* the step is over
<1>back. ASSUME GroupReturns, MMInv', OwnInv',
                multi_model_id' \in [Configs -> {NoId} \cup 0 .. num_models' - 1],
                \A sid \in DOMAIN biasing_cfg' : biasing_cfg'[sid] \in Configs
         PROVE  IndInv'
  <2>1. ClientInv'
    BY <1>back DEF ClientInv
  <2> QED
    BY <1>back, <2>1 DEF IndInv, PreparedInv
\* between two steps
<1>idle. ASSUME phase = "idle", phase' \in {"idle", "close"}, UNCHANGED <<group, is_last, remaining>>,
                MMInv', OwnInv',
                multi_model_id' \in [Configs -> {NoId} \cup 0 .. num_models' - 1],
                \A sid \in DOMAIN biasing_cfg' : biasing_cfg'[sid] \in Configs
         PROVE  IndInv'
  <2>1. ClientInv'
    BY <1>idle DEF ClientInv
  <2> QED
    BY <1>idle, <2>1 DEF IndInv, PreparedInv
<1>1. CASE StartGroup
  <2>1. PICK g \in Groups, l \in BOOLEAN :
           /\ \E cfg \in [StreamsOf(g) \ DOMAIN biasing_cfg -> Configs] :
                 biasing_cfg' = [sid \in DOMAIN biasing_cfg \cup StreamsOf(g) |->
                                   IF sid \in DOMAIN cfg THEN cfg[sid] ELSE biasing_cfg[sid]]
           /\ group' = g /\ is_last' = l /\ remaining' = g
    BY <1>1 DEF StartGroup
  <2>2. /\ DOMAIN biasing_cfg' = DOMAIN biasing_cfg \cup StreamsOf(g)
        /\ \A sid \in DOMAIN biasing_cfg' : biasing_cfg'[sid] \in Configs
    <3>1. PICK cfg \in [StreamsOf(g) \ DOMAIN biasing_cfg -> Configs] :
             biasing_cfg' = [sid \in DOMAIN biasing_cfg \cup StreamsOf(g) |->
                               IF sid \in DOMAIN cfg THEN cfg[sid] ELSE biasing_cfg[sid]]
      BY <2>1
    <3> QED
      BY <3>1 DEF ClientInv
  <2>3. g \in Seq(DOMAIN biasing_cfg')
    <3>1. PICK n \in 1 .. max_group : g \in [1 .. n -> BiasedSids]
      BY DEF Groups
    <3>2. n \in Nat
      BY <3>1, BiasedStreamsAssumption DEF BiasedStreamsAssumption, Positive
    <3>3. \A i \in 1 .. n : g[i] \in DOMAIN biasing_cfg'
      BY <2>2, <3>1 DEF StreamsOf
    <3> QED
      BY <3>1, <3>2, <3>3
  <2>4. /\ MMInv' /\ OwnInv' /\ phase' = "prepare"
        /\ multi_model_id' \in [Configs -> {NoId} \cup 0 .. num_models' - 1]
    BY <1>1, <1>same DEF StartGroup
  <2>5. ClientInv'
    BY <2>1, <2>2, <2>3, <2>4 DEF ClientInv
  <2>6. PreparedInv'
    BY <2>1 DEF PreparedInv, StreamsOf
  <2> QED
    BY <2>4, <2>5, <2>6 DEF IndInv
<1>2. CASE PrepareKept
  <2>1. /\ MMInv' /\ OwnInv'
        /\ multi_model_id' \in [Configs -> {NoId} \cup 0 .. num_models' - 1]
    BY <1>2, <1>same DEF PrepareKept
  <2> QED
    BY <1>2, <1>turn, <2>1 DEF PrepareKept, Compiled
<1>3. CASE PrepareAdded
  <2>1. Config \in Configs
    BY <1>3, Turn DEF PrepareAdded
  <2>2. PICK id \in NextIds : /\ AddModel(model_of[Config], id)
                              /\ multi_model_id' = [multi_model_id EXCEPT ![Config] = id]
    BY <1>3 DEF PrepareAdded
  <2>3. stale_ids' = stale_ids /\ phase # "close"
    BY <1>3 DEF PrepareAdded
  <2>4. /\ MMInv' /\ OwnInv'
        /\ multi_model_id' \in [Configs -> {NoId} \cup 0 .. num_models' - 1]
        /\ multi_model_id'[Config] # NoId
    BY <2>1, <2>2, <2>3, OwnAdded
  <2>5. \A c \in Configs : c # Config => multi_model_id'[c] = multi_model_id[c]
    BY <2>2 DEF ClientInv
  <2> QED
    BY <1>3, <1>turn, <2>4, <2>5 DEF PrepareAdded
<1>4. CASE PrepareSkipped
  <2>1. Config \in Configs /\ multi_model_id \in [Configs -> {NoId} \cup 0 .. num_models - 1]
    BY <1>4, Turn DEF PrepareSkipped, ClientInv
  <2>2. multi_model_id' = [multi_model_id EXCEPT ![Config] = NoId] /\ UNCHANGED mmVars
    BY <1>4 DEF PrepareSkipped
  <2>3. \A c \in Configs : /\ multi_model_id'[c] \in {NoId, multi_model_id[c]}
                           /\ c # Config => multi_model_id'[c] = multi_model_id[c]
    BY <2>1, <2>2
  <2>4. stale_ids' = stale_ids /\ phase # "close"
    BY <1>4 DEF PrepareSkipped
  <2>5. MMInv' /\ OwnInv' /\ num_models' = num_models
    BY <2>2, <2>3, <2>4, OwnStays, NothingMoves
  <2>6. multi_model_id' \in [Configs -> {NoId} \cup 0 .. num_models' - 1]
    BY <2>1, <2>2, <2>5
  <2> QED
    BY <1>4, <1>turn, <2>3, <2>5, <2>6 DEF PrepareSkipped
<1>5. CASE Prepared
  <2>1. /\ MMInv' /\ OwnInv'
        /\ multi_model_id' \in [Configs -> {NoId} \cup 0 .. num_models' - 1]
    BY <1>5, <1>same DEF Prepared
  <2>2. ClientInv'
    BY <1>5, <2>1 DEF Prepared, ClientInv
  <2>3. PreparedInv'
    BY <1>5 DEF Prepared, PreparedInv, StreamsOf
  <2> QED
    BY <2>1, <2>2, <2>3 DEF IndInv
<1>6. CASE Decode
  <2>1. /\ MMInv' /\ OwnInv'
        /\ multi_model_id' \in [Configs -> {NoId} \cup 0 .. num_models' - 1]
    BY <1>6, <1>same DEF Decode
  <2>2. ClientInv'
    BY <1>6, <2>1 DEF Decode, ClientInv
  <2> QED
    BY <1>6, <2>1, <2>2 DEF Decode, IndInv, PreparedInv
<1>7. CASE DecodeRaises
  <2>1. /\ MMInv' /\ OwnInv'
        /\ multi_model_id' \in [Configs -> {NoId} \cup 0 .. num_models' - 1]
    BY <1>7, <1>same DEF DecodeRaises
  <2> QED
    BY <1>7, <1>back, <2>1 DEF DecodeRaises, ClientInv
<1>8. CASE Release
  <2>1. /\ Config \in Configs /\ Tail(remaining) \in Seq(DOMAIN biasing_cfg)
        /\ multi_model_id \in [Configs -> {NoId} \cup 0 .. num_models - 1]
    BY <1>8, Turn DEF Release, ClientInv
  <2>2. stale_ids' = stale_ids /\ phase = "release" /\ phase' = phase
    BY <1>8 DEF Release
  <2>3. /\ MMInv' /\ OwnInv'
        /\ multi_model_id' \in [Configs -> {NoId} \cup 0 .. num_models' - 1]
    <3>1. CASE Config \in auto_managed /\ multi_model_id[Config] # NoId
      <4>1. /\ RemoveModel(multi_model_id[Config])
            /\ multi_model_id' = [multi_model_id EXCEPT ![Config] = NoId]
        BY <1>8, <3>1 DEF Release
      <4> QED
        BY <2>1, <2>2, <3>1, <4>1, OwnRemoved
    <3>2. CASE ~(Config \in auto_managed /\ multi_model_id[Config] # NoId)
      BY <1>8, <1>same, <2>2, <3>2 DEF Release
    <3> QED
      BY <3>1, <3>2
  <2>4. ClientInv'
    BY <1>8, <2>1, <2>2, <2>3 DEF Release, ClientInv
  <2> QED
    BY <2>2, <2>3, <2>4 DEF IndInv, PreparedInv
<1>9. CASE ReleaseRaises
  <2>1. /\ MMInv' /\ OwnInv'
        /\ multi_model_id' \in [Configs -> {NoId} \cup 0 .. num_models' - 1]
    BY <1>9, <1>same DEF ReleaseRaises
  <2> QED
    BY <1>9, <1>back, <2>1 DEF ReleaseRaises, ClientInv
<1>10. CASE EndGroup
  <2>1. /\ MMInv' /\ OwnInv'
        /\ multi_model_id' \in [Configs -> {NoId} \cup 0 .. num_models' - 1]
    BY <1>10, <1>same DEF EndGroup
  <2>2. \A sid \in DOMAIN biasing_cfg' : biasing_cfg'[sid] \in Configs
    BY <1>10 DEF EndGroup, ClientInv, Without
  <2> QED
    BY <1>10, <1>back, <2>1, <2>2 DEF EndGroup
<1>11. CASE CloseSession
  <2>1. /\ MMInv' /\ OwnInv'
        /\ multi_model_id' \in [Configs -> {NoId} \cup 0 .. num_models' - 1]
    BY <1>11, <1>same DEF CloseSession
  <2> QED
    BY <1>11, <1>idle, <2>1 DEF CloseSession, ClientInv
<1>12. CASE CloseRemove
  <2>1. PICK id \in ActiveIds : RemoveModel(id)
    BY <1>12 DEF CloseRemove
  <2>2. id \in Nat
    BY DEF ActiveIds, MMInv
  <2>3. MMInv' /\ num_models' = num_models
    BY <2>1, <2>2, RemoveKeeps
  <2>4. ClientInv'
    BY <1>12, <2>3 DEF CloseRemove, ClientInv
  <2> QED
    BY <1>12, <2>3, <2>4 DEF CloseRemove, IndInv, OwnInv, PreparedInv
<1>13. CASE CloseDone
  <2>1. MMInv' /\ num_models' = num_models
    BY <1>13, NothingMoves DEF CloseDone
  <2>2. multi_model_id' \in [Configs -> {NoId} \cup 0 .. num_models' - 1]
    BY <1>13, <2>1 DEF CloseDone, ClientInv
  <2>3. OwnInv'
    <3>1. ~stale_ids' => \A c \in Configs : multi_model_id'[c] = NoId
      BY <1>13 DEF CloseDone
    <3> QED
      BY <3>1 DEF OwnInv
  <2>4. ClientInv'
    BY <1>13, <2>2 DEF CloseDone, ClientInv, NoStreams
  <2> QED
    BY <1>13, <2>1, <2>3, <2>4 DEF CloseDone, IndInv, PreparedInv
<1>14. CASE OpenSession
  <2>1. /\ MMInv' /\ OwnInv'
        /\ multi_model_id' \in [Configs -> {NoId} \cup 0 .. num_models' - 1]
    BY <1>14, <1>same DEF OpenSession
  <2> QED
    BY <1>14, <1>idle, <2>1 DEF OpenSession, NoStreams
<1>15. CASE DeleteState
  <2>1. /\ MMInv' /\ OwnInv'
        /\ multi_model_id' \in [Configs -> {NoId} \cup 0 .. num_models' - 1]
    BY <1>15, <1>same DEF DeleteState
  <2> QED
    BY <1>15, <1>idle, <2>1 DEF DeleteState, ClientInv, Without
<1>16. CASE UserAdds
  <2>1. PICK c \in Configs \ auto_managed, id \in NextIds :
           /\ AddModel(model_of[c], id)
           /\ multi_model_id' = [multi_model_id EXCEPT ![c] = id]
    BY <1>16 DEF UserAdds
  <2>2. stale_ids' = stale_ids /\ phase # "close"
    BY <1>16 DEF UserAdds
  <2>3. /\ MMInv' /\ OwnInv'
        /\ multi_model_id' \in [Configs -> {NoId} \cup 0 .. num_models' - 1]
    BY <2>1, <2>2, OwnAdded
  <2> QED
    BY <1>16, <1>idle, <2>3 DEF UserAdds, ClientInv
<1>17. CASE UserRemoves
  <2>1. PICK c \in Configs \ auto_managed :
           /\ multi_model_id[c] # NoId
           /\ RemoveModel(multi_model_id[c])
           /\ multi_model_id' = [multi_model_id EXCEPT ![c] = NoId]
    BY <1>17 DEF UserRemoves
  <2>2. stale_ids' = stale_ids /\ phase # "close"
    BY <1>17 DEF UserRemoves
  <2>3. /\ MMInv' /\ OwnInv'
        /\ multi_model_id' \in [Configs -> {NoId} \cup 0 .. num_models' - 1]
    BY <2>1, <2>2, OwnRemoved
  <2> QED
    BY <1>17, <1>idle, <2>3 DEF UserRemoves, ClientInv
<1>18. CASE UNCHANGED biasingVars
  <2>1. MMInv' /\ num_models' = num_models /\ model2active' = model2active
        /\ \A o : StoredAt(o)' = StoredAt(o)
    BY <1>18, NothingMoves DEF biasingVars
  <2>2. OwnInv'
    BY <1>18, <2>1 DEF biasingVars, OwnInv, Own
  <2>3. ClientInv' /\ PreparedInv'
    BY <1>18, <2>1 DEF biasingVars, ClientInv, PreparedInv, StreamsOf
  <2> QED
    BY <2>1, <2>2, <2>3 DEF IndInv
<1> QED
  BY <1>1, <1>2, <1>3, <1>4, <1>5, <1>6, <1>7, <1>8, <1>9, <1>10, <1>11, <1>12, <1>13,
     <1>14, <1>15, <1>16, <1>17, <1>18 DEF BiasingNext

-----------------------------------------------------------------------------

\* The inductive invariant.
LEMMA Invariance == BiasingSpec => []IndInv
<1>1. IndInv /\ UNCHANGED biasingVars => IndInv'
  BY NextHolds
<1> QED
  BY InitHolds, NextHolds, PTL DEF BiasingSpec

\* A stream is decoded with, and releases, the model of its own config and no
\* other (per_stream_biasing.py, cache_aware_rnnt_pipeline.py), for any streams
\* and any configs, shared or not, unless a close_session left an id behind.
THEOREM BiasedByItsOwnModel == BiasingSpec => []BiasedByOwn
<1>1. IndInv => BiasedByOwn
  <2> SUFFICES ASSUME MMInv, ClientInv, OwnInv, PreparedInv, ~stale_ids PROVE
          /\ phase = "decode" =>
                \A sid \in StreamsOf(group) :
                    LET c == biasing_cfg[sid]
                    IN  IF multi_model_id[c] = NoId THEN c \notin auto_managed ELSE Own(c)
          /\ phase = "release" =>
                \A sid \in StreamsOf(remaining) :
                    LET c == biasing_cfg[sid] IN multi_model_id[c] # NoId => Own(c)
    BY DEF IndInv, BiasedByOwn
  <2>1. /\ \A sid \in StreamsOf(group) : biasing_cfg[sid] \in Configs
        /\ \A sid \in StreamsOf(remaining) : biasing_cfg[sid] \in Configs
    BY DEF ClientInv, StreamsOf
  <2>2. phase = "decode" => \A sid \in StreamsOf(group) : sid \notin StreamsOf(remaining)
    BY DEF ClientInv, StreamsOf
  <2> QED
    BY <2>1, <2>2 DEF OwnInv, PreparedInv
<1> QED
  BY <1>1, Invariance, PTL

\* The decoder replays no graph that was captured over tensors which add_model has
\* reallocated since (biasing_multi_model.py, the callbacks of GPUBiasingMultiModel).
THEOREM NoGraphOverOldTensors == BiasingSpec => []GraphsUseLiveBuffers
<1>1. IndInv => GraphsUseLiveBuffers
  BY DEF IndInv, MMInv, GraphsUseLiveBuffers
<1> QED
  BY <1>1, Invariance, PTL

\* GPUBiasingMultiModel keeps every model as GPUBiasingMultiModelReference does,
\* for any models and any sizes the tensors begin with.
THEOREM TensorsImplementReference == BiasingSpec => ImplementsReference
<1>1. BiasingInit => Ref!Init
  BY DEF BiasingInit, MMInit, Ref!Init, ModelList
<1>2. IndInv /\ [BiasingNext]_biasingVars => [Ref!Next]_<<ModelList, free_ids>>
  <2> SUFFICES ASSUME MMInv, ClientInv, [BiasingNext]_biasingVars
               PROVE  Ref!Next \/ UNCHANGED <<ModelList, free_ids>>
    BY DEF IndInv
  <2> USE DEF Ref!Next
  <2>ids. /\ \A c \in Configs : multi_model_id[c] # NoId => multi_model_id[c] \in Nat
          /\ \A id \in ActiveIds : id \in Nat
          /\ \A c \in Configs : model_of[c] \in Models
    BY BiasedStreamsAssumption DEF BiasedStreamsAssumption, ClientInv, MMInv, ActiveIds
  <2>1. CASE UNCHANGED mmVars \/ Capture
    BY <2>1, NothingMoves
  <2>2. CASE PrepareAdded
    BY <2>2, <2>ids, Turn, AddIsReferenceAdd DEF PrepareAdded
  <2>3. CASE UserAdds
    BY <2>3, <2>ids, AddIsReferenceAdd DEF UserAdds
  <2>4. CASE Release
    BY <2>1, <2>4, <2>ids, Turn, RemoveIsReferenceRemove DEF Release
  <2>5. CASE UserRemoves
    BY <2>5, <2>ids, RemoveIsReferenceRemove DEF UserRemoves
  <2>6. CASE CloseRemove
    BY <2>6, <2>ids, RemoveIsReferenceRemove DEF CloseRemove
  <2> QED
    BY <2>1, <2>2, <2>3, <2>4, <2>5, <2>6
       DEF BiasingNext, biasingVars, StartGroup, PrepareKept, PrepareSkipped, Prepared, Decode, DecodeRaises,
           ReleaseRaises, EndGroup, CloseSession, CloseDone, OpenSession, DeleteState
<1> QED
  BY <1>1, <1>2, Invariance, PTL DEF BiasingSpec, ImplementsReference, Ref!Spec
=============================================================================
