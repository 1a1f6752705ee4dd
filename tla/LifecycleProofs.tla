-------------------------- MODULE LifecycleProofs --------------------------
(***************************************************************************)
(* Proofs about the life of the checkpoints: any number of steps, starts,  *)
(* crashes and exits, any save_top_k, synchronous and asynchronous saves.  *)
(***************************************************************************)
EXTENDS CheckpointLifecycle, FiniteSetTheorems, SequenceTheorems, WellFoundedInduction, TLAPS

(* The names a training gives.                                             *)
LastNames == {Name("last", s, 0, 0) : s \in Nat}
TopkNames == [kind : {"topk"}, step : Nat, score : Nat, ver : Nat]
Known == LastNames \cup TopkNames

Phases == {"down", "refused", "init", "setup", "fit_start", "batch_end", "validated",
           "ending", "ended", "exiting", "done"}
Training == {"fit_start", "batch_end", "validated", "ending", "ended", "exiting", "done"}

SaveOps == {"mark", "begin", "end", "schedule", "finalize"}
Ops == [op : SaveOps \cup {"delete", "unmark", "remove", "remove_deferred"}, name : Known]
Contents == [whole : BOOLEAN, best_k : SUBSET TopkNames]
Calls == [name : Known, best_k : SUBSET TopkNames, written : BOOLEAN]

TypeOK ==
  /\ training \in Trainings
  /\ DOMAIN ckpt \subseteq Known /\ IsFiniteSet(DOMAIN ckpt)
  /\ \A n \in DOMAIN ckpt : ckpt[n] \in Contents
  /\ marked \subseteq Known
  /\ phase \in Phases
  /\ {global_step, starts, saved_step, exit_step} \subseteq Nat
  /\ {ckpt_path, last_model_path} \subseteq LastNames \cup {NULL}
  /\ best_k_models \subseteq TopkNames /\ IsFiniteSet(best_k_models)
  /\ async_calls \in Seq(Calls)
  /\ deferred_ckpts_to_remove \in Seq(Seq(Known))
  /\ todo \in Seq(Ops)

(* Where there is something to do, and what kind of it.                    *)
PhaseInv ==
  /\ phase \in {"down", "refused", "setup", "fit_start", "done"} => todo = <<>>
  /\ phase \in {"down", "refused", "init", "setup", "fit_start"} =>
       async_calls = <<>> /\ deferred_ckpts_to_remove = <<>>
  /\ ~training.async_save => async_calls = <<>> /\ deferred_ckpts_to_remove = <<>>

(* Which effects a kind of training, and a phase, has.                     *)
OpInv ==
  /\ \A i \in DOMAIN todo :
       /\ training.async_save => todo[i].op \notin {"begin", "end"}
       /\ ~training.async_save => todo[i].op \notin {"schedule", "remove_deferred"}
       /\ training.async_save /\ todo[i].op = "finalize" =>
            Len(todo) <= 1 /\ phase # "exiting"
       /\ phase = "init" => todo[i].op = "delete"
       /\ phase = "batch_end" => todo[i].op \notin {"mark", "begin", "schedule"}

Pending == {async_calls[i].name : i \in DOMAIN async_calls}

Follows(i, op) == i > 1 /\ todo[i - 1].op = op /\ todo[i - 1].name = todo[i].name

(* What the effect at the head has prepared, what a later one finds prepared. *)
MarkInv ==
  \A i \in DOMAIN todo : todo[i].op = "mark" =>
    LET n == todo[i].name
    IN /\ i < Len(todo) /\ todo[i + 1].op \in {"begin", "schedule"} /\ todo[i + 1].name = n
       /\ n.kind = "last" => saved_step = 0 \/ n \notin DOMAIN ckpt \cup Pending
       /\ \A j \in 1 .. i - 1 :
            todo[j].name # n /\ ~(n.kind = "last" /\ todo[j].name.kind = "last")

WriteInv ==
  \A i \in DOMAIN todo :
    /\ todo[i].op \in {"begin", "schedule"} =>
         (i = 1 /\ todo[i].name \in marked) \/ Follows(i, "mark")
    /\ todo[i].op \in {"mark", "begin", "schedule"} => todo[i].name.step = global_step

FinalizeInv ==
  \A i \in DOMAIN todo : todo[i].op = "finalize" =>
    LET n == todo[i].name
    IN \/ /\ i = 1
          /\ n \in DOMAIN ckpt => ckpt[n].whole
          /\ n.kind = "last" => n \in DOMAIN ckpt
       \/ Follows(i, "end")

DeleteInv ==
  \A i \in DOMAIN todo :
    LET n == todo[i].name
    IN /\ todo[i].op = "delete" =>
            i = 1 /\ (phase # "init" => n \in marked)
       /\ todo[i].op = "unmark" =>
            \/ i = 1 /\ (n \in DOMAIN ckpt => ckpt[n].whole)
            \/ i = 2 /\ Follows(i, "delete")

(* last_model_path is the newest last checkpoint there is or will be.      *)
LastInv ==
  /\ phase \in Training =>
       /\ \A n \in OnDisk("last") : last_model_path # NULL /\ n.step <= last_model_path.step
       /\ last_model_path # NULL =>
            /\ last_model_path.step <= global_step
            /\ phase = "batch_end" => last_model_path.step < global_step
  /\ \A n \in Pending :
       n.kind = "last" => last_model_path # NULL /\ n.step <= last_model_path.step
  /\ \A i \in DOMAIN todo : todo[i].name.kind = "last" /\ todo[i].op \in SaveOps =>
       /\ last_model_path # NULL /\ todo[i].name.step <= last_model_path.step
       /\ todo[i].op \in {"mark", "schedule"} => todo[i].name = last_model_path

(* Until it is loaded, what check_resume chose stays the newest usable one. *)
ResumeInv ==
  phase \in {"init", "setup"} =>
    /\ last_model_path = ckpt_path
    /\ ckpt_path = NULL => OnDisk("last") = {}
    /\ ckpt_path # NULL =>
         /\ ckpt_path \in Usable("last")
         /\ \A n \in Usable("last") : n.step <= ckpt_path.step

(* A usable last checkpoint is as new as anything finalized.               *)
SavedInv ==
  saved_step > 0 =>
    /\ \E n \in Usable("last") : n.step >= saved_step
    /\ phase \in Training => last_model_path # NULL /\ saved_step <= last_model_path.step

(* Only last checkpoints older than a finalized one are removed.           *)
Outlives(n, d) == n.kind = "last" /\ d.step < n.step

RemovalInv ==
  \A i \in DOMAIN todo :
    LET d == todo[i].name
    IN d.kind = "last" =>
         /\ todo[i].op = "remove" =>
              IF i > 1
                THEN /\ todo[i - 1].op \in {"finalize", "schedule"}
                     /\ Outlives(todo[i - 1].name, d)
                ELSE IF training.async_save
                       THEN /\ Len(async_calls) >= 1
                            /\ Outlives(async_calls[Len(async_calls)].name, d)
                       ELSE d.step < saved_step
         /\ todo[i].op \in {"remove_deferred", "delete"} => d.step < saved_step

(* The list of deferred removals that belongs to a save.                   *)
Finalizing == 
  IF training.async_save /\ 1 \in DOMAIN todo /\ todo[1].op = "finalize" THEN 1 ELSE 0

CallOf(i) ==
  IF Finalizing = 0 THEN async_calls[i].name
  ELSE IF i = 1 THEN todo[1].name ELSE async_calls[i - 1].name

ListInv ==
  /\ Len(deferred_ckpts_to_remove) = Len(async_calls) + Finalizing
  /\ \A i \in DOMAIN deferred_ckpts_to_remove : \A k \in DOMAIN deferred_ckpts_to_remove[i] :
       deferred_ckpts_to_remove[i][k].kind = "last" =>
         Outlives(CallOf(i), deferred_ckpts_to_remove[i][k])

(* Pending saves: different names, in the order of their steps.            *)
QueueInv ==
  phase # "exiting" =>
    /\ \A i \in DOMAIN async_calls :
         LET n == async_calls[i].name
         IN /\ n.step <= global_step /\ (phase = "batch_end" => n.step < global_step)
            /\ n.kind = "last" => saved_step <= n.step
            /\ async_calls[i].written =>
                 /\ n \in DOMAIN ckpt => ckpt[n].whole
                 /\ n.kind = "last" => n \in DOMAIN ckpt
            /\ \A j \in DOMAIN async_calls :
                 i < j /\ n.kind = "last" /\ async_calls[j].name.kind = "last" =>
                   n.step <= async_calls[j].name.step
            /\ Finalizing = 1 /\ n.kind = "last" /\ todo[1].name.kind = "last" =>
                 todo[1].name.step <= n.step
    /\ \A i \in DOMAIN todo : todo[i].op = "schedule" => todo[i].name \notin Pending

(* A synchronous exit is not over before its checkpoint is.                *)
ExitInv ==
  ~training.async_save =>
    /\ exit_step <= saved_step
    /\ phase = "exiting" =>
         \/ saved_step >= global_step
         \/ \E i \in DOMAIN todo :
              todo[i].op = "finalize" /\ todo[i].name.kind = "last" /\ todo[i].name.step >= global_step

(* Only pruning leaves something partial without a marker.                 *)
WholeInv ==
  \A n \in DOMAIN ckpt \ marked :
    ckpt[n].whole \/ (phase \in {"down", "refused", "init"} /\ n \in Excess)

PruneInv ==
  phase = "init" =>
    /\ best_k_models = Usable("topk") \ Excess
    /\ \A i \in DOMAIN todo :
         /\ i = 1 /\ todo[i].name \in Excess
         /\ \A m \in Excess : m = todo[i].name \/ Worse(todo[i].name, m)

CleanInv ==
  /\ phase = "setup" =>
       /\ best_k_models \subseteq Usable("topk")
       /\ Cardinality(Usable("topk")) <= training.save_top_k
  /\ CleanAtStart

IndInv ==
  /\ TypeOK /\ PhaseInv /\ OpInv /\ MarkInv /\ WriteInv /\ FinalizeInv /\ DeleteInv
  /\ LastInv /\ ResumeInv /\ SavedInv /\ RemovalInv /\ ListInv
  /\ QueueInv /\ ExitInv /\ WholeInv /\ PruneInv /\ CleanInv

----------------------------------------------------------------------------
(* Names.                                                                  *)

\* What the two kinds of names look like.
LEMMA NameShape ==
  /\ \A n \in LastNames :
       /\ n.kind = "last" /\ n.step \in Nat /\ n.score = 0 /\ n.ver = 0
       /\ n = Name("last", n.step, 0, 0) /\ n # NULL
  /\ \A n \in TopkNames :
       /\ n.kind = "topk" /\ n.step \in Nat /\ n.score \in Nat /\ n.ver \in Nat /\ n # NULL
  /\ \A n \in Known : n.kind = "last" => n \in LastNames
  /\ \A n \in Known : n.kind # "last" => n \in TopkNames
  /\ \A n \in Known : n.kind \in {"last", "topk"} /\ n.step \in Nat /\ n # NULL
<1>1. LastNames \subseteq Names
  BY DEF LastNames, Names, Name
<1>2. TopkNames \subseteq Names
  BY DEF TopkNames, Names
<1>3. \A n \in LastNames :
        /\ n.kind = "last" /\ n.step \in Nat /\ n.score = 0 /\ n.ver = 0
        /\ n = Name("last", n.step, 0, 0)
  BY DEF LastNames, Name
<1>4. \A n \in TopkNames : n.kind = "topk" /\ n.step \in Nat /\ n.score \in Nat /\ n.ver \in Nat
  BY DEF TopkNames
<1> QED BY <1>1, <1>2, <1>3, <1>4, NullAssumption DEF Known

\* Two names of last checkpoints with the same step are the same.
LEMMA LastByStep ==
  ASSUME NEW m \in LastNames, NEW n \in LastNames, m.step = n.step PROVE m = n
BY NameShape

\* The ranking is a strict total order on the names of top-k checkpoints.
LEMMA WorseOrder ==
  ASSUME NEW l \in TopkNames, NEW m \in TopkNames, NEW n \in TopkNames
  PROVE  /\ ~Worse(n, n)
         /\ Worse(l, m) /\ Worse(m, n) => Worse(l, n)
         /\ m # n => Worse(m, n) \/ Worse(n, m)
<1>1. m.step = n.step /\ m.score = n.score /\ m.ver = n.ver => m = n
  BY DEF TopkNames
<1> QED BY <1>1, NameShape DEF Worse

\* A set of natural numbers has a least one.
LEMMA LeastExists ==
  ASSUME NEW S \in SUBSET Nat, S # {} PROVE \E n \in S : \A m \in S : n <= m
<1>1. IsWellFoundedOn(OpToRel(<, Nat), Nat)
  BY NatLessThanWellFounded
<1>2. PICK n \in S : \A m \in S : <<m, n>> \notin OpToRel(<, Nat)
  BY <1>1, WFMin
<1>3. \A m \in S : ~(m < n)
  BY <1>2 DEF OpToRel
<1> QED BY <1>3

Better(S, n) == {m \in S : Worse(n, m)}

\* Better ones have fewer names above them.
LEMMA FewerBetter ==
  ASSUME NEW S \in SUBSET TopkNames, IsFiniteSet(S), NEW m \in S, NEW n \in S, Worse(n, m)
  PROVE  /\ Cardinality(Better(S, m)) \in Nat /\ Cardinality(Better(S, n)) \in Nat
         /\ Cardinality(Better(S, m)) < Cardinality(Better(S, n))
<1>1. Better(S, m) \subseteq Better(S, n) /\ m \in Better(S, n) \ Better(S, m)
  BY WorseOrder DEF Better
<1>2. IsFiniteSet(Better(S, n)) /\ IsFiniteSet(Better(S, m))
  BY FS_Subset DEF Better
<1> QED BY <1>1, <1>2, FS_Subset, FS_CardinalityType

\* A finite ranking has a worst entry.
LEMMA WorstExists ==
  ASSUME NEW S \in SUBSET TopkNames, IsFiniteSet(S), S # {}
  PROVE  \E n \in S : \A m \in S : m = n \/ Worse(n, m)
<1> DEFINE c == Cardinality(S)
           above(n) == Cardinality(Better(S, n))
           gaps == {c - above(n) : n \in S}
<1>1. c \in Nat /\ \A n \in S : above(n) \in Nat /\ above(n) <= c
  BY FS_Subset, FS_CardinalityType DEF Better
<1>2. gaps \in SUBSET Nat /\ gaps # {}
  <2> HIDE DEF c, above
  <2> QED BY <1>1
<1>3. PICK g \in gaps : \A h \in gaps : g <= h
  <2> HIDE DEF gaps
  <2> QED BY <1>2, LeastExists
<1>4. PICK n \in S : g = c - above(n)
  OBVIOUS
<1>5. ASSUME NEW m \in S PROVE m = n \/ Worse(n, m)
  <2>1. c - above(m) \in gaps
    OBVIOUS
  <2>2. above(m) <= above(n)
    <3> HIDE DEF c, above, gaps
    <3> QED BY <1>1, <1>3, <1>4, <2>1
  <2>3. CASE Worse(m, n)
    BY <1>1, <2>2, <2>3, FewerBetter
  <2> QED BY <2>3, WorseOrder
<1> QED BY <1>5

----------------------------------------------------------------------------
(* Versions.                                                               *)

\* There is a free version: a name is new, or the one to be written over.
LEMMA FreshNameIs ==
  ASSUME TypeOK, NEW n \in Known, NEW o
  PROVE  \E v \in Nat :
           /\ FreshName(n, o) = [n EXCEPT !.ver = v]
           /\ FreshName(n, o) \notin DOMAIN ckpt \/ FreshName(n, o) = o
           /\ \A u \in Nat : u < v =>
                [n EXCEPT !.ver = u] \in DOMAIN ckpt /\ [n EXCEPT !.ver = u] # o
<1> DEFINE c == Cardinality(DOMAIN ckpt)
           m(v) == [n EXCEPT !.ver = v]
           free == {v \in 0 .. c : m(v) \notin DOMAIN ckpt \/ m(v) = o}
<1>1. c \in Nat /\ IsFiniteSet(DOMAIN ckpt)
  BY FS_CardinalityType DEF TypeOK
<1>2. \A u, v \in Nat : m(u) = m(v) => u = v
  BY DEF Known, LastNames, TopkNames, Name
<1>3. free # {}
  <2> SUFFICES ASSUME \A v \in 0 .. c : m(v) \in DOMAIN ckpt PROVE FALSE
    OBVIOUS
  <2> DEFINE f == [v \in 0 .. c |-> m(v)]
  <2>1. f \in [0 .. c -> DOMAIN ckpt]
    OBVIOUS
  <2>2. IsFiniteSet(0 .. c) /\ Cardinality(0 .. c) = c + 1
    <3> HIDE DEF c, f
    <3>1. 0 \in Int /\ c \in Int /\ c - 0 + 1 = c + 1 /\ ~(0 > c)
      BY <1>1
    <3> QED BY <3>1, FS_Interval
  <2>3. PICK x, y \in 0 .. c : x # y /\ f[x] = f[y]
    <3> HIDE DEF f
    <3>1. Cardinality(0 .. c) > Cardinality(DOMAIN ckpt)
      BY <1>1, <2>2
    <3> QED BY <1>1, <2>1, <2>2, <3>1, FS_PigeonHole
  <2> QED BY <1>1, <1>2, <2>3
<1>4. free \in SUBSET Nat /\ \A v \in free : m(v) \notin DOMAIN ckpt \/ m(v) = o
  OBVIOUS
<1>5. \A v \in Nat : v <= c /\ (m(v) \notin DOMAIN ckpt \/ m(v) = o) => v \in free
  <2> HIDE DEF c, m
  <2> QED BY <1>1
<1>6. FreshName(n, o) = m(CHOOSE w \in free : \A u \in free : w <= u)
  BY DEF FreshName
<1>7. \A v \in free : v <= c
  <2> HIDE DEF c, m
  <2> QED BY <1>1
<1> HIDE DEF c, free
<1>8. PICK v \in free : \A u \in free : v <= u
  BY <1>3, <1>4, LeastExists
<1>9. (CHOOSE w \in free : \A u \in free : w <= u) = v
  <2>1. \A w \in free : (\A u \in free : w <= u) => w = v
    BY <1>4, <1>8
  <2> QED BY <1>8, <2>1
<1>10. ASSUME NEW u \in Nat, u < v PROVE m(u) \in DOMAIN ckpt /\ m(u) # o
  <2>1. u <= c
    <3>1. v <= c /\ v \in Nat
      BY <1>4, <1>7
    <3> QED BY <1>1, <1>10, <3>1
  <2> QED BY <1>4, <1>5, <1>8, <1>10, <2>1
<1> QED
  <2>1. FreshName(n, o) = m(v)
    BY <1>6, <1>9
  <2>2. m(v) \notin DOMAIN ckpt \/ m(v) = o
    BY <1>4
  <2> HIDE DEF m
  <2>3. /\ v \in Nat /\ FreshName(n, o) = m(v)
        /\ FreshName(n, o) \notin DOMAIN ckpt \/ FreshName(n, o) = o
        /\ \A u \in Nat : u < v => m(u) \in DOMAIN ckpt /\ m(u) # o
    BY <1>4, <1>10, <2>1, <2>2
  <2> QED BY <2>3 DEF m

----------------------------------------------------------------------------
(* One effect of the main thread.                                          *)

\* What is left to do once the effect at the head is done.
Shifted ==
  /\ Len(todo) \in Nat /\ Len(todo) >= 1 /\ 1 \in DOMAIN todo
  /\ DOMAIN todo = 1 .. Len(todo) /\ DOMAIN todo' = 1 .. Len(todo')
  /\ Len(todo') = Len(todo) - 1
  /\ \A i \in DOMAIN todo' : i \in Nat /\ i >= 1 /\ i + 1 \in DOMAIN todo /\ todo'[i] = todo[i + 1]
  /\ \A i \in DOMAIN todo : i = 1 \/ \E j \in DOMAIN todo' : i = j + 1 /\ todo'[j] = todo[i]
  /\ \A i \in DOMAIN todo : todo[i].name \in Known /\ todo[i].name.step \in Nat

\* An effect that is done leaves the rest of the list.
LEMMA ProceedIs ==
  ASSUME TypeOK, todo # <<>>, Proceed
  PROVE  Shifted /\ todo' \in Seq(Ops) /\ Subject = todo[1].name /\ todo[1] \in Ops /\ Subject \in Known
<1>1. todo \in Seq(Ops) /\ todo' = Tail(todo)
  BY DEF TypeOK, Proceed
<1> HIDE DEF Ops
<1>2. /\ Len(todo) \in Nat /\ Len(todo) >= 1 /\ 1 \in DOMAIN todo
      /\ DOMAIN todo = 1 .. Len(todo) /\ DOMAIN todo' = 1 .. Len(todo')
  BY <1>1
<1>3. todo' \in Seq(Ops) /\ Len(todo') = Len(todo) - 1
  BY <1>1
<1>4. todo[1] \in Ops
  BY <1>1, <1>2
<1>5. \A i \in DOMAIN todo' : i \in Nat /\ i >= 1 /\ i + 1 \in DOMAIN todo /\ todo'[i] = todo[i + 1]
  BY <1>1, <1>2, <1>3
<1>6. \A i \in DOMAIN todo : i = 1 \/ \E j \in DOMAIN todo' : i = j + 1 /\ todo'[j] = todo[i]
  <2> SUFFICES ASSUME NEW i \in DOMAIN todo, i # 1
               PROVE  i - 1 \in DOMAIN todo' /\ i = (i - 1) + 1
    BY <1>5
  <2> QED BY <1>2, <1>3
<1>7. Head(todo) = todo[1]
  BY <1>1
<1>8. Subject = todo[1].name /\ Subject \in Known
  BY <1>4, <1>7 DEF Subject, Ops
<1>9. \A i \in DOMAIN todo : todo[i].name \in Known /\ todo[i].name.step \in Nat
  <2> SUFFICES ASSUME NEW i \in DOMAIN todo PROVE todo[i].name \in Known
    BY NameShape
  <2>1. todo[i] \in Ops
    BY <1>1
  <2> QED BY <2>1 DEF Ops
<1> QED BY <1>2, <1>3, <1>4, <1>5, <1>6, <1>8, <1>9 DEF Shifted

Working == {"batch_end", "validated", "ending", "ended", "exiting"}

\* Nothing that is asked of a start is asked while training.
LEMMA StartedLong ==
  ASSUME phase' \in Working
  PROVE  ResumeInv' /\ PruneInv' /\ CleanInv'
BY DEF Working, ResumeInv, PruneInv, CleanInv, CleanAtStart

\* Effects other than deletions come while the job works.
LEMMA EffectPhase ==
  ASSUME IndInv, todo # <<>>, todo[1].op # "delete"
  PROVE  phase \in Working
<1>1. 1 \in DOMAIN todo
  BY DEF IndInv, TypeOK
<1> QED BY <1>1 DEF IndInv, TypeOK, PhaseInv, OpInv, Phases, Working

-----------------------------------------------------------------------------
(* What Proceed leaves of the invariants of the plan: the effect at the head *)
(* owes the next one something.                                            *)

\* Which kinds of effects are left, once the first is done.
LEMMA OpShift ==
  ASSUME OpInv, Shifted, phase' = phase, training' = training PROVE OpInv'
BY DEF OpInv, Shifted

\* A mark that was second is prepared if the first left its name alone.
LEMMA MarkShift ==
  ASSUME MarkInv, Shifted,
         \A i \in DOMAIN todo : todo[i].op = "mark" /\ todo[i].name.kind = "last" /\ i > 1 =>
           saved_step' = 0 \/ todo[i].name \notin DOMAIN ckpt' \cup Pending'
  PROVE  MarkInv'
<1> SUFFICES ASSUME NEW i \in DOMAIN todo', todo'[i].op = "mark"
             PROVE  LET n == todo'[i].name
                    IN /\ i < Len(todo') /\ todo'[i + 1].op \in {"begin", "schedule"}
                       /\ todo'[i + 1].name = n
                       /\ n.kind = "last" => saved_step' = 0 \/ n \notin DOMAIN ckpt' \cup Pending'
                       /\ \A j \in 1 .. i - 1 :
                            todo'[j].name # n /\ ~(n.kind = "last" /\ todo'[j].name.kind = "last")
  BY DEF MarkInv
<1> DEFINE k == i + 1
<1>1. k \in DOMAIN todo /\ todo'[i] = todo[k] /\ k < Len(todo) /\ i \in Nat /\ k > 1
  BY DEF MarkInv, Shifted
<1>2. i + 1 \in DOMAIN todo' /\ todo'[i + 1] = todo[k + 1]
  BY <1>1 DEF Shifted
<1>3. ASSUME NEW j \in 1 .. i - 1
      PROVE  todo'[j].name # todo[k].name /\ ~(todo[k].name.kind = "last" /\ todo'[j].name.kind = "last")
  <2>1. j \in DOMAIN todo' /\ j + 1 \in 1 .. k - 1 /\ todo'[j] = todo[j + 1]
    BY DEF Shifted
  <2> QED BY <1>1, <2>1 DEF MarkInv
<1>4. /\ i < Len(todo') /\ todo[k + 1].op \in {"begin", "schedule"} /\ todo[k + 1].name = todo[k].name
  BY <1>1 DEF MarkInv, Shifted
<1> QED BY <1>1, <1>2, <1>3, <1>4

\* A write that was second is prepared by the mark that was first.
LEMMA WriteShift ==
  ASSUME WriteInv, Shifted, global_step' = global_step,
         todo[1].op = "mark" => todo[1].name \in marked'
  PROVE  WriteInv'
BY DEF WriteInv, Follows, Shifted

\* A finalization that was second is prepared by the end of the write.
LEMMA FinalizeShift ==
  ASSUME FinalizeInv, Shifted,
         todo[1].op = "end" => todo[1].name \in DOMAIN ckpt' /\ ckpt'[todo[1].name].whole
  PROVE  FinalizeInv'
<1> SUFFICES ASSUME NEW i \in DOMAIN todo', todo'[i].op = "finalize"
             PROVE  \/ /\ i = 1
                       /\ todo'[i].name \in DOMAIN ckpt' /\ ckpt'[todo'[i].name].whole
                    \/ i > 1 /\ todo'[i - 1].op = "end" /\ todo'[i - 1].name = todo'[i].name
  BY DEF FinalizeInv, Follows
<1> DEFINE k == i + 1
<1>1. k \in DOMAIN todo /\ todo'[i] = todo[k] /\ k > 1 /\ i \in Nat
  BY DEF Shifted
<1>2. todo[i].op = "end" /\ todo[i].name = todo[k].name
  BY <1>1 DEF FinalizeInv, Follows
<1>3. CASE i = 1
  BY <1>1, <1>2, <1>3
<1>4. CASE i # 1
  <2>1. i - 1 \in DOMAIN todo' /\ todo'[i - 1] = todo[i] /\ i > 1
    BY <1>1, <1>4 DEF Shifted
  <2> QED BY <1>1, <1>2, <2>1
<1> QED BY <1>3, <1>4

\* An unmarking that was second is prepared by the deletion.
LEMMA DeleteShift ==
  ASSUME DeleteInv, Shifted, todo[1].op = "delete" => todo[1].name \notin DOMAIN ckpt'
  PROVE  DeleteInv'
<1> SUFFICES ASSUME NEW i \in DOMAIN todo'
             PROVE  /\ todo'[i].op # "delete"
                    /\ todo'[i].op = "unmark" => i = 1 /\ todo'[i].name \notin DOMAIN ckpt'
  BY DEF DeleteInv, Follows
<1> DEFINE k == i + 1
<1>1. k \in DOMAIN todo /\ todo'[i] = todo[k] /\ k > 1 /\ i \in Nat /\ todo[k - 1] = todo[i]
  BY DEF Shifted
<1>2. todo[k].op # "delete"
  BY <1>1 DEF DeleteInv
<1>3. todo[k].op = "unmark" => k = 2 /\ todo[i].op = "delete" /\ todo[i].name = todo[k].name
  BY <1>1 DEF DeleteInv, Follows
<1> QED BY <1>1, <1>2, <1>3

\* An effect that adds no last checkpoint but the newest keeps it the newest.
LEMMA LastShift ==
  ASSUME LastInv, Shifted, phase' = phase, last_model_path' = last_model_path,
         global_step' = global_step,
         \A n \in DOMAIN ckpt' : n.kind = "last" =>
           n \in DOMAIN ckpt \/ (last_model_path # NULL /\ n.step <= last_model_path.step),
         \A n \in Pending' : n.kind = "last" =>
           n \in Pending \/ (last_model_path # NULL /\ n.step <= last_model_path.step)
  PROVE  LastInv'
BY DEF LastInv, Shifted, OnDisk

\* A removal that was second follows the save that outlives its victim.
LEMMA RemovalShift ==
  ASSUME RemovalInv, Shifted, training' = training, saved_step' >= saved_step,
         {saved_step, saved_step'} \subseteq Nat,
         training.async_save /\ todo[1].op \in {"finalize", "schedule"} =>
           Len(async_calls') >= 1 /\ async_calls'[Len(async_calls')].name = todo[1].name,
         ~training.async_save /\ todo[1].op \in {"finalize", "schedule"} /\ todo[1].name.kind = "last"
           => saved_step' >= todo[1].name.step
  PROVE  RemovalInv'
<1> SUFFICES ASSUME NEW i \in DOMAIN todo', todo'[i].name.kind = "last"
             PROVE  LET d == todo'[i].name
                    IN /\ todo'[i].op = "remove" =>
                            IF i > 1
                              THEN /\ todo'[i - 1].op \in {"finalize", "schedule"}
                                   /\ Outlives(todo'[i - 1].name, d)
                              ELSE IF training'.async_save
                                     THEN /\ Len(async_calls') >= 1
                                          /\ Outlives(async_calls'[Len(async_calls')].name, d)
                                     ELSE d.step < saved_step'
                       /\ todo'[i].op \in {"remove_deferred", "delete"} => d.step < saved_step'
  BY DEF RemovalInv, Outlives
<1> DEFINE k == i + 1
<1>1. /\ k \in DOMAIN todo /\ todo'[i] = todo[k] /\ k > 1 /\ i \in Nat /\ i >= 1
      /\ todo[k - 1] = todo[i]
  BY DEF Shifted
<1>2. todo[k].op \in {"remove_deferred", "delete"} => todo[k].name.step < saved_step'
  <2>1. todo[k].op \in {"remove_deferred", "delete"} => todo[k].name.step < saved_step
    BY <1>1 DEF RemovalInv
  <2>2. todo[k].name.step \in Nat
    BY <1>1 DEF Shifted
  <2> QED BY <2>1, <2>2
<1>3. todo[k].op = "remove" =>
        /\ todo[i].op \in {"finalize", "schedule"} /\ todo[i].name.kind = "last"
        /\ todo[k].name.step < todo[i].name.step
  BY <1>1 DEF RemovalInv, Outlives
<1>4. CASE i = 1
  <2>1. todo[k].name.step \in Nat /\ todo[1].name.step \in Nat
    BY <1>1 DEF Shifted
  <2> QED BY <1>1, <1>2, <1>3, <1>4, <2>1 DEF Outlives
<1>5. CASE i > 1
  <2>1. todo'[i - 1] = todo[i]
    BY <1>1, <1>5 DEF Shifted
  <2> QED BY <1>1, <1>2, <1>3, <1>5, <2>1 DEF Outlives
<1> QED BY <1>1, <1>4, <1>5

\* An exit is over once the finalization that was first has counted.
LEMMA ExitShift ==
  ASSUME ExitInv, Shifted, training' = training, phase' = phase, global_step' = global_step,
         exit_step' = exit_step, {exit_step, global_step, saved_step, saved_step'} \subseteq Nat,
         saved_step' >= saved_step,
         todo[1].op = "finalize" /\ todo[1].name.kind = "last" => saved_step' >= todo[1].name.step
  PROVE  ExitInv'
<1>1. ASSUME NEW i \in DOMAIN todo, todo[i].op = "finalize", todo[i].name.kind = "last",
             todo[i].name.step >= global_step
      PROVE  \/ saved_step' >= global_step
             \/ \E j \in DOMAIN todo' : /\ todo'[j].op = "finalize" /\ todo'[j].name.kind = "last"
                                       /\ todo'[j].name.step >= global_step
  <2>1. CASE i = 1
    BY <1>1, <2>1 DEF Shifted
  <2>2. CASE i # 1
    BY <1>1, <2>2 DEF Shifted
  <2> QED BY <2>1, <2>2
<1> QED BY <1>1 DEF ExitInv

\* What an effect has to grant for the parts of the invariant that follow the plan.
LEMMA ProceedKeeps ==
  ASSUME IndInv, todo # <<>>, Proceed, phase \in Working,
         training' = training, phase' = phase, global_step' = global_step,
         last_model_path' = last_model_path, exit_step' = exit_step,
         saved_step' \in Nat, saved_step' >= saved_step,
         saved_step' # saved_step => todo[1].op = "finalize" /\ todo[1].name.kind = "last",
         \A n \in DOMAIN ckpt' \cup Pending' :
           n \in DOMAIN ckpt \cup Pending \/ (n = todo[1].name /\ todo[1].op \in SaveOps),
         todo[1].op = "mark" => todo[1].name \in marked',
         todo[1].op = "end" => todo[1].name \in DOMAIN ckpt' /\ ckpt'[todo[1].name].whole,
         todo[1].op = "delete" => todo[1].name \notin DOMAIN ckpt',
         training.async_save => todo[1].op # "finalize",
         training.async_save /\ todo[1].op = "schedule" =>
           Len(async_calls') >= 1 /\ async_calls'[Len(async_calls')].name = todo[1].name,
         training.async_save /\ todo[1].op # "schedule" => async_calls' = async_calls,
         todo[1].op = "finalize" /\ todo[1].name.kind = "last" => saved_step' >= todo[1].name.step
  PROVE  /\ Shifted /\ todo' \in Seq(Ops) /\ todo[1].name \in Known
         /\ Finalizing = 0 /\ Finalizing' = 0
         /\ OpInv' /\ MarkInv' /\ WriteInv' /\ FinalizeInv' /\ DeleteInv' /\ LastInv'
         /\ RemovalInv' /\ ExitInv' /\ ResumeInv' /\ PruneInv' /\ CleanInv'
<1> USE DEF IndInv
<1>1. Shifted /\ todo' \in Seq(Ops) /\ todo[1].name \in Known
  BY ProceedIs
<1>2. OpInv' /\ WriteInv' /\ FinalizeInv' /\ DeleteInv'
  BY <1>1, OpShift, WriteShift, FinalizeShift, DeleteShift
<1>3. MarkInv'
  <2> SUFFICES ASSUME NEW i \in DOMAIN todo, todo[i].op = "mark", todo[i].name.kind = "last", i > 1,
                      saved_step' # 0
               PROVE  todo[i].name \notin DOMAIN ckpt' \cup Pending'
    BY <1>1, MarkShift
  <2>1. 1 \in 1 .. i - 1
    BY <1>1 DEF Shifted
  <2>2. todo[1].name # todo[i].name /\ todo[1].name.kind # "last"
    BY <2>1 DEF MarkInv
  <2>3. saved_step # 0
    BY <2>2
  <2>4. todo[i].name \notin DOMAIN ckpt \cup Pending
    BY <2>3 DEF MarkInv
  <2> QED BY <2>2, <2>4
<1>4. LastInv'
  <2>1. ASSUME NEW n \in DOMAIN ckpt' \cup Pending', n.kind = "last"
        PROVE  last_model_path # NULL /\ n.step <= last_model_path.step
    <3>1. CASE n \in DOMAIN ckpt
      BY <2>1, <3>1 DEF LastInv, OnDisk, Working, Training
    <3>2. CASE n \in Pending
      BY <2>1, <3>2 DEF LastInv
    <3>3. CASE n = todo[1].name /\ todo[1].op \in SaveOps
      BY <1>1, <2>1, <3>3 DEF LastInv, Shifted
    <3> QED BY <2>1, <3>1, <3>2, <3>3
  <2> QED BY <1>1, <2>1, LastShift
<1>5. RemovalInv'
  BY <1>1, RemovalShift DEF TypeOK, OpInv, Shifted
<1>6. ExitInv'
  BY <1>1, ExitShift DEF TypeOK
<1>7. Finalizing = 0 /\ Finalizing' = 0
  BY <1>1 DEF Finalizing, OpInv, Shifted
<1>8. ResumeInv' /\ PruneInv' /\ CleanInv'
  BY StartedLong
<1> QED BY <1>1, <1>2, <1>3, <1>4, <1>5, <1>6, <1>7, <1>8

-----------------------------------------------------------------------------
(* The effects.                                                            *)

\* The directory after a write.
LEMMA WriteIs ==
  ASSUME TypeOK, NEW n \in Known, NEW content \in Contents, Write(n, content)
  PROVE  /\ DOMAIN ckpt' = DOMAIN ckpt \cup {n} /\ ckpt'[n] = content
         /\ \A m \in DOMAIN ckpt : m # n => ckpt'[m] = ckpt[m]
         /\ DOMAIN ckpt' \subseteq Known /\ IsFiniteSet(DOMAIN ckpt')
         /\ \A m \in DOMAIN ckpt' : ckpt'[m] \in Contents
<1>1. IsFiniteSet(DOMAIN ckpt \cup {n})
  BY FS_AddElement DEF TypeOK
<1>2. /\ DOMAIN ckpt' = DOMAIN ckpt \cup {n} /\ ckpt'[n] = content
      /\ \A m \in DOMAIN ckpt : m # n => ckpt'[m] = ckpt[m]
  BY DEF Write
<1> QED BY <1>1, <1>2 DEF TypeOK

\* The directory after a removal.
LEMMA EraseIs ==
  ASSUME TypeOK, NEW n, Erase(n)
  PROVE  /\ DOMAIN ckpt' = DOMAIN ckpt \ {n}
         /\ \A m \in DOMAIN ckpt' : ckpt'[m] = ckpt[m]
         /\ DOMAIN ckpt' \subseteq Known /\ IsFiniteSet(DOMAIN ckpt')
         /\ \A m \in DOMAIN ckpt' : ckpt'[m] \in Contents
<1>1. IsFiniteSet(DOMAIN ckpt \ {n})
  BY FS_RemoveElement DEF TypeOK
<1>2. /\ DOMAIN ckpt' = DOMAIN ckpt \ {n}
      /\ \A m \in DOMAIN ckpt' : ckpt'[m] = ckpt[m]
  BY DEF Erase
<1> QED BY <1>1, <1>2 DEF TypeOK

\* Both halves of a checkpoint are contents.
LEMMA WhatIsWritten ==
  /\ Partial \in Contents
  /\ best_k_models \subseteq TopkNames => [whole |-> TRUE, best_k |-> best_k_models] \in Contents
BY DEF Partial, Contents

\* A name is marked before its data is written over, and no usable last checkpoint
\* that is needed is written over at all.
LEMMA MarkKeeps == ASSUME IndInv, Mark PROVE IndInv'
<1> USE DEF IndInv
<1>1. todo # <<>> /\ Proceed
  BY DEF Mark, Doing
<1>2. /\ training' = training /\ ckpt' = ckpt /\ global_step' = global_step
      /\ ckpt_path' = ckpt_path /\ last_model_path' = last_model_path
      /\ best_k_models' = best_k_models /\ async_calls' = async_calls
      /\ deferred_ckpts_to_remove' = deferred_ckpts_to_remove /\ starts' = starts
      /\ saved_step' = saved_step /\ exit_step' = exit_step
      /\ marked' = marked \cup {todo[1].name} /\ phase' = phase
      /\ todo[1].op = "mark"
  BY DEF Mark, Doing, memory, async, history, Subject, TypeOK
<1>3. phase \in Working
  BY <1>1, <1>2, EffectPhase
<1>4. Pending' = Pending /\ saved_step \in Nat
  BY <1>2 DEF Pending, TypeOK
<1>5. /\ Shifted /\ todo' \in Seq(Ops) /\ todo[1].name \in Known
      /\ Finalizing = 0 /\ Finalizing' = 0
      /\ OpInv' /\ MarkInv' /\ WriteInv' /\ FinalizeInv' /\ DeleteInv' /\ LastInv'
      /\ RemovalInv' /\ ExitInv' /\ ResumeInv' /\ PruneInv' /\ CleanInv'
  BY <1>1, <1>2, <1>3, <1>4, ProceedKeeps
<1>6. TypeOK' /\ PhaseInv'
  BY <1>2, <1>3, <1>5 DEF TypeOK, PhaseInv, Working
<1>7. SavedInv'
  BY <1>2, <1>5 DEF SavedInv, Usable, OnDisk, MarkInv, Shifted
<1>8. ListInv'
  BY <1>2, <1>5 DEF ListInv, CallOf, Outlives
<1>9. QueueInv'
  BY <1>2, <1>5 DEF QueueInv, Pending, Shifted
<1>10. WholeInv'
  BY <1>2, <1>3 DEF WholeInv, Working
<1> QED BY <1>5, <1>6, <1>7, <1>8, <1>9, <1>10

\* Unmarking ends a removal: what had the name is gone, or a later save of that name is whole.
LEMMA UnmarkKeeps == ASSUME IndInv, Unmark PROVE IndInv'
<1> USE DEF IndInv
<1>1. todo # <<>> /\ Proceed
  BY DEF Unmark, Doing
<1>2. /\ training' = training /\ ckpt' = ckpt /\ phase' = phase
      /\ global_step' = global_step /\ ckpt_path' = ckpt_path
      /\ last_model_path' = last_model_path /\ best_k_models' = best_k_models
      /\ async_calls' = async_calls /\ deferred_ckpts_to_remove' = deferred_ckpts_to_remove
      /\ starts' = starts /\ saved_step' = saved_step /\ exit_step' = exit_step
      /\ marked' = marked \ {todo[1].name} /\ todo[1].op = "unmark"
  BY DEF Unmark, Doing, memory, async, history, Subject, TypeOK
<1>3. phase \in Working
  BY <1>1, <1>2, EffectPhase
<1>4. Pending' = Pending /\ saved_step \in Nat
  BY <1>2 DEF Pending, TypeOK
<1>5. /\ Shifted /\ todo' \in Seq(Ops) /\ todo[1].name \in Known
      /\ Finalizing = 0 /\ Finalizing' = 0
      /\ OpInv' /\ MarkInv' /\ WriteInv' /\ FinalizeInv' /\ DeleteInv' /\ LastInv'
      /\ RemovalInv' /\ ExitInv' /\ ResumeInv' /\ PruneInv' /\ CleanInv'
  BY <1>1, <1>2, <1>3, <1>4, ProceedKeeps
<1>6. TypeOK' /\ PhaseInv'
  BY <1>2, <1>3, <1>5 DEF TypeOK, PhaseInv, Working
<1>7. SavedInv'
  BY <1>2, <1>5 DEF SavedInv, Usable, OnDisk
<1>8. ListInv'
  BY <1>2, <1>5 DEF ListInv, CallOf, Outlives
<1>9. QueueInv'
  BY <1>2, <1>5 DEF QueueInv, Pending, Shifted
<1>10. todo[1].name \in DOMAIN ckpt => ckpt[todo[1].name].whole
  BY <1>2, <1>5 DEF DeleteInv, Shifted
<1>11. WholeInv'
  BY <1>2, <1>3, <1>10 DEF WholeInv, Working
<1> QED BY <1>5, <1>6, <1>7, <1>8, <1>9, <1>11

\* A write goes to a marked name.
LEMMA BeginWriteKeeps == ASSUME IndInv, BeginWrite PROVE IndInv'
<1> USE DEF IndInv
<1>1. todo # <<>> /\ Proceed
  BY DEF BeginWrite, Doing
<1> DEFINE n == todo[1].name
<1>2. /\ training' = training /\ marked' = marked /\ phase' = phase
      /\ global_step' = global_step /\ ckpt_path' = ckpt_path
      /\ last_model_path' = last_model_path /\ best_k_models' = best_k_models
      /\ async_calls' = async_calls /\ deferred_ckpts_to_remove' = deferred_ckpts_to_remove
      /\ starts' = starts /\ saved_step' = saved_step /\ exit_step' = exit_step
      /\ Write(n, Partial) /\ todo[1].op = "begin"
  BY DEF BeginWrite, Doing, memory, async, history, Subject, TypeOK
<1>3. phase \in Working /\ n \in Known
  BY <1>1, <1>2, EffectPhase, ProceedIs
<1> HIDE DEF n
<1>a. Pending' = Pending /\ saved_step \in Nat
  BY <1>2 DEF Pending, TypeOK
<1>4. /\ DOMAIN ckpt' = DOMAIN ckpt \cup {n}
      /\ \A m \in DOMAIN ckpt : m # n => ckpt'[m] = ckpt[m]
      /\ DOMAIN ckpt' \subseteq Known /\ IsFiniteSet(DOMAIN ckpt')
      /\ \A m \in DOMAIN ckpt' : ckpt'[m] \in Contents
  BY <1>2, <1>3, WriteIs, WhatIsWritten
<1>5. /\ Shifted /\ todo' \in Seq(Ops) /\ todo[1].name \in Known
      /\ Finalizing = 0 /\ Finalizing' = 0
      /\ OpInv' /\ MarkInv' /\ WriteInv' /\ FinalizeInv' /\ DeleteInv' /\ LastInv'
      /\ RemovalInv' /\ ExitInv' /\ ResumeInv' /\ PruneInv' /\ CleanInv'
  BY <1>1, <1>2, <1>3, <1>4, <1>a, ProceedKeeps DEF n, SaveOps
<1>6. ~training.async_save /\ async_calls = <<>> /\ n \in marked
  BY <1>2, <1>5 DEF n, OpInv, PhaseInv, WriteInv, Follows, Shifted
<1>7. TypeOK' /\ PhaseInv'
  BY <1>2, <1>3, <1>4, <1>5 DEF TypeOK, PhaseInv, Working
<1>8. SavedInv'
  BY <1>2, <1>4, <1>6 DEF SavedInv, Usable, OnDisk
<1>9. ListInv'
  BY <1>2, <1>5 DEF ListInv, CallOf, Outlives
<1>10. QueueInv'
  <2>1. \A i \in DOMAIN todo' : todo'[i].op # "schedule"
    BY <1>2, <1>5, <1>6 DEF OpInv
  <2>2. DOMAIN async_calls' = {}
    BY <1>2, <1>6
  <2> QED BY <2>1, <2>2 DEF QueueInv
<1>11. WholeInv'
  BY <1>2, <1>3, <1>4, <1>6 DEF WholeInv, Working
<1> QED BY <1>5, <1>7, <1>8, <1>9, <1>10, <1>11

\* The write of a synchronous save ends.
LEMMA EndWriteKeeps == ASSUME IndInv, EndWrite PROVE IndInv'
<1> USE DEF IndInv
<1>1. todo # <<>> /\ Proceed
  BY DEF EndWrite, Doing
<1> DEFINE n == todo[1].name
           written == [whole |-> TRUE, best_k |-> best_k_models]
<1>2. /\ training' = training /\ marked' = marked /\ phase' = phase
      /\ global_step' = global_step /\ ckpt_path' = ckpt_path
      /\ last_model_path' = last_model_path /\ best_k_models' = best_k_models
      /\ async_calls' = async_calls /\ deferred_ckpts_to_remove' = deferred_ckpts_to_remove
      /\ starts' = starts /\ saved_step' = saved_step /\ exit_step' = exit_step
      /\ Write(n, written) /\ todo[1].op = "end"
  BY DEF EndWrite, Doing, memory, async, history, Subject, TypeOK
<1>3. phase \in Working /\ n \in Known /\ written \in Contents /\ written.whole
  BY <1>1, <1>2, EffectPhase, ProceedIs, WhatIsWritten DEF TypeOK
<1> HIDE DEF n, written
<1>a. Pending' = Pending /\ saved_step \in Nat
  BY <1>2 DEF Pending, TypeOK
<1>4. /\ DOMAIN ckpt' = DOMAIN ckpt \cup {n} /\ ckpt'[n] = written
      /\ \A m \in DOMAIN ckpt : m # n => ckpt'[m] = ckpt[m]
      /\ DOMAIN ckpt' \subseteq Known /\ IsFiniteSet(DOMAIN ckpt')
      /\ \A m \in DOMAIN ckpt' : ckpt'[m] \in Contents
  BY <1>2, <1>3, WriteIs
<1>5. /\ Shifted /\ todo' \in Seq(Ops) /\ todo[1].name \in Known
      /\ Finalizing = 0 /\ Finalizing' = 0
      /\ OpInv' /\ MarkInv' /\ WriteInv' /\ FinalizeInv' /\ DeleteInv' /\ LastInv'
      /\ RemovalInv' /\ ExitInv' /\ ResumeInv' /\ PruneInv' /\ CleanInv'
  BY <1>1, <1>2, <1>3, <1>4, <1>a, ProceedKeeps DEF n, SaveOps
<1>6. ~training.async_save /\ async_calls = <<>>
  BY <1>2, <1>5 DEF OpInv, PhaseInv, Shifted
<1>7. TypeOK' /\ PhaseInv'
  BY <1>2, <1>3, <1>4, <1>5 DEF TypeOK, PhaseInv, Working
<1>8. SavedInv'
  BY <1>2, <1>4 DEF SavedInv, Usable, OnDisk
<1>9. ListInv'
  BY <1>2, <1>5 DEF ListInv, CallOf, Outlives
<1>10. QueueInv'
  <2>1. \A i \in DOMAIN todo' : todo'[i].op # "schedule"
    BY <1>2, <1>5, <1>6 DEF OpInv
  <2>2. DOMAIN async_calls' = {}
    BY <1>2, <1>6
  <2> QED BY <2>1, <2>2 DEF QueueInv
<1>11. WholeInv'
  BY <1>2, <1>3, <1>4 DEF WholeInv, Working
<1> QED BY <1>5, <1>7, <1>8, <1>9, <1>10, <1>11

\* Nothing is planned.
LEMMA IdleIs ==
  ASSUME todo' = <<>>
  PROVE  /\ OpInv' /\ MarkInv' /\ WriteInv' /\ FinalizeInv' /\ DeleteInv' /\ RemovalInv'
         /\ Finalizing' = 0 /\ DOMAIN todo' = {} /\ todo' \in Seq(Ops)
<1>1. DOMAIN todo' = {} /\ todo' \in Seq(Ops)
  OBVIOUS
<1> QED
  BY <1>1 DEF OpInv, MarkInv, WriteInv, FinalizeInv, DeleteInv, RemovalInv, Finalizing

\* The last effect leaves nothing to do.
LEMMA NothingLeft ==
  ASSUME TypeOK, todo # <<>>, Proceed, Len(todo) <= 1
  PROVE  todo' = <<>>
<1>1. Shifted /\ todo' \in Seq(Ops)
  BY ProceedIs
<1>2. Len(todo') <= 0 /\ Len(todo') \in Nat
  BY <1>1 DEF Shifted
<1> QED BY <1>1, <1>2

\* The ranking of the others does not change when the worst of the excess goes.
LEMMA WorstRemoved ==
  ASSUME NEW U \in SUBSET TopkNames, IsFiniteSet(U), NEW k \in Nat, NEW d \in U,
         Cardinality(Better(U, d)) >= k,
         \A m \in U : Cardinality(Better(U, m)) >= k => m = d \/ Worse(d, m)
  PROVE  \A n \in U \ {d} : Better(U \ {d}, n) = Better(U, n)
<1> SUFFICES ASSUME NEW n \in U \ {d}, Worse(n, d) PROVE FALSE
  BY DEF Better
<1>1. /\ Cardinality(Better(U, d)) < Cardinality(Better(U, n))
      /\ Cardinality(Better(U, d)) \in Nat /\ Cardinality(Better(U, n)) \in Nat
  BY FewerBetter
<1>2. Worse(d, n)
  BY <1>1
<1> QED BY <1>2, WorseOrder

\* What counts as in excess once the worst of the excess is gone.
LEMMA ExcessWithout ==
  ASSUME TypeOK, NEW d \in Excess, \A m \in Excess : m = d \/ Worse(d, m),
         DOMAIN ckpt' = DOMAIN ckpt \ {d}, marked' = marked, training' = training
  PROVE  Excess' = Excess \ {d} /\ d.kind = "topk"
<1> DEFINE U == Usable("topk")
           V == U \ {d}
           k == training.save_top_k
<1>1. U \in SUBSET TopkNames /\ IsFiniteSet(U)
  <2>1. U \subseteq DOMAIN ckpt /\ \A n \in U : n.kind = "topk"
    BY DEF Usable, OnDisk
  <2>2. IsFiniteSet(U)
    BY <2>1, FS_Subset DEF TypeOK
  <2> HIDE DEF U
  <2> QED BY <2>1, <2>2, NameShape DEF TypeOK
<1>2. Excess = {n \in U : Cardinality(Better(U, n)) >= k}
  BY DEF Excess, Better
<1>3. Excess' = {n \in V : Cardinality(Better(V, n)) >= k}
  <2>1. {n \in DOMAIN ckpt' : n.kind = "topk"} \ marked' = V
    BY DEF Usable, OnDisk
  <2> HIDE DEF V
  <2> QED BY <2>1 DEF Excess, Better, Usable, OnDisk
<1>4. k \in Nat
  BY LifecycleAssumption DEF TypeOK
<1> HIDE DEF U, k
<1>5. \A n \in V : Better(V, n) = Better(U, n)
  <2>1. \A m \in U : Cardinality(Better(U, m)) >= k => m = d \/ Worse(d, m)
    BY <1>2
  <2>2. d \in U /\ Cardinality(Better(U, d)) >= k
    BY <1>2
  <2> QED BY <1>1, <1>4, <2>1, <2>2, WorstRemoved
<1>6. d.kind = "topk"
  BY <1>1, <1>2, NameShape
<1> QED BY <1>2, <1>3, <1>5, <1>6

\* Pruning takes the worst of the excess away, and nothing else.
LEMMA PruneOne ==
  ASSUME IndInv, phase = "init", NEW d \in Excess, \A m \in Excess : m = d \/ Worse(d, m),
         Erase(d), todo' = <<>>,
         training' = training, marked' = marked, phase' = phase, global_step' = global_step,
         ckpt_path' = ckpt_path, last_model_path' = last_model_path,
         best_k_models' = best_k_models, async_calls' = async_calls,
         deferred_ckpts_to_remove' = deferred_ckpts_to_remove, starts' = starts,
         saved_step' = saved_step, exit_step' = exit_step
  PROVE  IndInv'
<1> USE DEF IndInv
<1>1. Excess' = Excess \ {d} /\ d.kind = "topk"
  BY EraseIs, ExcessWithout
<1>2. /\ DOMAIN ckpt' = DOMAIN ckpt \ {d}
      /\ \A m \in DOMAIN ckpt' : ckpt'[m] = ckpt[m]
      /\ DOMAIN ckpt' \subseteq Known /\ IsFiniteSet(DOMAIN ckpt')
      /\ \A m \in DOMAIN ckpt' : ckpt'[m] \in Contents
  BY EraseIs
<1>3. /\ OpInv' /\ MarkInv' /\ WriteInv' /\ FinalizeInv' /\ DeleteInv' /\ RemovalInv'
      /\ Finalizing' = 0 /\ DOMAIN todo' = {} /\ todo' \in Seq(Ops)
  BY IdleIs
<1>4. async_calls' = <<>> /\ deferred_ckpts_to_remove' = <<>> /\ DOMAIN async_calls' = {}
  BY DEF PhaseInv
<1>5. TypeOK' /\ PhaseInv'
  BY <1>2, <1>3, <1>4 DEF TypeOK, PhaseInv
<1>6. LastInv'
  BY <1>3, <1>4 DEF LastInv, Pending, Training
<1>7. ResumeInv'
  BY <1>1, <1>2 DEF ResumeInv, Usable, OnDisk
<1>8. SavedInv'
  BY <1>1, <1>2 DEF SavedInv, Usable, OnDisk, Training
<1>9. ListInv'
  BY <1>3, <1>4 DEF ListInv
<1>10. QueueInv'
  BY <1>3, <1>4 DEF QueueInv
<1>11. ExitInv'
  BY DEF ExitInv
<1>12. WholeInv'
  BY <1>1, <1>2 DEF WholeInv
<1>13. PruneInv'
  BY <1>1, <1>2, <1>3 DEF PruneInv, Usable, OnDisk
<1>14. CleanInv'
  BY DEF CleanInv, CleanAtStart
<1> QED
  BY <1>3, <1>5, <1>6, <1>7, <1>8, <1>9, <1>10, <1>11, <1>12, <1>13, <1>14

\* A checkpoint is deleted under its marker, or is one that pruning chose.
LEMMA DeleteKeeps == ASSUME IndInv, Delete PROVE IndInv'
<1> USE DEF IndInv
<1>1. todo # <<>> /\ Proceed
  BY DEF Delete, Doing
<1> DEFINE n == todo[1].name
<1>2. /\ training' = training /\ marked' = marked /\ phase' = phase
      /\ global_step' = global_step /\ ckpt_path' = ckpt_path
      /\ last_model_path' = last_model_path /\ best_k_models' = best_k_models
      /\ async_calls' = async_calls /\ deferred_ckpts_to_remove' = deferred_ckpts_to_remove
      /\ starts' = starts /\ saved_step' = saved_step /\ exit_step' = exit_step
      /\ Erase(n) /\ todo[1].op = "delete"
  BY DEF Delete, Doing, memory, async, history, Subject, TypeOK
<1>3. Shifted /\ n \in Known
  BY <1>1, ProceedIs
<1>4. /\ DOMAIN ckpt' = DOMAIN ckpt \ {n}
      /\ \A m \in DOMAIN ckpt' : ckpt'[m] = ckpt[m]
      /\ DOMAIN ckpt' \subseteq Known /\ IsFiniteSet(DOMAIN ckpt')
      /\ \A m \in DOMAIN ckpt' : ckpt'[m] \in Contents
  BY <1>2, EraseIs
<1>5. CASE phase = "init"
  <2>1. 1 \in DOMAIN todo /\ Len(todo) \in Nat /\ DOMAIN todo = 1 .. Len(todo)
    BY <1>3 DEF Shifted
  <2>2. n \in Excess /\ \A m \in Excess : m = n \/ Worse(n, m)
    BY <1>5, <2>1 DEF PruneInv
  <2>3. \A i \in DOMAIN todo : i = 1
    BY <1>5 DEF PruneInv
  <2>4. Len(todo) <= 1
    BY <2>1, <2>3
  <2>5. todo' = <<>>
    BY <1>1, <1>3, <2>4, NothingLeft
  <2> HIDE DEF n
  <2> QED BY <1>2, <1>5, <2>2, <2>5, PruneOne
<1>6. CASE phase # "init"
  <2>1. phase \in Working
    BY <1>1, <1>6 DEF PhaseInv, TypeOK, Phases, Working
  <2>2. Pending' = Pending /\ saved_step \in Nat
    BY <1>2 DEF Pending, TypeOK
  <2>3. /\ Shifted /\ todo' \in Seq(Ops) /\ todo[1].name \in Known
        /\ Finalizing = 0 /\ Finalizing' = 0
        /\ OpInv' /\ MarkInv' /\ WriteInv' /\ FinalizeInv' /\ DeleteInv' /\ LastInv'
        /\ RemovalInv' /\ ExitInv' /\ ResumeInv' /\ PruneInv' /\ CleanInv'
    BY <1>1, <1>2, <1>4, <2>1, <2>2, ProceedKeeps
  <2>4. n \in marked /\ (n.kind = "last" => n.step < saved_step)
    BY <1>2, <1>3, <1>6 DEF DeleteInv, RemovalInv, Shifted
  <2> HIDE DEF n
  <2>5. TypeOK' /\ PhaseInv'
    BY <1>2, <1>4, <2>1, <2>3 DEF TypeOK, PhaseInv, Working
  <2>6. SavedInv'
    BY <1>2, <1>4, <2>4 DEF SavedInv, Usable, OnDisk
  <2>7. ListInv'
    BY <1>2, <2>3 DEF ListInv, CallOf, Outlives
  <2>8. QueueInv'
    <3> SUFFICES ASSUME phase # "exiting", NEW i \in DOMAIN async_calls,
                        async_calls[i].written, async_calls[i].name.kind = "last"
                 PROVE  async_calls[i].name # n
      BY <1>2, <1>4, <2>2, <2>3 DEF QueueInv, Shifted
    <3>1. saved_step <= async_calls[i].name.step
      BY DEF QueueInv
    <3>2. n.step \in Nat
      BY <1>3, NameShape
    <3> QED BY <2>2, <2>4, <3>1, <3>2
  <2>9. WholeInv'
    BY <1>2, <1>4, <2>1 DEF WholeInv, Working
  <2> QED BY <2>3, <2>5, <2>6, <2>7, <2>8, <2>9
<1> QED BY <1>5, <1>6

\* Handing a save to the writers: its name is marked, and no other pending save has it.
LEMMA ScheduleKeeps == ASSUME IndInv, Schedule PROVE IndInv'
<1> USE DEF IndInv
<1>1. todo # <<>> /\ Proceed
  BY DEF Schedule, Doing
<1> DEFINE n == todo[1].name
           call == [name |-> n, best_k |-> best_k_models, written |-> FALSE]
           l == Len(async_calls) + 1
<1>2. /\ training' = training /\ marked' = marked /\ phase' = phase
      /\ global_step' = global_step /\ ckpt_path' = ckpt_path
      /\ last_model_path' = last_model_path /\ best_k_models' = best_k_models
      /\ starts' = starts /\ saved_step' = saved_step /\ exit_step' = exit_step
      /\ Write(n, Partial) /\ todo[1].op = "schedule"
      /\ async_calls' = Append(async_calls, call)
      /\ deferred_ckpts_to_remove' = Append(deferred_ckpts_to_remove, <<>>)
  <2>1. Subject = n /\ (Doing("schedule") => todo[1].op = "schedule")
    BY <1>1, ProceedIs DEF Doing, TypeOK
  <2> QED BY <2>1 DEF Schedule, memory, history
<1>3. phase \in Working /\ n \in Known /\ Shifted
  BY <1>1, <1>2, EffectPhase, ProceedIs
<1>4. call \in Calls /\ call.name = n /\ ~call.written
  BY <1>3 DEF Calls, TypeOK
<1> HIDE DEF n, call
<1>5. /\ async_calls' \in Seq(Calls) /\ Len(async_calls) \in Nat
      /\ Len(async_calls') = l /\ l >= 1 /\ DOMAIN async_calls' = 1 .. l
      /\ DOMAIN async_calls = 1 .. Len(async_calls)
      /\ \A i \in DOMAIN async_calls' : i \in DOMAIN async_calls \/ i = l
      /\ \A i \in DOMAIN async_calls : i < l /\ async_calls'[i] = async_calls[i]
      /\ async_calls'[l] = call
  BY <1>2, <1>4 DEF TypeOK
<1>6. /\ deferred_ckpts_to_remove' \in Seq(Seq(Known))
      /\ Len(deferred_ckpts_to_remove) \in Nat
      /\ Len(deferred_ckpts_to_remove') = Len(deferred_ckpts_to_remove) + 1
      /\ \A i \in DOMAIN deferred_ckpts_to_remove' :
           \/ /\ i \in DOMAIN deferred_ckpts_to_remove
              /\ deferred_ckpts_to_remove'[i] = deferred_ckpts_to_remove[i]
           \/ DOMAIN deferred_ckpts_to_remove'[i] = {}
      /\ DOMAIN deferred_ckpts_to_remove = 1 .. Len(deferred_ckpts_to_remove)
  BY <1>2 DEF TypeOK
<1>7. Pending' = Pending \cup {n}
  BY <1>4, <1>5 DEF Pending
<1>8. /\ DOMAIN ckpt' = DOMAIN ckpt \cup {n}
      /\ \A m \in DOMAIN ckpt : m # n => ckpt'[m] = ckpt[m]
      /\ DOMAIN ckpt' \subseteq Known /\ IsFiniteSet(DOMAIN ckpt')
      /\ \A m \in DOMAIN ckpt' : ckpt'[m] \in Contents
  BY <1>2, <1>3, WriteIs, WhatIsWritten
<1>9. saved_step \in Nat
  BY DEF TypeOK
<1>10. training.async_save /\ n \in marked /\ n.step = global_step /\ phase # "batch_end"
  BY <1>2, <1>3 DEF n, OpInv, WriteInv, Follows, Shifted
<1> HIDE DEF l
<1>11. /\ Shifted /\ todo' \in Seq(Ops) /\ todo[1].name \in Known
      /\ Finalizing = 0 /\ Finalizing' = 0
      /\ OpInv' /\ MarkInv' /\ WriteInv' /\ FinalizeInv' /\ DeleteInv' /\ LastInv'
      /\ RemovalInv' /\ ExitInv' /\ ResumeInv' /\ PruneInv' /\ CleanInv'
  BY <1>1, <1>2, <1>3, <1>4, <1>5, <1>7, <1>8, <1>9, ProceedKeeps DEF n, SaveOps
<1>12. TypeOK' /\ PhaseInv'
  BY <1>2, <1>3, <1>5, <1>6, <1>8, <1>10, <1>11 DEF TypeOK, PhaseInv, Working
<1>13. SavedInv'
  BY <1>2, <1>8, <1>10 DEF SavedInv, Usable, OnDisk
<1>14. ListInv'
  BY <1>5, <1>6, <1>11 DEF ListInv, CallOf, Outlives, l
<1>15. QueueInv'
  <2>1. n.kind = "last" => saved_step <= n.step
    <3> SUFFICES ASSUME n.kind = "last", saved_step > 0 PROVE saved_step <= n.step
      BY <1>3, <1>9, NameShape
    <3>1. n = last_model_path
      BY <1>2, <1>3 DEF LastInv, SaveOps, Shifted, n
    <3> QED BY <1>3, <3>1 DEF SavedInv, Working, Training
  <2> SUFFICES ASSUME phase # "exiting"
      PROVE  /\ \A i \in DOMAIN async_calls' :
                  LET m == async_calls'[i].name
                  IN /\ m.step <= global_step
                     /\ m.kind = "last" => saved_step <= m.step
                     /\ async_calls'[i].written =>
                          /\ m \in DOMAIN ckpt' => ckpt'[m].whole
                          /\ m.kind = "last" => m \in DOMAIN ckpt'
                     /\ \A j \in DOMAIN async_calls' :
                          i < j /\ m.kind = "last" /\ async_calls'[j].name.kind = "last" =>
                            m.step <= async_calls'[j].name.step
             /\ \A i \in DOMAIN todo' : todo'[i].op = "schedule" => todo'[i].name \notin Pending'
    BY <1>2, <1>10, <1>11 DEF QueueInv
  <2>2. n \notin Pending
    BY <1>2, <1>3 DEF QueueInv, Shifted, n
  <2>3. \A i \in DOMAIN async_calls : async_calls[i].name \in Pending
    BY DEF Pending
  <2>4. ASSUME NEW i \in DOMAIN todo', todo'[i].op = "schedule" PROVE todo'[i].name \notin Pending'
    <3> DEFINE k == i + 1
    <3>1. k \in DOMAIN todo /\ todo'[i] = todo[k] /\ k > 1 /\ todo[k - 1] = todo[i] /\ i \in DOMAIN todo
      BY <1>3 DEF Shifted
    <3>2. todo[i].op = "mark" /\ todo[i].name = todo[k].name
      BY <2>4, <3>1 DEF WriteInv, Follows
    <3>3. i \in Nat /\ i # 1
      BY <1>2, <1>3, <3>2 DEF Shifted
    <3>4. 1 \in 1 .. i - 1
      BY <1>3, <3>3 DEF Shifted
    <3>5. todo[k].name # n
      BY <3>1, <3>2, <3>4 DEF MarkInv, n
    <3> QED BY <1>7, <2>4, <3>1, <3>5 DEF QueueInv
  <2>5. \A i \in DOMAIN async_calls' : async_calls'[i].name.step <= global_step
    <3>1. global_step <= global_step
      BY DEF TypeOK
    <3>2. \A i \in DOMAIN async_calls : async_calls[i].name.step <= global_step
      BY DEF QueueInv
    <3> QED BY <1>4, <1>5, <1>10, <3>1, <3>2
  <2>6. \A i \in DOMAIN async_calls' : async_calls'[i].name.kind = "last" =>
          saved_step <= async_calls'[i].name.step
    BY <1>4, <1>5, <2>1 DEF QueueInv
  <2>7. ASSUME NEW i \in DOMAIN async_calls', async_calls'[i].written
        PROVE  LET m == async_calls'[i].name
               IN /\ m \in DOMAIN ckpt' => ckpt'[m].whole
                  /\ m.kind = "last" => m \in DOMAIN ckpt'
    BY <1>4, <1>5, <1>8, <2>2, <2>3, <2>7 DEF QueueInv
  <2>8. ASSUME NEW i \in DOMAIN async_calls', NEW j \in DOMAIN async_calls', i < j,
               async_calls'[i].name.kind = "last", async_calls'[j].name.kind = "last"
        PROVE  async_calls'[i].name.step <= async_calls'[j].name.step
    <3>1. i \in DOMAIN async_calls
      BY <1>5, <2>8
    <3>2. CASE j \in DOMAIN async_calls
      BY <1>5, <2>8, <3>1, <3>2 DEF QueueInv
    <3>3. CASE j = l
      BY <1>4, <1>5, <1>10, <2>5, <3>1, <3>3
    <3> QED BY <1>5, <3>2, <3>3
  <2> QED BY <2>4, <2>5, <2>6, <2>7, <2>8
<1>16. WholeInv'
  BY <1>2, <1>3, <1>8, <1>10 DEF WholeInv, Working
<1> QED BY <1>11, <1>12, <1>13, <1>14, <1>15, <1>16

\* A removal that waits joins the list of the newest pending save.
LEMMA DeferKeeps ==
  ASSUME IndInv, _remove_checkpoint, Doing("remove"), training.async_save
  PROVE  IndInv'
<1> USE DEF IndInv
<1>1. todo # <<>> /\ Proceed
  BY DEF _remove_checkpoint, Doing
<1> DEFINE d == todo[1].name
           l == Len(deferred_ckpts_to_remove)
<1>2. Subject = d /\ todo[1].op = "remove"
  BY <1>1, ProceedIs DEF Doing, TypeOK
<1>3. /\ training' = training /\ ckpt' = ckpt /\ marked' = marked /\ phase' = phase
      /\ global_step' = global_step /\ ckpt_path' = ckpt_path
      /\ last_model_path' = last_model_path /\ best_k_models' = best_k_models
      /\ async_calls' = async_calls /\ starts' = starts /\ saved_step' = saved_step
      /\ exit_step' = exit_step
      /\ deferred_ckpts_to_remove' =
           [deferred_ckpts_to_remove EXCEPT ![l] = Append(@, d)]
  BY <1>2 DEF _remove_checkpoint, Doing, memory, history
<1>4. phase \in Working /\ d \in Known /\ Shifted
  BY <1>1, <1>2, EffectPhase, ProceedIs
<1> HIDE DEF d
<1>5. /\ deferred_ckpts_to_remove \in Seq(Seq(Known)) /\ l \in Nat
      /\ DOMAIN deferred_ckpts_to_remove = 1 .. l
      /\ \A i \in 1 .. l : deferred_ckpts_to_remove[i] \in Seq(Known)
  BY DEF TypeOK
<1> HIDE DEF l
<1>6. /\ deferred_ckpts_to_remove' \in Seq(Seq(Known)) /\ Len(deferred_ckpts_to_remove') = l
      /\ \A i \in 1 .. l : i # l => deferred_ckpts_to_remove'[i] = deferred_ckpts_to_remove[i]
      /\ DOMAIN deferred_ckpts_to_remove' = 1 .. l
      /\ l > 0 => deferred_ckpts_to_remove'[l] = Append(deferred_ckpts_to_remove[l], d)
  <2>1. /\ DOMAIN deferred_ckpts_to_remove' = 1 .. l
        /\ \A i \in 1 .. l : i # l => deferred_ckpts_to_remove'[i] = deferred_ckpts_to_remove[i]
        /\ l > 0 => deferred_ckpts_to_remove'[l] = Append(deferred_ckpts_to_remove[l], d)
    BY <1>3, <1>5
  <2>2. \A i \in 1 .. l : deferred_ckpts_to_remove'[i] \in Seq(Known)
    <3> SUFFICES ASSUME NEW i \in 1 .. l PROVE deferred_ckpts_to_remove'[i] \in Seq(Known)
      OBVIOUS
    <3>1. deferred_ckpts_to_remove[i] \in Seq(Known) /\ l > 0
      BY <1>5
    <3>2. Append(deferred_ckpts_to_remove[i], d) \in Seq(Known)
      BY <1>4, <3>1
    <3> QED BY <2>1, <3>1, <3>2
  <2>3. deferred_ckpts_to_remove' \in [1 .. l -> Seq(Known)]
    <3>1. deferred_ckpts_to_remove' = [i \in 1 .. l |-> deferred_ckpts_to_remove'[i]]
      BY <1>3, <1>5, <2>1
    <3> QED BY <2>2, <3>1
  <2> QED BY <1>5, <2>1, <2>3
<1>7. l > 0 => \A k \in DOMAIN deferred_ckpts_to_remove'[l] :
        \/ deferred_ckpts_to_remove'[l][k] = d
        \/ /\ k \in DOMAIN deferred_ckpts_to_remove[l]
           /\ deferred_ckpts_to_remove'[l][k] = deferred_ckpts_to_remove[l][k]
  <2> SUFFICES ASSUME l > 0
               PROVE  LET s == deferred_ckpts_to_remove[l] IN
                      \A k \in DOMAIN Append(s, d) :
                        Append(s, d)[k] = d \/ (k \in DOMAIN s /\ Append(s, d)[k] = s[k])
    BY <1>6
  <2>1. deferred_ckpts_to_remove[l] \in Seq(Known)
    BY <1>5
  <2> QED BY <1>4, <2>1
<1>8. Pending' = Pending /\ saved_step \in Nat
  BY <1>3 DEF Pending, TypeOK
<1>9. /\ Shifted /\ todo' \in Seq(Ops) /\ todo[1].name \in Known
      /\ Finalizing = 0 /\ Finalizing' = 0
      /\ OpInv' /\ MarkInv' /\ WriteInv' /\ FinalizeInv' /\ DeleteInv' /\ LastInv'
      /\ RemovalInv' /\ ExitInv' /\ ResumeInv' /\ PruneInv' /\ CleanInv'
  BY <1>1, <1>2, <1>3, <1>4, <1>8, ProceedKeeps
<1>10. TypeOK' /\ PhaseInv'
  BY <1>3, <1>4, <1>6, <1>9 DEF TypeOK, PhaseInv, Working
<1>11. SavedInv'
  BY <1>3 DEF SavedInv, Usable, OnDisk
<1>12. ListInv'
  <2>1. l = Len(async_calls)
    BY <1>5, <1>9 DEF ListInv, l
  <2>2. d.kind = "last" => l > 0 /\ Outlives(async_calls[l].name, d)
    BY <1>2, <1>4, <1>5, <2>1 DEF RemovalInv, Shifted, d
  <2> SUFFICES ASSUME NEW i \in 1 .. l, NEW k \in DOMAIN deferred_ckpts_to_remove'[i],
                      deferred_ckpts_to_remove'[i][k].kind = "last"
               PROVE  Outlives(async_calls[i].name, deferred_ckpts_to_remove'[i][k])
    <3>1. Len(deferred_ckpts_to_remove') = Len(async_calls') + Finalizing'
      <4>1. Len(async_calls) + 0 = Len(async_calls)
        BY DEF TypeOK
      <4>2. Len(async_calls') + Finalizing' = l
        BY <1>3, <1>9, <2>1, <4>1
      <4> QED BY <1>6, <4>2
    <3> QED BY <1>3, <1>6, <1>9, <3>1, ZenonT(30) DEF ListInv, Outlives, CallOf
  <2>3. \A j \in DOMAIN deferred_ckpts_to_remove[i] : deferred_ckpts_to_remove[i][j].kind = "last" =>
          Outlives(async_calls[i].name, deferred_ckpts_to_remove[i][j])
    BY <1>5, <1>9 DEF ListInv, Outlives, CallOf
  <2>4. CASE i = l
    <3>1. l > 0
      BY <1>5, <2>4
    <3> QED BY <1>7, <2>2, <2>3, <2>4, <3>1
  <2>5. CASE i # l
    BY <1>6, <2>3, <2>5
  <2> QED BY <2>4, <2>5
<1>13. QueueInv'
  BY <1>3, <1>9 DEF QueueInv, Pending, Shifted
<1>14. WholeInv'
  BY <1>3, <1>4 DEF WholeInv, Working
<1> QED BY <1>9, <1>10, <1>11, <1>12, <1>13, <1>14

\* What is left to do when a removal begins.
LEMMA RemoveForGoodIs ==
  ASSUME TypeOK, todo # <<>>, RemoveForGood
  PROVE  LET d == todo[1].name
         IN /\ Subject = d /\ d \in Known
            /\ marked' = marked \cup {d} /\ deferred_ckpts_to_remove' = deferred_ckpts_to_remove
            /\ todo' \in Seq(Ops) /\ Len(todo) \in Nat /\ Len(todo) >= 1
            /\ DOMAIN todo = 1 .. Len(todo) /\ DOMAIN todo' = 1 .. Len(todo')
            /\ Len(todo') = Len(todo) + 1
            /\ todo'[1] = Do("delete", d) /\ todo'[2] = Do("unmark", d)
            /\ \A i \in DOMAIN todo' : i \in Nat /\ i >= 1
            /\ \A i \in DOMAIN todo' : i > 2 =>
                 i - 1 \in DOMAIN todo /\ i - 1 > 1 /\ todo'[i] = todo[i - 1]
            /\ \A i \in DOMAIN todo : i > 1 => i + 1 \in DOMAIN todo' /\ todo'[i + 1] = todo[i]
<1> DEFINE d == todo[1].name
           two == <<Do("delete", d), Do("unmark", d)>>
<1>1. todo \in Seq(Ops) /\ Len(todo) \in Nat /\ Len(todo) >= 1 /\ Head(todo) = todo[1] /\ todo[1] \in Ops
  BY DEF TypeOK
<1>2. Subject = d /\ d \in Known
  BY <1>1 DEF Subject, Ops
<1>3. Do("delete", d) \in Ops /\ Do("unmark", d) \in Ops
  BY <1>2 DEF Do, Ops
<1> HIDE DEF d, Ops
<1>4. two \in Seq(Ops) /\ Len(two) = 2 /\ two[1] = Do("delete", d) /\ two[2] = Do("unmark", d)
  BY <1>3
<1>5. Tail(todo) \in Seq(Ops) /\ Len(Tail(todo)) = Len(todo) - 1
  BY <1>1
<1>6. todo' = two \o Tail(todo) /\ marked' = marked \cup {d}
      /\ deferred_ckpts_to_remove' = deferred_ckpts_to_remove
  BY <1>2 DEF RemoveForGood
<1> DEFINE rest == Tail(todo)
<1>7. \A i \in 1 .. Len(rest) : rest[i] = todo[i + 1]
  BY <1>1, <1>5
<1> HIDE DEF rest, two
<1>8. /\ todo' \in Seq(Ops) /\ Len(todo') = Len(todo) + 1
      /\ DOMAIN todo = 1 .. Len(todo) /\ DOMAIN todo' = 1 .. Len(todo')
      /\ todo'[1] = two[1] /\ todo'[2] = two[2]
      /\ \A i \in 1 .. Len(todo') : i > 2 => todo'[i] = rest[i - 2]
  <2>1. rest \in Seq(Ops) /\ Len(rest) = Len(todo) - 1 /\ todo' = two \o rest
    BY <1>5, <1>6 DEF rest
  <2>2. /\ todo' \in Seq(Ops) /\ Len(todo') = Len(two) + Len(rest)
        /\ \A i \in 1 .. Len(two) + Len(rest) :
             todo'[i] = IF i <= Len(two) THEN two[i] ELSE rest[i - Len(two)]
    BY <1>4, <2>1, ConcatProperties
  <2>3. /\ DOMAIN todo' = 1 .. Len(todo')
        /\ \A i \in 1 .. Len(todo') : todo'[i] = IF i <= Len(two) THEN two[i] ELSE rest[i - Len(two)]
    BY <2>2
  <2>4. Len(todo') = Len(todo) + 1 /\ 1 \in 1 .. Len(todo') /\ 2 \in 1 .. Len(todo')
    BY <1>1, <1>4, <2>1, <2>2
  <2>5. \A i \in 1 .. Len(todo') : i > 2 => todo'[i] = rest[i - 2]
    BY <1>4, <2>3
  <2>6. todo'[1] = two[1] /\ todo'[2] = two[2]
    BY <1>4, <2>3, <2>4
  <2>7. DOMAIN todo = 1 .. Len(todo)
    BY <1>1
  <2>8. todo' \in Seq(Ops)
    BY <2>2
  <2>9. Len(todo') = Len(todo) + 1 /\ DOMAIN todo' = 1 .. Len(todo')
    BY <2>3, <2>4
  <2> HIDE DEF two, rest
  <2> QED BY ONLY <2>5, <2>6, <2>7, <2>8, <2>9
<1>9. \A i \in DOMAIN todo' : i > 2 =>
        i - 1 \in DOMAIN todo /\ i - 1 > 1 /\ todo'[i] = todo[i - 1]
  <2> SUFFICES ASSUME NEW i \in DOMAIN todo', i > 2
               PROVE  i - 1 \in DOMAIN todo /\ i - 1 > 1 /\ todo'[i] = todo[i - 1]
    OBVIOUS
  <2>1. i - 2 \in 1 .. Len(rest) /\ (i - 2) + 1 = i - 1 /\ i - 1 \in DOMAIN todo /\ i - 1 > 1
    BY <1>1, <1>5, <1>8 DEF rest
  <2> QED BY <1>7, <1>8, <2>1
<1>10. \A i \in DOMAIN todo : i > 1 => i + 1 \in DOMAIN todo' /\ todo'[i + 1] = todo[i]
  <2> SUFFICES ASSUME NEW i \in DOMAIN todo, i > 1
               PROVE  i + 1 \in DOMAIN todo' /\ todo'[i + 1] = todo[i]
    OBVIOUS
  <2>1. i + 1 \in DOMAIN todo' /\ i + 1 > 2 /\ (i + 1) - 1 = i
    BY <1>1, <1>8
  <2> QED BY <1>9, <2>1
<1> QED BY <1>1, <1>2, <1>4, <1>6, <1>8, <1>9, <1>10, SMTT(30) DEF d

\* A removal marks first; what it takes away is older than a usable last checkpoint.
LEMMA RemovalKeeps ==
  ASSUME IndInv, _remove_checkpoint, RemoveForGood,
         Doing("remove_deferred") \/ (Doing("remove") /\ ~training.async_save)
  PROVE  IndInv'
<1> USE DEF IndInv
<1>1. todo # <<>>
  BY DEF Doing
<1> DEFINE d == todo[1].name
<1>2. todo[1].op = "remove_deferred" \/ (todo[1].op = "remove" /\ ~training.async_save)
  BY <1>1 DEF Doing, TypeOK
<1>3. /\ training' = training /\ ckpt' = ckpt /\ phase' = phase
      /\ global_step' = global_step /\ ckpt_path' = ckpt_path
      /\ last_model_path' = last_model_path /\ best_k_models' = best_k_models
      /\ async_calls' = async_calls /\ starts' = starts /\ saved_step' = saved_step
      /\ exit_step' = exit_step
  BY DEF _remove_checkpoint, memory, history
<1>4. /\ Subject = d /\ d \in Known
      /\ marked' = marked \cup {d} /\ deferred_ckpts_to_remove' = deferred_ckpts_to_remove
      /\ todo' \in Seq(Ops) /\ Len(todo) \in Nat /\ Len(todo) >= 1
      /\ DOMAIN todo = 1 .. Len(todo) /\ DOMAIN todo' = 1 .. Len(todo')
      /\ Len(todo') = Len(todo) + 1
      /\ todo'[1] = Do("delete", d) /\ todo'[2] = Do("unmark", d)
      /\ \A i \in DOMAIN todo' : i \in Nat /\ i >= 1
      /\ \A i \in DOMAIN todo' : i > 2 =>
           i - 1 \in DOMAIN todo /\ i - 1 > 1 /\ todo'[i] = todo[i - 1]
      /\ \A i \in DOMAIN todo : i > 1 => i + 1 \in DOMAIN todo' /\ todo'[i + 1] = todo[i]
  BY <1>1, RemoveForGoodIs
<1>5. 1 \in DOMAIN todo
  BY <1>4
<1>6. phase \in Working
  BY <1>1, <1>2, EffectPhase
<1>7. d.kind = "last" => d.step < saved_step
  BY <1>2, <1>5 DEF RemovalInv
<1> HIDE DEF d
<1>8. /\ todo'[1].op = "delete" /\ todo'[1].name = d
      /\ todo'[2].op = "unmark" /\ todo'[2].name = d
  BY <1>4 DEF Do
<1>9. Pending' = Pending
  BY <1>3 DEF Pending
<1>10. TypeOK' /\ PhaseInv'
  BY <1>3, <1>4, <1>6 DEF TypeOK, PhaseInv, Working
\* Where an effect of the new plan comes from.
<1>11. ASSUME NEW i \in DOMAIN todo', todo'[i].op \notin {"delete", "unmark"}
       PROVE  i > 2 /\ i - 1 \in DOMAIN todo /\ i - 1 > 1 /\ todo'[i] = todo[i - 1]
  BY <1>4, <1>8, <1>11
<1>13. \A k \in DOMAIN todo : k > 1 => todo[k].op \notin {"delete", "unmark"}
  <2> SUFFICES ASSUME NEW k \in DOMAIN todo, k > 1, todo[k].op = "unmark" PROVE FALSE
    BY DEF DeleteInv
  <2>1. k = 2 /\ todo[k - 1].op = "delete"
    BY DEF DeleteInv, Follows
  <2> QED BY <1>2, <2>1
<1>14. OpInv'
  <2> SUFFICES ASSUME NEW i \in DOMAIN todo', i > 2
               PROVE  /\ training.async_save => todo'[i].op \notin {"begin", "end"}
                      /\ ~training.async_save => todo'[i].op \notin {"schedule", "remove_deferred"}
                      /\ ~(training.async_save /\ todo'[i].op = "finalize")
                      /\ phase # "init"
                      /\ phase = "batch_end" => todo'[i].op \notin {"mark", "begin", "schedule"}
    BY <1>3, <1>4, <1>6, <1>8 DEF OpInv, Working
  <2>1. i - 1 \in DOMAIN todo /\ todo'[i] = todo[i - 1] /\ Len(todo) > 1
    BY <1>4
  <2> QED BY <1>6, <2>1 DEF OpInv, Working
<1>15. MarkInv'
  <2> SUFFICES ASSUME NEW i \in DOMAIN todo', todo'[i].op = "mark"
               PROVE  LET n == todo'[i].name
                      IN /\ i < Len(todo') /\ todo'[i + 1].op \in {"begin", "schedule"}
                         /\ todo'[i + 1].name = n
                         /\ n.kind = "last" => saved_step = 0 \/ n \notin DOMAIN ckpt \cup Pending
                         /\ \A j \in 1 .. i - 1 :
                              todo'[j].name # n /\ ~(n.kind = "last" /\ todo'[j].name.kind = "last")
    BY <1>3, <1>9 DEF MarkInv
  <2> DEFINE k == i - 1
  <2>1. k \in DOMAIN todo /\ k > 1 /\ todo'[i] = todo[k] /\ k + 1 = i /\ k < Len(todo)
    BY <1>4, <1>11 DEF MarkInv
  <2>2. i \in DOMAIN todo /\ i > 1 /\ i < Len(todo')
    BY <1>4, <2>1
  <2>3. todo'[i + 1] = todo[i]
    BY <1>4, <2>2
  <2>4. ASSUME NEW j \in 1 .. i - 1
        PROVE  todo'[j].name # todo[k].name
               /\ ~(todo[k].name.kind = "last" /\ todo'[j].name.kind = "last")
    <3>1. CASE j \in {1, 2}
      <4>1. 1 \in 1 .. k - 1 /\ todo'[j].name = todo[1].name
        BY <1>8, <2>1, <3>1 DEF d
      <4> QED BY <2>1, <4>1 DEF MarkInv
    <3>2. CASE j \notin {1, 2}
      <4>1. j \in DOMAIN todo' /\ j > 2
        BY <1>4, <3>2
      <4>2. j - 1 \in 1 .. k - 1 /\ todo'[j] = todo[j - 1]
        BY <1>4, <4>1
      <4> QED BY <2>1, <4>2 DEF MarkInv
    <3> QED BY <3>1, <3>2
  <2>5. todo[k].op = "mark" /\ todo[k + 1].op \in {"begin", "schedule"} /\ todo[k + 1].name = todo[k].name
        /\ (todo[k].name.kind = "last" => saved_step = 0 \/ todo[k].name \notin DOMAIN ckpt \cup Pending)
    BY <2>1 DEF MarkInv
  <2> HIDE DEF k
  <2> QED BY <2>1, <2>2, <2>3, <2>4, <2>5
\* What comes right before an effect of the new plan.
<1>16. ASSUME NEW i \in DOMAIN todo', i > 2
       PROVE  /\ i - 1 \in DOMAIN todo /\ i - 1 > 1 /\ todo'[i] = todo[i - 1] /\ (i - 1) - 1 = i - 2
              /\ todo[i - 2] = todo[1] \/ todo'[i - 1] = todo[i - 2]
  <2>1. i \in Nat /\ i - 1 \in DOMAIN todo /\ i - 1 > 1 /\ todo'[i] = todo[i - 1]
    BY <1>4, <1>16
  <2>2. CASE i = 3
    BY <2>1, <2>2
  <2>3. CASE i # 3
    <3>1. i - 2 \in DOMAIN todo /\ i - 2 > 1 /\ (i - 2) + 1 = i - 1
      BY <1>4, <1>16, <2>1, <2>3
    <3>2. todo'[(i - 2) + 1] = todo[i - 2]
      <4> DEFINE k == i - 2
      <4>1. k \in DOMAIN todo /\ k > 1
        BY <3>1
      <4> HIDE DEF k
      <4>2. todo'[k + 1] = todo[k]
        BY <1>4, <4>1
      <4> QED BY <4>2 DEF k
    <3>3. todo'[i - 1] = todo[i - 2]
      BY <3>1, <3>2
    <3> QED BY <2>1, <3>3
  <2> QED BY <2>2, <2>3
<1>17. WriteInv'
  <2> SUFFICES ASSUME NEW i \in DOMAIN todo', todo'[i].op \in {"mark", "begin", "schedule"}
               PROVE  /\ todo'[i].op \in {"begin", "schedule"} =>
                           i > 1 /\ todo'[i - 1].op = "mark" /\ todo'[i - 1].name = todo'[i].name
                      /\ todo'[i].name.step = global_step
    BY <1>3 DEF WriteInv, Follows
  <2>1. i > 2 /\ i \in Nat
    BY <1>4, <1>11
  <2>2. /\ i - 1 \in DOMAIN todo /\ i - 1 > 1 /\ todo'[i] = todo[i - 1] /\ (i - 1) - 1 = i - 2
        /\ todo[i - 2] = todo[1] \/ todo'[i - 1] = todo[i - 2]
    BY <1>16, <2>1
  <2>3. /\ todo[i - 1].name.step = global_step
        /\ todo[i - 1].op \in {"begin", "schedule"} =>
             todo[i - 2].op = "mark" /\ todo[i - 2].name = todo[i - 1].name
    BY <2>2 DEF WriteInv, Follows
  <2> QED BY <1>2, <2>1, <2>2, <2>3
<1>18. FinalizeInv'
  <2> SUFFICES ASSUME NEW i \in DOMAIN todo', todo'[i].op = "finalize"
               PROVE  i > 1 /\ todo'[i - 1].op = "end" /\ todo'[i - 1].name = todo'[i].name
    BY DEF FinalizeInv, Follows
  <2>1. i > 2 /\ i \in Nat
    BY <1>4, <1>11
  <2>2. /\ i - 1 \in DOMAIN todo /\ i - 1 > 1 /\ todo'[i] = todo[i - 1] /\ (i - 1) - 1 = i - 2
        /\ todo[i - 2] = todo[1] \/ todo'[i - 1] = todo[i - 2]
    BY <1>16, <2>1
  <2>3. todo[i - 2].op = "end" /\ todo[i - 2].name = todo[i - 1].name
    BY <2>2 DEF FinalizeInv, Follows
  <2> QED BY <1>2, <2>1, <2>2, <2>3
<1>19. DeleteInv'
  <2> SUFFICES ASSUME NEW i \in DOMAIN todo'
               PROVE  /\ todo'[i].op = "delete" => i = 1 /\ todo'[i].name \in marked'
                      /\ todo'[i].op = "unmark" => i = 2 /\ todo'[1].op = "delete" /\ todo'[1].name = todo'[2].name
    BY DEF DeleteInv, Follows
  <2>1. CASE i > 2
    BY <1>4, <1>13, <2>1
  <2>2. CASE i = 1 \/ i = 2
    BY <1>4, <1>8, <2>2
  <2> QED BY <1>4, <2>1, <2>2
<1>20. LastInv'
  <2>1. ASSUME NEW i \in DOMAIN todo', todo'[i].op \in SaveOps
        PROVE  i - 1 \in DOMAIN todo /\ todo'[i] = todo[i - 1]
    BY <1>11, <2>1 DEF SaveOps
  <2> QED BY <1>3, <1>9, <2>1 DEF LastInv, OnDisk, SaveOps
<1>21. SavedInv'
  BY <1>3, <1>4, <1>7, NameShape DEF SavedInv, Usable, OnDisk, TypeOK
<1>22. RemovalInv'
  <2> SUFFICES ASSUME NEW i \in DOMAIN todo', todo'[i].name.kind = "last", i > 2
               PROVE  /\ todo'[i].op = "remove" =>
                           /\ todo'[i - 1].op \in {"finalize", "schedule"}
                           /\ Outlives(todo'[i - 1].name, todo'[i].name)
                      /\ todo'[i].op \in {"remove_deferred", "delete"} => todo'[i].name.step < saved_step
    BY <1>3, <1>4, <1>7, <1>8 DEF RemovalInv, Outlives
  <2>1. /\ i - 1 \in DOMAIN todo /\ i - 1 > 1 /\ todo'[i] = todo[i - 1] /\ (i - 1) - 1 = i - 2
        /\ todo[i - 2] = todo[1] \/ todo'[i - 1] = todo[i - 2]
    BY <1>16
  <2>2. /\ todo[i - 1].op = "remove" =>
             /\ todo[i - 2].op \in {"finalize", "schedule"}
             /\ Outlives(todo[i - 2].name, todo[i - 1].name)
        /\ todo[i - 1].op \in {"remove_deferred", "delete"} => todo[i - 1].name.step < saved_step
    BY <2>1 DEF RemovalInv
  <2> QED BY <1>2, <2>1, <2>2
<1>23. Finalizing = 0 /\ Finalizing' = 0
  BY <1>2, <1>8 DEF Finalizing
<1>24. ListInv'
  BY <1>3, <1>4, <1>23 DEF ListInv, CallOf, Outlives
<1>25. QueueInv'
  <2>1. ASSUME NEW i \in DOMAIN todo', todo'[i].op = "schedule"
        PROVE  i - 1 \in DOMAIN todo /\ todo'[i] = todo[i - 1]
    BY <1>11, <2>1
  <2> QED BY <1>3, <1>9, <1>23, <2>1 DEF QueueInv
<1>26. ExitInv'
  <2> SUFFICES ASSUME NEW i \in DOMAIN todo, todo[i].op = "finalize"
               PROVE  i + 1 \in DOMAIN todo' /\ todo'[i + 1] = todo[i]
    BY <1>3 DEF ExitInv
  <2> QED BY <1>2, <1>4
<1>27. WholeInv'
  BY <1>3, <1>4, <1>6 DEF WholeInv, Working
<1>28. ResumeInv' /\ PruneInv' /\ CleanInv'
  BY <1>3, <1>6, StartedLong
<1> QED
  BY <1>10, <1>14, <1>15, <1>17, <1>18, <1>19, <1>20, <1>21, <1>22, <1>24, <1>25, <1>26, <1>27, <1>28

\* A save is finished: its last checkpoint is whole and usable from now on, and what
\* waited for it to be removed is older.
LEMMA FinalizeKeeps == ASSUME IndInv, Finalize PROVE IndInv'
<1> USE DEF IndInv
<1>1. todo # <<>>
  BY DEF Finalize, Doing
<1> DEFINE n == todo[1].name
<1>2. /\ training' = training /\ ckpt' = ckpt /\ phase' = phase
      /\ global_step' = global_step /\ ckpt_path' = ckpt_path
      /\ last_model_path' = last_model_path /\ best_k_models' = best_k_models
      /\ async_calls' = async_calls /\ starts' = starts /\ exit_step' = exit_step
      /\ marked' = marked \ {n} /\ todo[1].op = "finalize"
      /\ saved_step' = IF n.kind = "last" /\ n.step > saved_step THEN n.step ELSE saved_step
  BY <1>1 DEF Finalize, Doing, Subject, memory, TypeOK
<1>3. phase \in Working /\ 1 \in DOMAIN todo /\ n \in Known
  <2>1. 1 \in DOMAIN todo /\ todo[1] \in Ops
    BY <1>1 DEF TypeOK
  <2>2. n \in Known
    BY <2>1 DEF Ops
  <2> QED BY <1>1, <1>2, <2>1, <2>2, EffectPhase
<1>4. Pending' = Pending /\ saved_step \in Nat /\ n.step \in Nat
  BY <1>2, <1>3, NameShape DEF Pending, TypeOK
<1>5. /\ n \in DOMAIN ckpt => ckpt[n].whole
      /\ n.kind = "last" => n \in DOMAIN ckpt
  BY <1>2, <1>3 DEF FinalizeInv, Follows
<1>6. n.kind = "last" => last_model_path # NULL /\ n.step <= last_model_path.step
  BY <1>2, <1>3 DEF LastInv, SaveOps
<1>7. saved_step' \in Nat /\ saved_step' >= saved_step /\ (n.kind = "last" => saved_step' >= n.step)
  BY <1>2, <1>4
<1>8. saved_step' = saved_step \/ (n.kind = "last" /\ saved_step' = n.step)
  BY <1>2
<1> HIDE DEF n
<1>9. SavedInv'
  <2>1. CASE saved_step' = saved_step
    BY <1>2, <2>1 DEF SavedInv, Usable, OnDisk
  <2>2. CASE n.kind = "last" /\ saved_step' = n.step
    <3>1. n \in Usable("last")' /\ n.step >= saved_step'
      BY <1>2, <1>4, <1>5, <2>2 DEF Usable, OnDisk
    <3> QED BY <1>2, <1>6, <2>2, <3>1 DEF SavedInv
  <2> QED BY <1>8, <2>1, <2>2
<1>10. WholeInv'
  BY <1>2, <1>3, <1>5 DEF WholeInv, Working
<1>11. CASE ~training.async_save
  <2>1. Proceed /\ deferred_ckpts_to_remove' = deferred_ckpts_to_remove
    BY <1>11 DEF Finalize
  <2>2. /\ Shifted /\ todo' \in Seq(Ops) /\ todo[1].name \in Known
        /\ Finalizing = 0 /\ Finalizing' = 0
        /\ OpInv' /\ MarkInv' /\ WriteInv' /\ FinalizeInv' /\ DeleteInv' /\ LastInv'
        /\ RemovalInv' /\ ExitInv' /\ ResumeInv' /\ PruneInv' /\ CleanInv'
    BY <1>1, <1>2, <1>3, <1>4, <1>7, <1>11, <2>1, ProceedKeeps DEF n
  <2>3. TypeOK' /\ PhaseInv'
    BY <1>2, <1>3, <1>7, <2>1, <2>2 DEF TypeOK, PhaseInv, Working
  <2>4. async_calls' = <<>> /\ deferred_ckpts_to_remove' = <<>> /\ DOMAIN async_calls' = {}
    BY <1>2, <1>11, <2>1 DEF PhaseInv
  <2>5. ListInv'
    BY <2>2, <2>4 DEF ListInv
  <2>6. QueueInv'
    BY <1>2, <1>11, <2>2, <2>4 DEF QueueInv, OpInv
  <2> QED BY <1>9, <1>10, <2>2, <2>3, <2>5, <2>6
<1>12. CASE training.async_save
  <2> DEFINE list == Head(deferred_ckpts_to_remove)
             removals == [i \in DOMAIN list |-> Do("remove_deferred", list[i])]
  <2>1. Len(todo) <= 1 /\ phase # "exiting" /\ Finalizing = 1
    BY <1>2, <1>3, <1>12 DEF OpInv, Finalizing
  <2>2. /\ deferred_ckpts_to_remove \in Seq(Seq(Known)) /\ async_calls \in Seq(Calls)
        /\ Len(deferred_ckpts_to_remove) = Len(async_calls) + 1
    BY <2>1 DEF TypeOK, ListInv
  <2>3. /\ list = deferred_ckpts_to_remove[1] /\ list \in Seq(Known)
        /\ 1 \in DOMAIN deferred_ckpts_to_remove
    BY <2>2
  <2>4. \A i \in DOMAIN list : list[i].kind = "last" => n.kind = "last" /\ list[i].step < n.step
    BY <2>1, <2>3 DEF ListInv, CallOf, Outlives, n
  <2> HIDE DEF list
  <2>5. /\ DOMAIN removals = DOMAIN list
        /\ \A i \in DOMAIN removals : removals[i].op = "remove_deferred" /\ removals[i].name = list[i]
    BY DEF Do
  <2>6. removals \in Seq(Ops)
    <3>1. \A i \in DOMAIN list : Do("remove_deferred", list[i]) \in Ops
      <4> SUFFICES ASSUME NEW i \in DOMAIN list PROVE Do("remove_deferred", list[i]) \in Ops
        OBVIOUS
      <4>1. list[i] \in Known
        BY <2>3
      <4> QED BY <4>1 DEF Do, Ops
    <3> HIDE DEF Ops
    <3>2. DOMAIN list = 1 .. Len(list) /\ Len(list) \in Nat
      BY <2>3
    <3> QED BY <3>1, <3>2
  <2>7. Tail(todo) = <<>>
    <3>1. todo \in Seq(Ops) /\ Len(todo) \in Nat
      BY DEF TypeOK
    <3>2. Tail(todo) \in Seq(Ops) /\ Len(Tail(todo)) = Len(todo) - 1
      <4> HIDE DEF Ops
      <4> QED BY <1>1, <3>1
    <3> DEFINE t == Tail(todo)
    <3>3. t \in Seq(Ops) /\ Len(t) <= 0 /\ Len(t) \in Nat
      <4>1. Len(t) <= 0
        BY <2>1, <3>1, <3>2
      <4> HIDE DEF Ops
      <4> QED BY <3>2, <4>1
    <3> HIDE DEF t, Ops
    <3>4. t = <<>>
      BY <3>3
    <3> QED BY <3>4 DEF t
  <2>8. todo' = removals
    <3>1. todo' = removals \o Tail(todo)
      BY <1>12 DEF Finalize, list
    <3> HIDE DEF removals, Ops
    <3>2. removals \o <<>> = removals
      BY <2>6
    <3> QED BY <2>7, <3>1, <3>2
  <2> HIDE DEF removals
  <2>9. /\ deferred_ckpts_to_remove' \in Seq(Seq(Known))
        /\ Len(deferred_ckpts_to_remove') = Len(async_calls) /\ Len(async_calls) \in Nat
        /\ \A i \in DOMAIN deferred_ckpts_to_remove' :
             /\ i \in Nat /\ i + 1 # 1 /\ (i + 1) - 1 = i /\ i + 1 \in DOMAIN deferred_ckpts_to_remove
             /\ deferred_ckpts_to_remove'[i] = deferred_ckpts_to_remove[i + 1]
    <3>1. deferred_ckpts_to_remove' = Tail(deferred_ckpts_to_remove)
      BY <1>12 DEF Finalize
    <3>2. Len(async_calls) \in Nat /\ deferred_ckpts_to_remove # <<>>
      BY <2>2, <2>3
    <3> QED BY <2>2, <3>1, <3>2
  <2>10. \A i \in DOMAIN todo' : /\ todo'[i].op = "remove_deferred" /\ i \in DOMAIN list
                                 /\ todo'[i].name = list[i]
    BY <2>5, <2>8
  <2>11. Finalizing' = 0
    BY <2>10 DEF Finalizing
  <2>12. TypeOK' /\ PhaseInv'
    BY <1>2, <1>3, <1>7, <1>12, <2>6, <2>8, <2>9, SMTT(30) DEF TypeOK, PhaseInv, Working
  <2>13. OpInv' /\ MarkInv' /\ WriteInv' /\ FinalizeInv' /\ DeleteInv'
    BY <1>2, <1>3, <1>12, <2>10 DEF OpInv, MarkInv, WriteInv, FinalizeInv, DeleteInv, Working
  <2>14. LastInv'
    BY <1>2, <1>4, <2>10 DEF LastInv, OnDisk, SaveOps
  <2>15. RemovalInv'
    <3> SUFFICES ASSUME NEW i \in DOMAIN todo', list[i].kind = "last"
                 PROVE  list[i].step < saved_step'
      BY <2>10 DEF RemovalInv
    <3>1. n.kind = "last" /\ list[i].step < n.step /\ list[i] \in Known
      BY <2>3, <2>4, <2>10
    <3> QED BY <1>4, <1>7, <3>1, NameShape
  <2>16. ListInv'
    <3> SUFFICES ASSUME NEW i \in DOMAIN deferred_ckpts_to_remove',
                        NEW k \in DOMAIN deferred_ckpts_to_remove'[i],
                        deferred_ckpts_to_remove'[i][k].kind = "last"
                 PROVE  Outlives(async_calls[i].name, deferred_ckpts_to_remove'[i][k])
      BY <1>2, <2>9, <2>11 DEF ListInv, CallOf, Outlives
    <3> DEFINE j == i + 1
    <3>1. /\ j \in DOMAIN deferred_ckpts_to_remove /\ j # 1 /\ j - 1 = i
          /\ deferred_ckpts_to_remove'[i] = deferred_ckpts_to_remove[j]
      BY <2>9
    <3> HIDE DEF j
    <3>2. Outlives(CallOf(j), deferred_ckpts_to_remove[j][k])
      BY <3>1 DEF ListInv
    <3> QED BY <2>1, <3>1, <3>2 DEF CallOf
  <2>17. QueueInv'
    <3>1. \A i \in DOMAIN async_calls : async_calls[i].name.kind = "last" =>
            saved_step' <= async_calls[i].name.step
      BY <1>8, <2>1 DEF QueueInv, n
    <3> QED BY <1>2, <2>1, <2>10, <2>11, <3>1 DEF QueueInv
  <2>18. ExitInv'
    BY <1>2, <1>12 DEF ExitInv
  <2>19. ResumeInv' /\ PruneInv' /\ CleanInv'
    BY <1>2, <1>3, StartedLong
  <2> QED
    BY <1>9, <1>10, <2>12, <2>13, <2>14, <2>15, <2>16, <2>17, <2>18, <2>19
<1> QED BY <1>11, <1>12

----------------------------------------------------------------------------
(* A start of the job.                                                     *)

\* check_resume counts as we do.
LEMMA SameCardinality == \A S : R!Cardinality(S) = Cardinality(S)
BY DEF R!Cardinality, Cardinality

\* The directory, as check_resume sees it.
LEMMA DirSeenIs ==
  ASSUME TypeOK
  PROVE  /\ IsFiniteSet(DirSeen)
         /\ \A c \in DirSeen : /\ c.kind = "last" /\ c.name \in OnDisk("last")
                               /\ c.step = c.name.step /\ c.dist = training.dist_ckpt
                               /\ c.finished <=> c.name \notin marked
         /\ \A n \in OnDisk("last") : \E c \in DirSeen : c.name = n
<1> DEFINE seen(n) == [kind |-> "last", name |-> n, dist |-> training.dist_ckpt,
                       step |-> n.step, finished |-> n \notin marked]
           those == {m \in OnDisk("last") : m.ver = 0}
<1>1. DirSeen = {seen(n) : n \in those}
  BY DEF DirSeen
<1>2. those = OnDisk("last")
  BY NameShape DEF TypeOK, OnDisk
<1>3. IsFiniteSet(OnDisk("last"))
  BY FS_Subset DEF TypeOK, OnDisk
<1>4. DirSeen = {seen(n) : n \in OnDisk("last")}
  BY <1>1, <1>2
<1>5. IsFiniteSet(DirSeen)
  <2> DEFINE f == [n \in OnDisk("last") |-> seen(n)]
  <2>1. f \in Surjection(OnDisk("last"), DirSeen)
    BY <1>4 DEF Surjection
  <2> QED BY <1>3, <2>1, FS_Surjection
<1>6. \A n \in OnDisk("last") :
        /\ seen(n).kind = "last" /\ seen(n).name = n /\ seen(n).step = n.step
        /\ seen(n).dist = training.dist_ckpt /\ (seen(n).finished <=> n \notin marked)
  OBVIOUS
<1> HIDE DEF seen
<1>7. ASSUME NEW c \in DirSeen
      PROVE  /\ c.kind = "last" /\ c.name \in OnDisk("last")
             /\ c.step = c.name.step /\ c.dist = training.dist_ckpt
             /\ c.finished <=> c.name \notin marked
  <2>1. PICK n \in OnDisk("last") : c = seen(n)
    BY <1>4
  <2> QED BY <1>6, <2>1
<1>8. ASSUME NEW n \in OnDisk("last") PROVE \E c \in DirSeen : c.name = n
  BY <1>4, <1>6
<1> QED BY <1>5, <1>7, <1>8

\* What check_resume, asked to resume, leaves the trainer with: the newest usable last
\* checkpoint, or nothing when there is none of any kind.
LEMMA WhatIsResumed ==
  ASSUME TypeOK, NEW r, R!check_resume(DirSeen, ResumeOptions, r), r.verdict # "ValueError"
  PROVE  \/ r.path = {} /\ OnDisk("last") = {}
         \/ \E c \in DirSeen : /\ r.path = {c} /\ c.name \in Usable("last")
                               /\ \A m \in Usable("last") : m.step <= c.name.step
<1> DEFINE lasts == {c \in DirSeen : c.finished}
           found == R!_filter_out_unfinished_checkpoints(R!Matching(DirSeen, "last"))
           ends == R!_filter_out_unfinished_checkpoints(R!Matching(DirSeen, "end"))
<1>1. R!Matching(DirSeen, "end") = {} /\ R!Matching(DirSeen, "last") = DirSeen
  BY DirSeenIs DEF R!Matching
<1>2. found = lasts /\ ends = {}
  BY <1>1 DEF R!_filter_out_unfinished_checkpoints
<1>3. /\ ResumeOptions.resume_if_exists /\ ResumeOptions.resume_ignore_no_checkpoint
      /\ ~ResumeOptions.sharded /\ ~ResumeOptions.resume_from_checkpoint
  BY DEF ResumeOptions
<1>4. /\ \A v : R!Verdict(v).verdict = v /\ R!Verdict(v).path = {}
      /\ \A c : R!Resume(c).path = {c}
  BY DEF R!Verdict, R!Resume
<1>5. /\ ~R!OnlyUnfinished(DirSeen, "last")
      /\ R!Choose(ends, found, ResumeOptions, r)
  <2> HIDE DEF ends, found
  <2> QED BY <1>3, <1>4 DEF R!check_resume, ends, found
<1>6. DirSeen # {} => lasts # {}
  BY <1>1, <1>2, <1>5 DEF R!OnlyUnfinished
<1>7. R!Choose({}, lasts, ResumeOptions, r)
  BY <1>2, <1>5
<1> HIDE DEF found, ends
<1>8. lasts = {} => r.path = {}
  <2> SUFFICES ASSUME lasts = {} PROVE r.path = {}
    OBVIOUS
  <2>1. Cardinality({}) = 0
    BY FS_EmptySet
  <2>2. r = R!Initially(ResumeOptions)
    BY <1>3, <1>7, <2>1, SameCardinality DEF R!Choose
  <2> QED BY <1>3, <1>4, <2>2 DEF R!Initially
<1>9. lasts # {} => \E c \in lasts : r.path = {c} /\ \A e \in lasts : e.step <= c.step
  <2> SUFFICES ASSUME lasts # {}
               PROVE  \E c \in lasts : r.path = {c} /\ \A e \in lasts : e.step <= c.step
    OBVIOUS
  <2>1. IsFiniteSet(lasts)
    BY DirSeenIs, FS_Subset
  <2>2. \A c \in lasts : c.step \in Nat
    BY DirSeenIs, NameShape DEF OnDisk, TypeOK
  <2> HIDE DEF lasts
  <2>3. CASE Cardinality(lasts) > 1
    <3>1. R!SelectLast(lasts, ResumeOptions, r)
      BY <1>7, <2>3, SameCardinality DEF R!Choose
    <3> QED BY <1>3, <1>4, <3>1 DEF R!SelectLast
  <2>4. CASE ~(Cardinality(lasts) > 1)
    <3>1. Cardinality(lasts) = 1 /\ \E c \in lasts : r = R!Resume(c)
      BY <1>7, <2>4, SameCardinality DEF R!Choose
    <3>2. PICK x : lasts = {x}
      BY <2>1, <3>1, FS_Singleton
    <3>3. r.path = {x} /\ x.step <= x.step
      BY <1>4, <2>2, <3>1, <3>2
    <3> QED BY <3>2, <3>3
  <2> QED BY <2>3, <2>4
<1>10. CASE lasts = {}
  BY <1>6, <1>8, <1>10, DirSeenIs
<1>11. CASE lasts # {}
  <2>1. PICK c \in lasts : r.path = {c} /\ \A e \in lasts : e.step <= c.step
    BY <1>9, <1>11
  <2>2. c \in DirSeen /\ c.name \in Usable("last")
    BY <2>1, DirSeenIs DEF Usable
  <2>3. ASSUME NEW m \in Usable("last") PROVE m.step <= c.name.step
    <3>1. PICK e \in DirSeen : e.name = m
      BY DirSeenIs DEF Usable
    <3>2. e \in lasts
      BY <3>1, DirSeenIs DEF Usable
    <3> QED BY <2>1, <2>2, <3>1, <3>2, DirSeenIs
  <2> QED BY <2>1, <2>2, <2>3
<1> QED BY <1>10, <1>11

\* A start that is not refused goes on from the newest usable last checkpoint.
LEMMA StartKeeps == ASSUME IndInv, Start PROVE IndInv'
<1> USE DEF IndInv
<1>1. /\ training' = training /\ ckpt' = ckpt /\ marked' = marked
      /\ global_step' = global_step /\ async_calls' = async_calls
      /\ deferred_ckpts_to_remove' = deferred_ckpts_to_remove /\ saved_step' = saved_step
      /\ exit_step' = exit_step
      /\ todo' = todo /\ starts' = starts + 1 /\ phase = "down"
  BY DEF Start, disk, async, history
<1>2. todo = <<>> /\ todo' = <<>> /\ async_calls = <<>> /\ deferred_ckpts_to_remove = <<>>
  BY <1>1 DEF PhaseInv
<1>3. /\ OpInv' /\ MarkInv' /\ WriteInv' /\ FinalizeInv' /\ DeleteInv' /\ RemovalInv'
      /\ Finalizing' = 0 /\ DOMAIN todo' = {} /\ todo' \in Seq(Ops)
  BY <1>2, IdleIs
<1>4. DOMAIN async_calls' = {} /\ DOMAIN deferred_ckpts_to_remove' = {} /\ Pending' = {}
  BY <1>1, <1>2 DEF Pending
<1>5. Usable("topk")' = Usable("topk") /\ Excess' = Excess
      /\ Usable("last")' = Usable("last") /\ OnDisk("last")' = OnDisk("last")
  BY <1>1 DEF Usable, OnDisk, Excess
<1>6. phase' \in {"refused", "init"}
  BY DEF Start
<1>7. ListInv' /\ QueueInv' /\ LastInv' /\ SavedInv' /\ ExitInv'
  BY <1>1, <1>2, <1>3, <1>4, <1>5, <1>6 DEF ListInv, QueueInv, LastInv, SavedInv, ExitInv, Training
<1>8. WholeInv' /\ CleanInv' /\ PhaseInv'
  BY <1>1, <1>2, <1>5, <1>6 DEF WholeInv, CleanInv, CleanAtStart, PhaseInv
<1>9. CASE phase' = "refused" /\ UNCHANGED memory
  <2>1. TypeOK'
    BY <1>1, <1>2, <1>9 DEF TypeOK, Phases, memory
  <2>2. ResumeInv' /\ PruneInv'
    BY <1>9 DEF ResumeInv, PruneInv
  <2> QED BY <1>3, <1>7, <1>8, <2>1, <2>2
<1>10. CASE ~(phase' = "refused" /\ UNCHANGED memory)
  <2>1. PICK r : /\ R!check_resume(DirSeen, ResumeOptions, r) /\ r.verdict # "ValueError"
                 /\ phase' = "init"
                 /\ ckpt_path' = IF r.path = {} THEN NULL ELSE (CHOOSE c \in r.path : TRUE).name
                 /\ last_model_path' = ckpt_path'
                 /\ best_k_models' = Usable("topk") \ Excess
    BY <1>10 DEF Start
  <2>2. \/ ckpt_path' = NULL /\ OnDisk("last") = {}
        \/ /\ ckpt_path' \in Usable("last")
           /\ \A m \in Usable("last") : m.step <= ckpt_path'.step
    BY <2>1, WhatIsResumed
  <2>3. Usable("last") \subseteq LastNames
    BY NameShape DEF Usable, OnDisk, TypeOK
  <2>4. ResumeInv'
    BY <1>5, <2>1, <2>2, <2>3, NameShape DEF ResumeInv
  <2>5. PruneInv'
    BY <1>3, <1>5, <2>1 DEF PruneInv
  <2>6. best_k_models' \subseteq TopkNames /\ IsFiniteSet(best_k_models')
    <3>1. best_k_models' \subseteq DOMAIN ckpt /\ \A n \in best_k_models' : n.kind = "topk"
      BY <2>1 DEF Usable, OnDisk
    <3> QED BY <3>1, NameShape, FS_Subset DEF TypeOK
  <2>7. TypeOK'
    BY <1>1, <1>2, <2>1, <2>2, <2>3, <2>6 DEF TypeOK, Phases
  <2> QED BY <1>3, <1>7, <1>8, <2>4, <2>5, <2>7
<1> QED BY <1>9, <1>10

\* Pruning half deletes a directory, or removes a file, that no marker names.
LEMMA PruneKeeps == ASSUME IndInv, Prune PROVE IndInv'
<1> USE DEF IndInv
<1>1. /\ training' = training /\ marked' = marked /\ phase' = phase
      /\ global_step' = global_step /\ ckpt_path' = ckpt_path
      /\ last_model_path' = last_model_path /\ best_k_models' = best_k_models
      /\ async_calls' = async_calls /\ deferred_ckpts_to_remove' = deferred_ckpts_to_remove
      /\ starts' = starts /\ saved_step' = saved_step /\ exit_step' = exit_step
      /\ phase = "init" /\ todo = <<>>
  BY DEF Prune, memory, async, history
<1>2. PICK n \in Usable("topk") \ best_k_models :
        /\ \A m \in Usable("topk") \ best_k_models : m = n \/ Worse(n, m)
        /\ IF training.dist_ckpt
             THEN Write(n, Partial) /\ todo' = <<Do("delete", n)>>
             ELSE Erase(n) /\ todo' = todo
  BY DEF Prune
<1>3. Excess \subseteq Usable("topk") /\ best_k_models = Usable("topk") \ Excess
  BY <1>1 DEF Excess, PruneInv
<1>4. n \in Excess /\ \A m \in Excess : m = n \/ Worse(n, m)
  BY <1>2, <1>3
<1>5. CASE ~training.dist_ckpt
  BY <1>1, <1>2, <1>4, <1>5, PruneOne
<1>6. CASE training.dist_ckpt
  <2>1. n \in DOMAIN ckpt /\ n \in Known /\ n.kind = "topk" /\ n \notin marked
    BY <1>2, NameShape DEF Usable, OnDisk, TypeOK
  <2>2. /\ DOMAIN ckpt' = DOMAIN ckpt
        /\ \A m \in DOMAIN ckpt : m # n => ckpt'[m] = ckpt[m]
        /\ \A m \in DOMAIN ckpt' : ckpt'[m] \in Contents
    BY <1>2, <1>6, <2>1, WriteIs, WhatIsWritten
  <2>3. /\ todo' \in Seq(Ops) /\ DOMAIN todo' = {1}
        /\ todo'[1].op = "delete" /\ todo'[1].name = n
    <3>1. Do("delete", n) \in Ops /\ Do("delete", n).op = "delete" /\ Do("delete", n).name = n
      BY <2>1 DEF Do, Ops
    <3>2. todo' = <<Do("delete", n)>>
      BY <1>2, <1>6
    <3> HIDE DEF Ops
    <3> QED BY <3>1, <3>2
  <2>4. /\ Usable("topk")' = Usable("topk") /\ Excess' = Excess
        /\ Usable("last")' = Usable("last") /\ OnDisk("last")' = OnDisk("last")
    BY <1>1, <2>2 DEF Usable, OnDisk, Excess
  <2>5. /\ async_calls' = <<>> /\ deferred_ckpts_to_remove' = <<>>
        /\ DOMAIN async_calls' = {} /\ DOMAIN deferred_ckpts_to_remove' = {} /\ Pending' = {}
    BY <1>1 DEF PhaseInv, Pending
  <2>6. Finalizing' = 0
    BY <2>3 DEF Finalizing
  <2>7. TypeOK' /\ PhaseInv'
    BY <1>1, <2>2, <2>3, <2>5 DEF TypeOK, PhaseInv
  <2>8. OpInv' /\ MarkInv' /\ WriteInv' /\ FinalizeInv' /\ DeleteInv' /\ RemovalInv'
    BY <1>1, <2>1, <2>3
    DEF OpInv, MarkInv, WriteInv, FinalizeInv, DeleteInv, RemovalInv
  <2>9. LastInv' /\ ResumeInv' /\ SavedInv' /\ ListInv' /\ QueueInv' /\ ExitInv'
    BY <1>1, <2>3, <2>4, <2>5, <2>6
    DEF LastInv, ResumeInv, SavedInv, ListInv, QueueInv, ExitInv, Training, SaveOps
  <2>10. WholeInv' /\ PruneInv' /\ CleanInv'
    BY <1>1, <1>3, <1>4, <2>2, <2>3, <2>4 DEF WholeInv, PruneInv, CleanInv, CleanAtStart
  <2> QED BY <2>7, <2>8, <2>9, <2>10
<1> QED BY <1>5, <1>6

\* When nothing is in excess, there are no more than save_top_k.
LEMMA NoExcess ==
  ASSUME TypeOK, Excess = {} PROVE Cardinality(Usable("topk")) <= training.save_top_k
<1> DEFINE U == Usable("topk")
           k == training.save_top_k
<1>1. U \in SUBSET TopkNames /\ IsFiniteSet(U)
  <2>1. U \subseteq DOMAIN ckpt /\ \A n \in U : n.kind = "topk"
    BY DEF Usable, OnDisk
  <2>2. IsFiniteSet(U)
    BY <2>1, FS_Subset DEF TypeOK
  <2> HIDE DEF U
  <2> QED BY <2>1, <2>2, NameShape DEF TypeOK
<1>2. \A n \in U : ~(Cardinality(Better(U, n)) >= k)
  BY DEF Excess, Better
<1>3. k \in Nat /\ Cardinality(U) \in Nat
  BY <1>1, FS_CardinalityType, LifecycleAssumption DEF TypeOK
<1> SUFFICES Cardinality(U) <= k
  OBVIOUS
<1> HIDE DEF U, k
<1>4. CASE U = {}
  BY <1>3, <1>4, FS_EmptySet
<1>5. CASE U # {}
  <2>1. PICK n \in U : \A m \in U : m = n \/ Worse(n, m)
    BY <1>1, <1>5, WorstExists
  <2>2. Better(U, n) = U \ {n}
    BY <1>1, <2>1, WorseOrder DEF Better
  <2>3. Cardinality(Better(U, n)) = Cardinality(U) - 1
    BY <1>1, <2>2, FS_RemoveElement
  <2>4. ~(Cardinality(Better(U, n)) >= k)
    BY <1>2
  <2> QED BY <1>3, <2>3, <2>4
<1> QED BY <1>4, <1>5

\* Once pruned, at most save_top_k usable ones are left and all are whole.
LEMMA SetupKeeps == ASSUME IndInv, Setup PROVE IndInv'
<1> USE DEF IndInv
<1>1. /\ training' = training /\ ckpt' = ckpt /\ marked' = marked
      /\ global_step' = global_step /\ ckpt_path' = ckpt_path
      /\ last_model_path' = last_model_path /\ best_k_models' = best_k_models
      /\ async_calls' = async_calls /\ deferred_ckpts_to_remove' = deferred_ckpts_to_remove
      /\ starts' = starts /\ saved_step' = saved_step /\ exit_step' = exit_step
      /\ phase = "init" /\ phase' = "setup" /\ todo = <<>> /\ todo' = <<>>
      /\ Usable("topk") \subseteq best_k_models
  BY DEF Setup, disk, memory, async, history
<1>2. /\ OpInv' /\ MarkInv' /\ WriteInv' /\ FinalizeInv' /\ DeleteInv' /\ RemovalInv'
      /\ Finalizing' = 0 /\ DOMAIN todo' = {} /\ todo' \in Seq(Ops)
  BY <1>1, IdleIs
<1>3. Excess = {} /\ best_k_models = Usable("topk")
  BY <1>1 DEF Excess, PruneInv
<1>4. Cardinality(Usable("topk")) <= training.save_top_k
  BY <1>3, NoExcess
<1>5. /\ Usable("topk")' = Usable("topk")
      /\ Usable("last")' = Usable("last") /\ OnDisk("last")' = OnDisk("last")
  BY <1>1 DEF Usable, OnDisk
<1>6. /\ async_calls' = <<>> /\ deferred_ckpts_to_remove' = <<>>
      /\ DOMAIN async_calls' = {} /\ DOMAIN deferred_ckpts_to_remove' = {} /\ Pending' = {}
  BY <1>1 DEF PhaseInv, Pending
<1>7. TypeOK' /\ PhaseInv'
  BY <1>1, <1>2, <1>6 DEF TypeOK, PhaseInv, Phases
<1>8. LastInv' /\ ResumeInv' /\ SavedInv' /\ ListInv' /\ QueueInv' /\ ExitInv'
  BY <1>1, <1>2, <1>5, <1>6
  DEF LastInv, ResumeInv, SavedInv, ListInv, QueueInv, ExitInv, Training
<1>9. WholeInv' /\ PruneInv' /\ CleanInv'
  BY <1>1, <1>3, <1>4, <1>5 DEF WholeInv, PruneInv, CleanInv, CleanAtStart
<1> QED BY <1>2, <1>7, <1>8, <1>9

\* Deleting what is marked leaves what is usable.
LEMMA DeleteUnfinishedKeeps == ASSUME IndInv, DeleteUnfinished PROVE IndInv'
<1> USE DEF IndInv
<1>1. /\ training' = training /\ marked' = marked /\ phase' = phase
      /\ global_step' = global_step /\ ckpt_path' = ckpt_path
      /\ last_model_path' = last_model_path /\ best_k_models' = best_k_models
      /\ async_calls' = async_calls /\ deferred_ckpts_to_remove' = deferred_ckpts_to_remove
      /\ starts' = starts /\ saved_step' = saved_step /\ exit_step' = exit_step
      /\ phase = "setup" /\ todo' = todo
  BY DEF DeleteUnfinished, memory, async, history
<1>2. PICK n \in marked \cap DOMAIN ckpt : Erase(n)
  BY DEF DeleteUnfinished
<1>3. /\ DOMAIN ckpt' = DOMAIN ckpt \ {n}
      /\ \A m \in DOMAIN ckpt' : ckpt'[m] = ckpt[m]
      /\ DOMAIN ckpt' \subseteq Known /\ IsFiniteSet(DOMAIN ckpt')
      /\ \A m \in DOMAIN ckpt' : ckpt'[m] \in Contents
  BY <1>2, EraseIs
<1>4. /\ Usable("topk")' = Usable("topk") /\ Usable("last")' = Usable("last")
      /\ OnDisk("last")' \subseteq OnDisk("last")
  BY <1>1, <1>2, <1>3 DEF Usable, OnDisk
<1>5. todo' = <<>>
  BY <1>1 DEF PhaseInv
<1>6. /\ OpInv' /\ MarkInv' /\ WriteInv' /\ FinalizeInv' /\ DeleteInv' /\ RemovalInv'
      /\ Finalizing' = 0 /\ DOMAIN todo' = {} /\ todo' \in Seq(Ops)
  BY <1>5, IdleIs
<1>7. /\ async_calls' = <<>> /\ deferred_ckpts_to_remove' = <<>>
      /\ DOMAIN async_calls' = {} /\ DOMAIN deferred_ckpts_to_remove' = {} /\ Pending' = {}
  BY <1>1 DEF PhaseInv, Pending
<1>8. TypeOK' /\ PhaseInv'
  BY <1>1, <1>3, <1>5, <1>6, <1>7 DEF TypeOK, PhaseInv
<1>9. LastInv' /\ ResumeInv' /\ SavedInv' /\ ListInv' /\ QueueInv' /\ ExitInv'
  BY <1>1, <1>4, <1>6, <1>7
  DEF LastInv, ResumeInv, SavedInv, ListInv, QueueInv, ExitInv, Training
<1>10. WholeInv' /\ PruneInv' /\ CleanInv'
  BY <1>1, <1>3, <1>4 DEF WholeInv, PruneInv, CleanInv, CleanAtStart
<1> QED BY <1>6, <1>8, <1>9, <1>10

\* The markers go when what they mark is gone.
LEMMA DeleteMarkersKeeps == ASSUME IndInv, DeleteMarkers PROVE IndInv'
<1> USE DEF IndInv
<1>1. /\ training' = training /\ ckpt' = ckpt /\ phase' = phase
      /\ global_step' = global_step /\ ckpt_path' = ckpt_path
      /\ last_model_path' = last_model_path /\ best_k_models' = best_k_models
      /\ async_calls' = async_calls /\ deferred_ckpts_to_remove' = deferred_ckpts_to_remove
      /\ starts' = starts /\ saved_step' = saved_step /\ exit_step' = exit_step
      /\ phase = "setup" /\ todo' = todo /\ marked' \subseteq marked
      /\ marked \cap DOMAIN ckpt = {}
  BY DEF DeleteMarkers, memory, async, history
<1>2. /\ Usable("topk")' = Usable("topk") /\ Usable("last")' = Usable("last")
      /\ OnDisk("last")' = OnDisk("last")
  BY <1>1 DEF Usable, OnDisk
<1>3. todo' = <<>>
  BY <1>1 DEF PhaseInv
<1>4. /\ OpInv' /\ MarkInv' /\ WriteInv' /\ FinalizeInv' /\ DeleteInv' /\ RemovalInv'
      /\ Finalizing' = 0 /\ DOMAIN todo' = {} /\ todo' \in Seq(Ops)
  BY <1>3, IdleIs
<1>5. /\ async_calls' = <<>> /\ deferred_ckpts_to_remove' = <<>>
      /\ DOMAIN async_calls' = {} /\ DOMAIN deferred_ckpts_to_remove' = {} /\ Pending' = {}
  BY <1>1 DEF PhaseInv, Pending
<1>6. TypeOK' /\ PhaseInv'
  BY <1>1, <1>3, <1>4, <1>5 DEF TypeOK, PhaseInv
<1>7. LastInv' /\ ResumeInv' /\ SavedInv' /\ ListInv' /\ QueueInv' /\ ExitInv'
  BY <1>1, <1>2, <1>4, <1>5
  DEF LastInv, ResumeInv, SavedInv, ListInv, QueueInv, ExitInv, Training
<1>8. WholeInv' /\ PruneInv' /\ CleanInv'
  BY <1>1, <1>2 DEF WholeInv, PruneInv, CleanInv, CleanAtStart
<1> QED BY <1>4, <1>6, <1>7, <1>8

\* Training goes on from the newest usable last checkpoint, and the directory is clean.
LEMMA LoadKeeps == ASSUME IndInv, load_state_dict PROVE IndInv'
<1> USE DEF IndInv
<1>1. /\ training' = training /\ ckpt' = ckpt /\ marked' = marked /\ ckpt_path' = ckpt_path
      /\ last_model_path' = last_model_path /\ async_calls' = async_calls
      /\ deferred_ckpts_to_remove' = deferred_ckpts_to_remove /\ starts' = starts
      /\ saved_step' = saved_step /\ exit_step' = exit_step
      /\ phase = "setup" /\ phase' = "fit_start" /\ todo' = todo /\ marked = {}
      /\ IF ckpt_path = NULL
           THEN global_step' = 0 /\ best_k_models' = best_k_models
           ELSE /\ global_step' = ckpt_path.step
                /\ best_k_models' = {n \in ckpt[ckpt_path].best_k : n \in DOMAIN ckpt}
  BY DEF load_state_dict, disk, async, history, _remove_invalid_entries_from_topk
<1>2. todo' = <<>>
  BY <1>1 DEF PhaseInv
<1>3. /\ OpInv' /\ MarkInv' /\ WriteInv' /\ FinalizeInv' /\ DeleteInv' /\ RemovalInv'
      /\ Finalizing' = 0 /\ DOMAIN todo' = {} /\ todo' \in Seq(Ops)
  BY <1>2, IdleIs
<1>4. /\ async_calls' = <<>> /\ deferred_ckpts_to_remove' = <<>>
      /\ DOMAIN async_calls' = {} /\ DOMAIN deferred_ckpts_to_remove' = {} /\ Pending' = {}
  BY <1>1 DEF PhaseInv, Pending
<1>5. /\ Usable("topk") = OnDisk("topk") /\ Usable("last") = OnDisk("last")
      /\ Usable("last")' = Usable("last") /\ OnDisk("last")' = OnDisk("last")
      /\ OnDisk("topk")' = OnDisk("topk")
  BY <1>1 DEF Usable, OnDisk
<1>6. ckpt_path # NULL => ckpt_path \in LastNames /\ ckpt_path \in DOMAIN ckpt /\ ckpt_path.step \in Nat
  BY <1>1, NameShape DEF ResumeInv, Usable, OnDisk, TypeOK
<1>7. /\ global_step' \in Nat /\ best_k_models' \subseteq TopkNames
      /\ best_k_models' \subseteq DOMAIN ckpt /\ IsFiniteSet(best_k_models')
  <2>1. global_step' \in Nat
    BY <1>1, <1>6
  <2>2. best_k_models' \subseteq TopkNames /\ best_k_models' \subseteq DOMAIN ckpt
    BY <1>1, <1>6 DEF TypeOK, Contents, CleanInv, Usable, OnDisk
  <2> QED BY <2>1, <2>2, FS_Subset DEF TypeOK
<1>8. TypeOK' /\ PhaseInv'
  BY <1>1, <1>2, <1>3, <1>4, <1>7 DEF TypeOK, PhaseInv, Phases
<1>9. LastInv'
  <2>1. \A n \in OnDisk("last") : last_model_path # NULL /\ n.step <= last_model_path.step
    BY <1>1, <1>5 DEF ResumeInv
  <2>2. last_model_path # NULL => last_model_path.step <= global_step'
    BY <1>1, <1>6 DEF ResumeInv
  <2> QED BY <1>1, <1>3, <1>4, <1>5, <2>1, <2>2 DEF LastInv
<1>10. SavedInv'
  <2> SUFFICES ASSUME saved_step > 0
               PROVE  last_model_path # NULL /\ saved_step <= last_model_path.step
    BY <1>1, <1>5 DEF SavedInv
  <2>1. PICK n \in Usable("last") : n.step >= saved_step
    BY DEF SavedInv
  <2>2. ckpt_path # NULL /\ n.step <= ckpt_path.step /\ last_model_path = ckpt_path
    BY <1>1, <1>5, <2>1 DEF ResumeInv
  <2>3. n.step \in Nat /\ saved_step \in Nat
    BY <2>1, NameShape DEF Usable, OnDisk, TypeOK
  <2> QED BY <1>6, <2>1, <2>2, <2>3
<1>11. ResumeInv' /\ ListInv' /\ QueueInv' /\ ExitInv'
  BY <1>1, <1>3, <1>4 DEF ResumeInv, ListInv, QueueInv, ExitInv
<1>12. WholeInv' /\ PruneInv' /\ CleanInv'
  BY <1>1, <1>5, <1>7 DEF WholeInv, PruneInv, CleanInv, CleanAtStart
<1> QED BY <1>3, <1>8, <1>9, <1>10, <1>11, <1>12

----------------------------------------------------------------------------
(* Training, leaving it, and what goes on beside it.                       *)

\* A phase of training that begins with nothing planned.
LEMMA IdleStep ==
  ASSUME IndInv, todo = <<>>, todo' = <<>>, phase \in {"fit_start"} \cup Working,
         phase # "exiting",
         phase' \in {"batch_end", "ending", "done"},
         global_step' \in Nat, global_step' >= global_step,
         phase' = "batch_end" => global_step' > global_step,
         training' = training, ckpt' = ckpt, marked' = marked, ckpt_path' = ckpt_path,
         last_model_path' = last_model_path, best_k_models' = best_k_models,
         async_calls' = async_calls, deferred_ckpts_to_remove' = deferred_ckpts_to_remove,
         starts' = starts, saved_step' = saved_step, exit_step' = exit_step
  PROVE  IndInv'
<1> USE DEF IndInv
<1>1. /\ OpInv' /\ MarkInv' /\ WriteInv' /\ FinalizeInv' /\ DeleteInv' /\ RemovalInv'
      /\ Finalizing' = 0 /\ DOMAIN todo' = {} /\ todo' \in Seq(Ops)
  BY IdleIs
<1>2. phase \in Training /\ phase' \in Training /\ Pending' = Pending /\ Finalizing = 0
  BY DEF Training, Working, Pending, Finalizing
<1>3. /\ Usable("topk")' = Usable("topk")
      /\ Usable("last")' = Usable("last") /\ OnDisk("last")' = OnDisk("last")
  BY DEF Usable, OnDisk
<1>4. TypeOK' /\ PhaseInv'
  BY <1>1 DEF TypeOK, PhaseInv, Phases, Working
<1>5. LastInv'
  <2>1. ASSUME last_model_path # NULL
        PROVE  /\ last_model_path.step <= global_step'
               /\ phase' = "batch_end" => last_model_path.step < global_step'
    <3>1. last_model_path.step \in Nat /\ last_model_path.step <= global_step /\ global_step \in Nat
      BY <1>2, <2>1, NameShape DEF TypeOK, LastInv
    <3> QED BY <3>1
  <2> QED BY <1>1, <1>2, <1>3, <2>1 DEF LastInv
<1>6. QueueInv'
  <2>1. ASSUME NEW i \in DOMAIN async_calls
        PROVE  /\ async_calls[i].name.step <= global_step'
               /\ phase' = "batch_end" => async_calls[i].name.step < global_step'
    <3>1. async_calls[i].name.step <= global_step /\ global_step \in Nat
      BY DEF QueueInv, TypeOK
    <3>2. async_calls[i].name.step \in Nat
      <4>1. async_calls[i] \in Calls
        BY DEF TypeOK
      <4> QED BY <4>1, NameShape DEF Calls
    <3> QED BY <3>1, <3>2
  <2> QED BY <1>1, <1>2, <2>1 DEF QueueInv
<1>7. ListInv' /\ SavedInv' /\ ExitInv' /\ ResumeInv'
  BY <1>1, <1>2, <1>3 DEF ListInv, CallOf, Outlives, SavedInv, ExitInv, ResumeInv
<1>8. WholeInv' /\ PruneInv' /\ CleanInv'
  BY <1>2 DEF WholeInv, PruneInv, CleanInv, CleanAtStart, Training
<1> QED BY <1>1, <1>4, <1>5, <1>6, <1>7, <1>8

\* A batch is trained.
LEMMA TrainBatchKeeps == ASSUME IndInv, TrainBatch PROVE IndInv'
<1>1. /\ training' = training /\ ckpt' = ckpt /\ marked' = marked /\ ckpt_path' = ckpt_path
      /\ last_model_path' = last_model_path /\ best_k_models' = best_k_models
      /\ async_calls' = async_calls /\ deferred_ckpts_to_remove' = deferred_ckpts_to_remove
      /\ starts' = starts /\ saved_step' = saved_step /\ exit_step' = exit_step
      /\ todo = <<>> /\ todo' = <<>> /\ phase' = "batch_end" /\ global_step' = global_step + 1
      /\ phase \in {"fit_start", "validated", "batch_end"}
  BY DEF TrainBatch, disk, memory, async, history
<1>2. global_step \in Nat
  BY DEF IndInv, TypeOK
<1> QED BY <1>1, <1>2, IdleStep DEF Working

\* Training ends, with nothing saved yet.
LEMMA TrainEndKeeps == ASSUME IndInv, TrainEnd PROVE IndInv'
<1>1. /\ training' = training /\ ckpt' = ckpt /\ marked' = marked
      /\ global_step' = global_step /\ ckpt_path' = ckpt_path
      /\ last_model_path' = last_model_path /\ best_k_models' = best_k_models
      /\ async_calls' = async_calls /\ deferred_ckpts_to_remove' = deferred_ckpts_to_remove
      /\ starts' = starts /\ saved_step' = saved_step /\ exit_step' = exit_step
      /\ todo = <<>> /\ todo' = <<>> /\ phase' = "ending"
      /\ phase \in {"fit_start", "validated", "batch_end"}
  BY DEF TrainEnd, disk, memory, async, history
<1>2. global_step \in Nat
  BY DEF IndInv, TypeOK
<1> QED BY <1>1, <1>2, IdleStep DEF Working

\* The job is done.
LEMMA TrainingDoneKeeps == ASSUME IndInv, TrainingDone PROVE IndInv'
<1>1. /\ training' = training /\ ckpt' = ckpt /\ marked' = marked
      /\ global_step' = global_step /\ ckpt_path' = ckpt_path
      /\ last_model_path' = last_model_path /\ best_k_models' = best_k_models
      /\ async_calls' = async_calls /\ deferred_ckpts_to_remove' = deferred_ckpts_to_remove
      /\ starts' = starts /\ saved_step' = saved_step /\ exit_step' = exit_step
      /\ todo = <<>> /\ todo' = <<>> /\ phase = "ended" /\ phase' = "done"
  BY DEF TrainingDone, disk, memory, async, history
<1>2. global_step \in Nat
  BY DEF IndInv, TypeOK
<1> QED BY <1>1, <1>2, IdleStep DEF Working

\* The process is gone; only the disk and the number of starts stay.
LEMMA ForgetKeeps ==
  ASSUME IndInv, Forget, phase' = "down",
         training' = training, ckpt' = ckpt, marked' = marked, starts' = starts,
         saved_step' = saved_step, exit_step' \in Nat,
         ~training.async_save => exit_step' <= saved_step
  PROVE  IndInv'
<1> USE DEF IndInv
<1>1. /\ global_step' = 0 /\ best_k_models' = {} /\ ckpt_path' = NULL /\ last_model_path' = NULL
      /\ async_calls' = <<>> /\ deferred_ckpts_to_remove' = <<>> /\ todo' = <<>>
  BY DEF Forget
<1>2. /\ OpInv' /\ MarkInv' /\ WriteInv' /\ FinalizeInv' /\ DeleteInv' /\ RemovalInv'
      /\ Finalizing' = 0 /\ DOMAIN todo' = {} /\ todo' \in Seq(Ops)
  BY <1>1, IdleIs
<1>3. /\ Usable("last")' = Usable("last") /\ Excess' = Excess
      /\ DOMAIN async_calls' = {} /\ DOMAIN deferred_ckpts_to_remove' = {} /\ Pending' = {}
  BY <1>1 DEF Usable, OnDisk, Excess, Pending
<1>4. TypeOK' /\ PhaseInv'
  BY <1>1, <1>2, FS_EmptySet DEF TypeOK, PhaseInv, Phases
<1>5. LastInv' /\ ResumeInv' /\ SavedInv' /\ ListInv' /\ QueueInv' /\ ExitInv'
  BY <1>1, <1>2, <1>3 DEF LastInv, ResumeInv, SavedInv, ListInv, QueueInv, ExitInv, Training
<1>6. WholeInv' /\ PruneInv' /\ CleanInv'
  BY <1>3 DEF WholeInv, PruneInv, CleanInv, CleanAtStart
<1> QED BY <1>2, <1>4, <1>5, <1>6

\* The process that was asked to leave is gone.
LEMMA ProcessExitsKeeps == ASSUME IndInv, ProcessExits PROVE IndInv'
<1>1. /\ training' = training /\ ckpt' = ckpt /\ marked' = marked /\ starts' = starts
      /\ saved_step' = saved_step /\ phase' = "down" /\ exit_step' = global_step /\ Forget
      /\ phase = "exiting" /\ DOMAIN todo = {}
  BY DEF ProcessExits, disk
<1>2. global_step \in Nat /\ saved_step \in Nat
  BY DEF IndInv, TypeOK
<1>3. ~training.async_save => global_step <= saved_step
  BY <1>1, <1>2 DEF IndInv, ExitInv
<1> QED BY <1>1, <1>2, <1>3, ForgetKeeps

\* The process dies, and with it everything but the directory.
LEMMA CrashKeeps == ASSUME IndInv, Crash PROVE IndInv'
<1>1. /\ training' = training /\ ckpt' = ckpt /\ marked' = marked /\ starts' = starts
      /\ saved_step' = saved_step /\ phase' = "down" /\ exit_step' = exit_step /\ Forget
  BY DEF Crash, disk, history
<1>2. exit_step \in Nat /\ (~training.async_save => exit_step <= saved_step)
  BY DEF IndInv, TypeOK, ExitInv
<1> QED BY <1>1, <1>2, ForgetKeeps

\* A writer completes a checkpoint that is pending, whatever the main thread does.
LEMMA WriterKeeps == ASSUME IndInv, WriterDone PROVE IndInv'
<1> USE DEF IndInv
<1>1. /\ training' = training /\ marked' = marked /\ phase' = phase
      /\ global_step' = global_step /\ ckpt_path' = ckpt_path
      /\ last_model_path' = last_model_path /\ best_k_models' = best_k_models
      /\ deferred_ckpts_to_remove' = deferred_ckpts_to_remove /\ starts' = starts
      /\ saved_step' = saved_step /\ exit_step' = exit_step
      /\ todo' = todo
  BY DEF WriterDone, memory, history
<1>2. PICK i \in DOMAIN async_calls :
        /\ async_calls' = [async_calls EXCEPT ![i].written = TRUE]
        /\ Write(async_calls[i].name, [whole |-> TRUE, best_k |-> async_calls[i].best_k])
  BY DEF WriterDone
<1> DEFINE n == async_calls[i].name
           content == [whole |-> TRUE, best_k |-> async_calls[i].best_k]
<1>3. async_calls \in Seq(Calls) /\ async_calls[i] \in Calls
  BY DEF TypeOK
<1>4. n \in Known /\ content \in Contents /\ content.whole /\ n \in Pending
  BY <1>3 DEF Calls, Contents, Pending
<1>5. /\ async_calls' \in Seq(Calls) /\ Len(async_calls') = Len(async_calls)
      /\ DOMAIN async_calls' = DOMAIN async_calls
      /\ \A j \in DOMAIN async_calls :
           /\ async_calls'[j].name = async_calls[j].name
           /\ j # i => async_calls'[j] = async_calls[j]
  <2>1. DOMAIN async_calls = 1 .. Len(async_calls)
    BY <1>3
  <2> HIDE DEF Calls
  <2>2. /\ DOMAIN async_calls' = DOMAIN async_calls
        /\ \A j \in DOMAIN async_calls : j # i => async_calls'[j] = async_calls[j]
        /\ async_calls'[i] = [async_calls[i] EXCEPT !.written = TRUE]
    BY <1>2
  <2>3. async_calls'[i] \in Calls /\ async_calls'[i].name = async_calls[i].name
    BY <1>3, <2>2 DEF Calls
  <2>4. \A j \in DOMAIN async_calls : async_calls'[j] \in Calls /\ async_calls'[j].name = async_calls[j].name
    <3>1. \A j \in DOMAIN async_calls : async_calls[j] \in Calls
      BY <1>3
    <3> QED BY <2>2, <2>3, <3>1
  <2>5. async_calls' \in Seq(Calls) /\ Len(async_calls') = Len(async_calls)
    <3>1. async_calls' = [j \in 1 .. Len(async_calls) |-> async_calls'[j]]
      BY <1>2, <1>3, <2>1, <2>2
    <3>2. Len(async_calls) \in Nat
      BY <1>3
    <3>3. async_calls' \in [1 .. Len(async_calls) -> Calls]
      BY <2>1, <2>4, <3>1
    <3> QED BY <3>2, <3>3
  <2> QED BY <2>2, <2>4, <2>5
<1> HIDE DEF n, content
<1>6. /\ DOMAIN ckpt' = DOMAIN ckpt \cup {n} /\ ckpt'[n].whole
      /\ \A m \in DOMAIN ckpt : m # n => ckpt'[m] = ckpt[m]
      /\ DOMAIN ckpt' \subseteq Known /\ IsFiniteSet(DOMAIN ckpt')
      /\ \A m \in DOMAIN ckpt' : ckpt'[m] \in Contents
  BY <1>2, <1>4, WriteIs DEF n, content
<1>7. phase \in Training /\ phase # "fit_start" /\ training.async_save
  <2>1. async_calls # <<>>
    BY <1>2
  <2> QED BY <1>1, <2>1 DEF PhaseInv, TypeOK, Phases, Training
<1>8. Pending' = Pending /\ Finalizing' = Finalizing
  BY <1>1, <1>5 DEF Pending, Finalizing
<1>9. \A m \in DOMAIN ckpt : ckpt[m].whole => ckpt'[m].whole
  BY <1>6
<1>10. TypeOK' /\ PhaseInv'
  BY <1>1, <1>5, <1>6, <1>7 DEF TypeOK, PhaseInv, Training
<1>11. OpInv' /\ WriteInv'
  BY <1>1 DEF OpInv, WriteInv, Follows
<1>12. MarkInv'
  BY <1>1, <1>4, <1>6, <1>8 DEF MarkInv
<1>13. FinalizeInv' /\ DeleteInv'
  BY <1>1, <1>6, <1>9 DEF FinalizeInv, DeleteInv, Follows
<1>14. LastInv'
  <2>1. n.kind = "last" => last_model_path # NULL /\ n.step <= last_model_path.step
    BY <1>4 DEF LastInv
  <2> QED BY <1>1, <1>6, <1>8, <2>1 DEF LastInv, OnDisk
<1>15. SavedInv'
  BY <1>1, <1>6 DEF SavedInv, Usable, OnDisk
<1>16. RemovalInv'
  <2>1. \A k \in DOMAIN async_calls : async_calls'[k].name = async_calls[k].name
    BY <1>5
  <2>2. Len(async_calls) >= 1 => Len(async_calls) \in DOMAIN async_calls
    BY <1>3
  <2> QED BY <1>1, <1>5, <2>1, <2>2 DEF RemovalInv, Outlives
<1>17. ListInv'
  <2>1. \A k \in DOMAIN deferred_ckpts_to_remove : CallOf(k)' = CallOf(k)
    <3> SUFFICES ASSUME NEW k \in DOMAIN deferred_ckpts_to_remove PROVE CallOf(k)' = CallOf(k)
      OBVIOUS
    <3>1. /\ Finalizing \in {0, 1}
          /\ Len(deferred_ckpts_to_remove) = Len(async_calls) + Finalizing
      BY DEF Finalizing, ListInv
    <3>2. /\ DOMAIN deferred_ckpts_to_remove = 1 .. Len(deferred_ckpts_to_remove)
          /\ DOMAIN async_calls = 1 .. Len(async_calls) /\ Len(async_calls) \in Nat
      BY DEF TypeOK
    <3>3. CASE Finalizing = 0
      BY <1>1, <1>5, <1>8, <3>1, <3>2, <3>3 DEF CallOf
    <3>4. CASE Finalizing = 1 /\ k = 1
      BY <1>1, <1>5, <1>8, <3>4 DEF CallOf
    <3>5. CASE Finalizing = 1 /\ k # 1
      <4>1. k - 1 \in DOMAIN async_calls
        BY <3>1, <3>2, <3>5
      <4> QED BY <1>5, <1>8, <3>5, <4>1 DEF CallOf
    <3> QED BY <3>1, <3>3, <3>4, <3>5
  <2> QED BY <1>1, <1>5, <1>8, <2>1 DEF ListInv, Outlives
<1>18. QueueInv'
  <2> SUFFICES ASSUME phase # "exiting", NEW j \in DOMAIN async_calls, async_calls'[j].written
               PROVE  LET m == async_calls[j].name
                      IN /\ m \in DOMAIN ckpt' => ckpt'[m].whole
                         /\ m.kind = "last" => m \in DOMAIN ckpt'
    BY <1>1, <1>5, <1>8 DEF QueueInv
  <2>1. CASE j = i
    BY <1>6, <2>1 DEF n
  <2>2. CASE j # i
    BY <1>5, <1>6, <1>9, <2>2 DEF QueueInv
  <2> QED BY <2>1, <2>2
<1>19. ResumeInv' /\ PruneInv' /\ CleanInv' /\ ExitInv'
  BY <1>1, <1>7 DEF ResumeInv, PruneInv, CleanInv, CleanAtStart, ExitInv, Training
<1>20. WholeInv'
  BY <1>1, <1>6, <1>7, <1>9 DEF WholeInv, Training
<1> QED
  BY <1>10, <1>11, <1>12, <1>13, <1>14, <1>15, <1>16, <1>17, <1>18, <1>19, <1>20

\* The oldest pending save is finalized once it is written.
LEMMA MaybeFinalizeKeeps == ASSUME IndInv, maybe_finalize_save_checkpoint PROVE IndInv'
<1> USE DEF IndInv
<1>1. /\ training' = training /\ ckpt' = ckpt /\ marked' = marked /\ phase' = phase
      /\ global_step' = global_step /\ ckpt_path' = ckpt_path
      /\ last_model_path' = last_model_path /\ best_k_models' = best_k_models
      /\ deferred_ckpts_to_remove' = deferred_ckpts_to_remove /\ starts' = starts
      /\ saved_step' = saved_step /\ exit_step' = exit_step
      /\ todo = <<>> /\ phase \in {"batch_end", "validated", "ending"}
      /\ async_calls # <<>> /\ Head(async_calls).written
      /\ todo' = <<Do("finalize", Head(async_calls).name)>> /\ async_calls' = Tail(async_calls)
  BY DEF maybe_finalize_save_checkpoint, disk, memory, history
<1> DEFINE n == async_calls[1].name
<1>2. /\ async_calls \in Seq(Calls) /\ Len(async_calls) \in Nat /\ 1 \in DOMAIN async_calls
      /\ DOMAIN async_calls = 1 .. Len(async_calls)
      /\ Head(async_calls) = async_calls[1] /\ async_calls[1] \in Calls
      /\ async_calls' \in Seq(Calls) /\ Len(async_calls') = Len(async_calls) - 1
      /\ \A i \in DOMAIN async_calls' : /\ i \in Nat /\ i + 1 \in DOMAIN async_calls
                                        /\ async_calls'[i] = async_calls[i + 1] /\ i + 1 # 1
      /\ DOMAIN async_calls' = 1 .. Len(async_calls')
  <2> HIDE DEF Calls
  <2> QED BY <1>1 DEF TypeOK
<1>3. n \in Known /\ n \in Pending /\ training.async_save /\ async_calls[1].written
  BY <1>1, <1>2 DEF Calls, Pending, PhaseInv
<1> HIDE DEF n
<1>4. /\ todo' \in Seq(Ops) /\ DOMAIN todo' = {1} /\ Len(todo') <= 1
      /\ todo'[1].op = "finalize" /\ todo'[1].name = n
  <2>1. Do("finalize", n) \in Ops /\ Do("finalize", n).op = "finalize" /\ Do("finalize", n).name = n
    BY <1>3 DEF Do, Ops, SaveOps
  <2>2. todo' = <<Do("finalize", n)>>
    BY <1>1, <1>2 DEF n
  <2> HIDE DEF Ops
  <2> QED BY <2>1, <2>2
<1>5. Finalizing = 0 /\ Finalizing' = 1 /\ DOMAIN todo = {}
  BY <1>1, <1>3, <1>4 DEF Finalizing
<1>6. Pending' \subseteq Pending
  BY <1>2 DEF Pending
<1>7. TypeOK' /\ PhaseInv'
  BY <1>1, <1>2, <1>3, <1>4 DEF TypeOK, PhaseInv
<1>8. OpInv' /\ MarkInv' /\ WriteInv' /\ DeleteInv' /\ RemovalInv'
  BY <1>1, <1>3, <1>4 DEF OpInv, MarkInv, WriteInv, DeleteInv, RemovalInv
<1>9. FinalizeInv'
  BY <1>1, <1>2, <1>3, <1>4 DEF FinalizeInv, QueueInv, n
<1>10. LastInv'
  BY <1>1, <1>3, <1>4, <1>6 DEF LastInv, OnDisk
<1>11. SavedInv' /\ ResumeInv' /\ ExitInv' /\ PruneInv' /\ CleanInv' /\ WholeInv'
  BY <1>1, <1>3 DEF SavedInv, Usable, OnDisk, ResumeInv, ExitInv, PruneInv, CleanInv, CleanAtStart, WholeInv
<1>12. ListInv'
  <2>1. Len(deferred_ckpts_to_remove') = Len(async_calls') + Finalizing'
    BY <1>1, <1>2, <1>5 DEF ListInv
  <2>2. /\ DOMAIN deferred_ckpts_to_remove = 1 .. Len(deferred_ckpts_to_remove)
        /\ Len(deferred_ckpts_to_remove) = Len(async_calls)
    BY <1>2, <1>5 DEF ListInv, TypeOK
  <2>3. ASSUME NEW k \in DOMAIN deferred_ckpts_to_remove PROVE CallOf(k)' = CallOf(k)
    <3>1. CASE k = 1
      BY <1>4, <1>5, <3>1 DEF CallOf, n
    <3>2. CASE k # 1
      <4>1. k - 1 \in DOMAIN async_calls' /\ (k - 1) + 1 = k
        BY <1>2, <2>2, <3>2
      <4> DEFINE j == k - 1
      <4>2. async_calls'[j] = async_calls[j + 1]
        BY <1>2, <4>1
      <4>3. async_calls'[k - 1] = async_calls[k]
        BY <4>1, <4>2
      <4> QED BY <1>5, <3>2, <4>3 DEF CallOf
    <3> QED BY <3>1, <3>2
  <2> QED BY <1>1, <2>1, <2>3 DEF ListInv, Outlives
<1>13. QueueInv'
  <2> SUFFICES ASSUME NEW i \in DOMAIN async_calls'
               PROVE  LET m == async_calls'[i].name
                      IN /\ m.step <= global_step /\ (phase = "batch_end" => m.step < global_step)
                         /\ m.kind = "last" => saved_step <= m.step
                         /\ async_calls'[i].written =>
                              /\ m \in DOMAIN ckpt => ckpt[m].whole
                              /\ m.kind = "last" => m \in DOMAIN ckpt
                         /\ \A j \in DOMAIN async_calls' :
                              i < j /\ m.kind = "last" /\ async_calls'[j].name.kind = "last" =>
                                m.step <= async_calls'[j].name.step
                         /\ m.kind = "last" /\ n.kind = "last" => n.step <= m.step
    BY <1>1, <1>4 DEF QueueInv
  <2> DEFINE k == i + 1
  <2>1. k \in DOMAIN async_calls /\ async_calls'[i] = async_calls[k] /\ 1 < k /\ phase # "exiting"
    BY <1>1, <1>2
  <2>2. ASSUME NEW j \in DOMAIN async_calls', i < j, async_calls[k].name.kind = "last",
               async_calls'[j].name.kind = "last"
        PROVE  async_calls[k].name.step <= async_calls'[j].name.step
    <3> DEFINE l == j + 1
    <3>1. l \in DOMAIN async_calls /\ async_calls'[j] = async_calls[l] /\ k < l
      BY <1>2, <2>2
    <3> HIDE DEF l, k
    <3> QED BY <2>1, <2>2, <3>1 DEF QueueInv
  <2> HIDE DEF k
  <2>3. async_calls[k].name.kind = "last" /\ n.kind = "last" => n.step <= async_calls[k].name.step
    BY <1>2, <2>1 DEF QueueInv, n
  <2> QED BY <2>1, <2>2, <2>3 DEF QueueInv
<1> QED BY <1>7, <1>8, <1>9, <1>10, <1>11, <1>12, <1>13

----------------------------------------------------------------------------
(* What a hook plans to do.                                                *)

\* One name is saved and another one is then removed, or none if d is NULL.
SaveThenRemove(n, d) ==
  _save_checkpoint(n) \o IF d # NULL THEN <<Do("remove", d)>> ELSE <<>>

Precedes(p, i, op) == i > 1 /\ p[i - 1].op = op /\ p[i - 1].name = p[i].name

\* A plan whose saves are complete and whose last checkpoint is L.
PlanOK(p, L) ==
  /\ p \in Seq(Ops)
  /\ \A i \in DOMAIN p :
       LET n == p[i].name
       IN /\ p[i].op \in SaveOps \cup {"remove"}
          /\ training.async_save => p[i].op \notin {"begin", "end", "finalize"}
          /\ ~training.async_save => p[i].op # "schedule"
          /\ p[i].op = "mark" =>
               /\ i < Len(p) /\ p[i + 1].op \in {"begin", "schedule"} /\ p[i + 1].name = n
               /\ \A j \in 1 .. i - 1 :
                    p[j].name # n /\ ~(n.kind = "last" /\ p[j].name.kind = "last")
          /\ p[i].op \in {"begin", "schedule"} => Precedes(p, i, "mark")
          /\ p[i].op = "finalize" => Precedes(p, i, "end")
          /\ p[i].op \in SaveOps => n.step = global_step /\ (n.kind = "last" => n = L)
          /\ p[i].op = "remove" /\ n.kind = "last" =>
               /\ i > 1 /\ p[i - 1].op \in {"finalize", "schedule"}
               /\ Outlives(p[i - 1].name, n)

\* The effects of a save.
LEMMA SaveIs ==
  ASSUME NEW n \in Known
  PROVE  LET s == _save_checkpoint(n)
         IN /\ s \in Seq(Ops)
            /\ training.async_save =>
                 /\ Len(s) = 2
                 /\ s[1].op = "mark" /\ s[1].name = n /\ s[2].op = "schedule" /\ s[2].name = n
            /\ ~training.async_save =>
                 /\ Len(s) = 4
                 /\ s[1].op = "mark" /\ s[1].name = n /\ s[2].op = "begin" /\ s[2].name = n
                 /\ s[3].op = "end" /\ s[3].name = n /\ s[4].op = "finalize" /\ s[4].name = n
<1>1. \A op \in SaveOps : Do(op, n) \in Ops /\ Do(op, n).op = op /\ Do(op, n).name = n
  BY DEF Do, Ops
<1>2. {"mark", "begin", "end", "schedule", "finalize"} \subseteq SaveOps
  BY DEF SaveOps
<1>3. CASE training.async_save
  <2>1. _save_checkpoint(n) = <<Do("mark", n), Do("schedule", n)>>
    BY <1>3 DEF _save_checkpoint
  <2> DEFINE a == Do("mark", n)
             b == Do("schedule", n)
  <2>2. /\ a \in Ops /\ a.op = "mark" /\ a.name = n
        /\ b \in Ops /\ b.op = "schedule" /\ b.name = n
    BY <1>1, <1>2
  <2> HIDE DEF a, b, Ops
  <2>3. /\ <<a, b>> \in Seq(Ops) /\ Len(<<a, b>>) = 2 /\ <<a, b>>[1] = a /\ <<a, b>>[2] = b
    BY <2>2
  <2> QED BY <1>3, <2>1, <2>2, <2>3 DEF a, b
<1>4. CASE ~training.async_save
  <2>1. _save_checkpoint(n) = <<Do("mark", n), Do("begin", n), Do("end", n), Do("finalize", n)>>
    BY <1>4 DEF _save_checkpoint
  <2> DEFINE a == Do("mark", n)
             b == Do("begin", n)
             c == Do("end", n)
             d == Do("finalize", n)
  <2>2. /\ a \in Ops /\ a.op = "mark" /\ a.name = n
        /\ b \in Ops /\ b.op = "begin" /\ b.name = n
        /\ c \in Ops /\ c.op = "end" /\ c.name = n
        /\ d \in Ops /\ d.op = "finalize" /\ d.name = n
    BY <1>1, <1>2
  <2> HIDE DEF a, b, c, d, Ops
  <2>3. /\ <<a, b, c, d>> \in Seq(Ops) /\ Len(<<a, b, c, d>>) = 4
        /\ <<a, b, c, d>>[1] = a /\ <<a, b, c, d>>[2] = b
        /\ <<a, b, c, d>>[3] = c /\ <<a, b, c, d>>[4] = d
    BY <2>2
  <2> QED BY <1>4, <2>1, <2>2, <2>3 DEF a, b, c, d
<1> QED BY <1>3, <1>4

\* A save and the removal after it are a plan of their own.
LEMMA OnePlan ==
  ASSUME TypeOK, NEW L, NEW n \in Known, n.step = global_step, n.kind = "last" => n = L,
         NEW d \in Known \cup {NULL}, d # NULL /\ d.kind = "last" => Outlives(n, d)
  PROVE  LET s == SaveThenRemove(n, d)
         IN /\ PlanOK(s, L)
            /\ \A i \in DOMAIN s : s[i].name = n \/ (d # NULL /\ s[i].name = d)
            /\ ~training.async_save => 4 \in DOMAIN s /\ s[4].op = "finalize" /\ s[4].name = n
<1> DEFINE base == _save_checkpoint(n)
           tail == IF d # NULL THEN <<Do("remove", d)>> ELSE <<>>
           s == SaveThenRemove(n, d)
           m == Len(base)
<1>1. /\ base \in Seq(Ops)
      /\ training.async_save =>
           /\ m = 2
           /\ base[1].op = "mark" /\ base[1].name = n /\ base[2].op = "schedule" /\ base[2].name = n
      /\ ~training.async_save =>
           /\ m = 4
           /\ base[1].op = "mark" /\ base[1].name = n /\ base[2].op = "begin" /\ base[2].name = n
           /\ base[3].op = "end" /\ base[3].name = n /\ base[4].op = "finalize" /\ base[4].name = n
  BY SaveIs
<1>2. /\ tail \in Seq(Ops) /\ Len(tail) \in {0, 1} /\ (Len(tail) > 0 => d # NULL)
      /\ Len(tail) > 0 => tail[1].op = "remove" /\ tail[1].name = d
  <2>1. CASE d = NULL
    <3>1. tail = <<>>
      BY <2>1
    <3> HIDE DEF Ops, tail
    <3>2. <<>> \in Seq(Ops) /\ Len(<<>>) = 0
      OBVIOUS
    <3> QED BY <3>1, <3>2
  <2>2. CASE d # NULL
    <3> DEFINE r == Do("remove", d)
    <3>1. r \in Ops /\ r.op = "remove" /\ r.name = d
      BY <2>2 DEF Do, Ops
    <3>2. tail = <<r>>
      BY <2>2
    <3> HIDE DEF Ops, tail, r
    <3>3. <<r>> \in Seq(Ops) /\ Len(<<r>>) = 1 /\ <<r>>[1] = r
      BY <3>1
    <3> QED BY <2>2, <3>1, <3>2, <3>3
  <2> QED BY <2>1, <2>2
<1>3. s = base \o tail
  BY DEF SaveThenRemove
<1> HIDE DEF base, tail, s
<1>4. /\ s \in Seq(Ops) /\ Len(s) = m + Len(tail)
      /\ \A i \in 1 .. m + Len(tail) : s[i] = IF i <= m THEN base[i] ELSE tail[i - m]
  BY <1>1, <1>2, <1>3, ConcatProperties
<1> HIDE DEF m
<1>5. /\ DOMAIN s = 1 .. Len(s) /\ m \in {2, 4} /\ Len(s) \in {m, m + 1}
      /\ Len(s) = m + 1 => d # NULL /\ s[m + 1].op = "remove" /\ s[m + 1].name = d
      /\ \A i \in 1 .. m : i \in DOMAIN s /\ s[i] = base[i]
  <2>1. DOMAIN s = 1 .. Len(s) /\ m \in {2, 4} /\ Len(s) \in {m, m + 1}
    BY <1>1, <1>2, <1>4
  <2>2. \A i \in 1 .. m : i \in DOMAIN s /\ s[i] = base[i]
    BY <1>2, <1>4, <2>1
  <2>3. ASSUME Len(s) = m + 1 PROVE d # NULL /\ s[m + 1].op = "remove" /\ s[m + 1].name = d
    <3>1. Len(tail) = 1
      BY <1>2, <1>4, <2>1, <2>3
    <3> DEFINE t == Len(tail)
    <3>2. t = 1
      BY <3>1
    <3> HIDE DEF t
    <3>3. m + 1 \in 1 .. m + t /\ ~(m + 1 <= m) /\ (m + 1) - m = 1
      <4>1. m \in Nat
        <5>1. m = 2 \/ m = 4
          BY <1>1
        <5> QED BY <5>1
      <4>2. \A x \in Nat : x + 1 \in 1 .. x + 1 /\ ~(x + 1 <= x) /\ (x + 1) - x = 1
        OBVIOUS
      <4> QED BY <3>2, <4>1, <4>2
    <3>4. s[m + 1] = tail[1]
      BY <1>4, <3>3 DEF t
    <3> QED BY <1>2, <3>1, <3>4
  <2> QED BY <2>1, <2>2, <2>3
<1>6. ASSUME training.async_save
      PROVE  /\ PlanOK(s, L)
             /\ \A i \in DOMAIN s : s[i].name = n \/ (d # NULL /\ s[i].name = d)
  <2>1. /\ m = 2 /\ DOMAIN s = 1 .. Len(s) /\ Len(s) \in {2, 3}
        /\ s[1].op = "mark" /\ s[1].name = n /\ s[2].op = "schedule" /\ s[2].name = n
        /\ Len(s) = 3 => d # NULL /\ s[3].op = "remove" /\ s[3].name = d
    BY <1>1, <1>5, <1>6
  <2>2. \A i \in DOMAIN s : i = 1 \/ i = 2 \/ (i = 3 /\ Len(s) = 3)
    BY <2>1
  <2>3. PlanOK(s, L)
    <3> SUFFICES ASSUME NEW i \in DOMAIN s
                 PROVE  LET k == s[i].name
                        IN /\ s[i].op \in SaveOps \cup {"remove"}
                           /\ s[i].op \notin {"begin", "end", "finalize"}
                           /\ s[i].op = "mark" =>
                                /\ i < Len(s) /\ s[i + 1].op \in {"begin", "schedule"} /\ s[i + 1].name = k
                                /\ \A j \in 1 .. i - 1 :
                                     s[j].name # k /\ ~(k.kind = "last" /\ s[j].name.kind = "last")
                           /\ s[i].op \in {"begin", "schedule"} => Precedes(s, i, "mark")
                           /\ s[i].op \in SaveOps => k.step = global_step /\ (k.kind = "last" => k = L)
                           /\ s[i].op = "remove" /\ k.kind = "last" =>
                                /\ i > 1 /\ s[i - 1].op \in {"finalize", "schedule"}
                                /\ Outlives(s[i - 1].name, k)
      BY <1>4, <1>6 DEF PlanOK
    <3>1. CASE i = 1
      BY <2>1, <3>1 DEF SaveOps, Precedes
    <3>2. CASE i = 2
      BY <2>1, <3>2 DEF SaveOps, Precedes
    <3>3. CASE i = 3 /\ Len(s) = 3
      BY <2>1, <3>3 DEF SaveOps, Precedes
    <3> QED BY <2>2, <3>1, <3>2, <3>3
  <2> QED BY <2>1, <2>2, <2>3
<1>7. ASSUME ~training.async_save
      PROVE  /\ PlanOK(s, L)
             /\ \A i \in DOMAIN s : s[i].name = n \/ (d # NULL /\ s[i].name = d)
             /\ 4 \in DOMAIN s /\ s[4].op = "finalize" /\ s[4].name = n
  <2>1. /\ m = 4 /\ DOMAIN s = 1 .. Len(s) /\ Len(s) \in {4, 5}
        /\ s[1].op = "mark" /\ s[1].name = n /\ s[2].op = "begin" /\ s[2].name = n
        /\ s[3].op = "end" /\ s[3].name = n /\ s[4].op = "finalize" /\ s[4].name = n
        /\ Len(s) = 5 => d # NULL /\ s[5].op = "remove" /\ s[5].name = d
    <3>1. m = 4 /\ m + 1 = 5 /\ \A i \in {1, 2, 3, 4} : s[i] = base[i]
      BY <1>1, <1>5, <1>7
    <3>2. DOMAIN s = 1 .. Len(s) /\ Len(s) \in {4, 5}
          /\ (Len(s) = 5 => d # NULL /\ s[5].op = "remove" /\ s[5].name = d)
      BY <1>5, <3>1
    <3> QED BY <1>1, <1>7, <3>1, <3>2
  <2>2. \A i \in DOMAIN s : i = 1 \/ i = 2 \/ i = 3 \/ i = 4 \/ (i = 5 /\ Len(s) = 5)
    BY <2>1
  <2>3. PlanOK(s, L)
    <3> SUFFICES ASSUME NEW i \in DOMAIN s
                 PROVE  LET k == s[i].name
                        IN /\ s[i].op \in SaveOps \cup {"remove"}
                           /\ s[i].op # "schedule"
                           /\ s[i].op = "mark" =>
                                /\ i < Len(s) /\ s[i + 1].op \in {"begin", "schedule"} /\ s[i + 1].name = k
                                /\ \A j \in 1 .. i - 1 :
                                     s[j].name # k /\ ~(k.kind = "last" /\ s[j].name.kind = "last")
                           /\ s[i].op \in {"begin", "schedule"} => Precedes(s, i, "mark")
                           /\ s[i].op = "finalize" => Precedes(s, i, "end")
                           /\ s[i].op \in SaveOps => k.step = global_step /\ (k.kind = "last" => k = L)
                           /\ s[i].op = "remove" /\ k.kind = "last" =>
                                /\ i > 1 /\ s[i - 1].op \in {"finalize", "schedule"}
                                /\ Outlives(s[i - 1].name, k)
      BY <1>4, <1>7 DEF PlanOK
    <3>1. CASE i = 1
      BY <2>1, <3>1 DEF SaveOps, Precedes
    <3>2. CASE i = 2
      BY <2>1, <3>2 DEF SaveOps, Precedes
    <3>3. CASE i = 3
      BY <2>1, <3>3 DEF SaveOps, Precedes
    <3>4. CASE i = 4
      BY <2>1, <3>4 DEF SaveOps, Precedes
    <3>5. CASE i = 5 /\ Len(s) = 5
      BY <2>1, <3>5 DEF SaveOps, Precedes
    <3> QED BY <2>2, <3>1, <3>2, <3>3, <3>4, <3>5
  <2>4. 4 \in DOMAIN s
    BY <2>1
  <2> QED BY <2>1, <2>2, <2>3, <2>4
<1> QED BY <1>6, <1>7 DEF s

\* A plan for top-k checkpoints and one for last checkpoints are a plan.
LEMMA TwoPlans ==
  ASSUME NEW L, NEW p, NEW q, PlanOK(p, L), PlanOK(q, L),
         \A i \in DOMAIN p : p[i].name.kind = "topk", \A i \in DOMAIN q : q[i].name.kind = "last"
  PROVE  /\ PlanOK(p \o q, L)
         /\ \A j \in DOMAIN q : \E i \in DOMAIN (p \o q) : (p \o q)[i] = q[j]
<1> DEFINE s == p \o q
           m == Len(p)
<1>1. p \in Seq(Ops) /\ q \in Seq(Ops)
  BY DEF PlanOK
<1>2. /\ DOMAIN p = 1 .. m /\ DOMAIN q = 1 .. Len(q) /\ m \in Nat /\ Len(q) \in Nat
  <2> HIDE DEF Ops
  <2> QED BY <1>1
<1>3. /\ s \in Seq(Ops) /\ Len(s) = m + Len(q) /\ DOMAIN s = 1 .. m + Len(q)
      /\ \A i \in 1 .. m + Len(q) : s[i] = IF i <= m THEN p[i] ELSE q[i - m]
  <2> HIDE DEF Ops, s
  <2>1. /\ s \in Seq(Ops) /\ Len(s) = m + Len(q)
        /\ \A i \in 1 .. m + Len(q) : s[i] = IF i <= m THEN p[i] ELSE q[i - m]
    BY <1>1, ConcatProperties DEF s
  <2> QED BY <2>1
<1> HIDE DEF s, m
<1>4. \A i \in DOMAIN p : i \in DOMAIN s /\ s[i] = p[i]
  BY <1>2, <1>3
<1>5. \A j \in DOMAIN q : m + j \in DOMAIN s /\ s[m + j] = q[j]
  <2> SUFFICES ASSUME NEW j \in DOMAIN q PROVE m + j \in DOMAIN s /\ s[m + j] = q[j]
    OBVIOUS
  <2>1. m + j \in 1 .. m + Len(q) /\ ~(m + j <= m) /\ (m + j) - m = j
    BY <1>2
  <2> QED BY <1>3, <2>1
<1>6. ASSUME NEW i \in DOMAIN s
      PROVE  \/ i \in DOMAIN p /\ s[i] = p[i]
             \/ \E j \in DOMAIN q : i = m + j /\ s[i] = q[j]
  <2>1. CASE i <= m
    BY <1>2, <1>3, <2>1
  <2>2. CASE ~(i <= m)
    <3>1. i - m \in DOMAIN q /\ i = m + (i - m)
      BY <1>2, <1>3, <2>2
    <3> QED BY <1>5, <3>1
  <2> QED BY <2>1, <2>2
<1> DEFINE Fine(i) ==
  LET n == s[i].name
  IN /\ s[i].op \in SaveOps \cup {"remove"}
     /\ training.async_save => s[i].op \notin {"begin", "end", "finalize"}
     /\ ~training.async_save => s[i].op # "schedule"
     /\ s[i].op = "mark" =>
          /\ i < Len(s) /\ s[i + 1].op \in {"begin", "schedule"} /\ s[i + 1].name = n
          /\ \A j \in 1 .. i - 1 :
               s[j].name # n /\ ~(n.kind = "last" /\ s[j].name.kind = "last")
     /\ s[i].op \in {"begin", "schedule"} => Precedes(s, i, "mark")
     /\ s[i].op = "finalize" => Precedes(s, i, "end")
     /\ s[i].op \in SaveOps => n.step = global_step /\ (n.kind = "last" => n = L)
     /\ s[i].op = "remove" /\ n.kind = "last" =>
          /\ i > 1 /\ s[i - 1].op \in {"finalize", "schedule"}
          /\ Outlives(s[i - 1].name, n)
<1>7. ASSUME NEW i \in DOMAIN p PROVE Fine(i)
  <2>1. s[i] = p[i] /\ i \in Nat /\ i <= m
    BY <1>2, <1>4
  <2>2. i < m => s[i + 1] = p[i + 1]
    <3> SUFFICES ASSUME i < m PROVE i + 1 \in DOMAIN p
      BY <1>4
    <3> QED BY <1>2
  <2>3. i > 1 => s[i - 1] = p[i - 1]
    <3> SUFFICES ASSUME i > 1 PROVE i - 1 \in DOMAIN p
      BY <1>4
    <3> QED BY <1>2
  <2>4. \A j \in 1 .. i - 1 : s[j] = p[j]
    <3> SUFFICES ASSUME NEW j \in 1 .. i - 1 PROVE j \in DOMAIN p
      BY <1>4
    <3> QED BY <1>2, <2>1
  <2>5. i < m => i < Len(s)
    BY <1>2, <1>3, <2>1
  <2>6. LET n == p[i].name
        IN /\ p[i].op \in SaveOps \cup {"remove"}
           /\ training.async_save => p[i].op \notin {"begin", "end", "finalize"}
           /\ ~training.async_save => p[i].op # "schedule"
           /\ p[i].op = "mark" =>
                /\ i < Len(p) /\ p[i + 1].op \in {"begin", "schedule"} /\ p[i + 1].name = n
                /\ \A l \in 1 .. i - 1 :
                     p[l].name # n /\ ~(n.kind = "last" /\ p[l].name.kind = "last")
           /\ p[i].op \in {"begin", "schedule"} =>
                i > 1 /\ p[i - 1].op = "mark" /\ p[i - 1].name = n
           /\ p[i].op = "finalize" => i > 1 /\ p[i - 1].op = "end" /\ p[i - 1].name = n
           /\ p[i].op \in SaveOps => n.step = global_step /\ (n.kind = "last" => n = L)
           /\ p[i].op = "remove" /\ n.kind = "last" =>
                /\ i > 1 /\ p[i - 1].op \in {"finalize", "schedule"}
                /\ Outlives(p[i - 1].name, n)
    BY DEF PlanOK, Precedes
  <2>7. i < Len(p) <=> i < m
    BY DEF m
  <2> QED BY <2>1, <2>2, <2>3, <2>4, <2>5, <2>6, <2>7 DEF Precedes
<1>8. ASSUME NEW j \in DOMAIN q PROVE Fine(m + j)
  <2> DEFINE i == m + j
  <2>1. /\ s[i] = q[j] /\ q[j].name.kind = "last" /\ j \in Nat /\ i \in Nat
    BY <1>2, <1>5
  <2>2. j < Len(q) => s[i + 1] = q[j + 1]
    <3> SUFFICES ASSUME j < Len(q) PROVE s[i + 1] = q[j + 1]
      OBVIOUS
    <3>1. j + 1 \in DOMAIN q /\ m + (j + 1) = i + 1
      BY <1>2
    <3>2. s[m + (j + 1)] = q[j + 1]
      BY <1>5, <3>1
    <3> QED BY <3>1, <3>2
  <2>3. j > 1 => s[i - 1] = q[j - 1] /\ i > 1
    <3> SUFFICES ASSUME j > 1 PROVE s[i - 1] = q[j - 1] /\ i > 1
      OBVIOUS
    <3>1. j - 1 \in DOMAIN q /\ m + (j - 1) = i - 1 /\ i > 1
      BY <1>2
    <3>2. s[m + (j - 1)] = q[j - 1]
      BY <1>5, <3>1
    <3> QED BY <3>1, <3>2
  <2>4. ASSUME NEW k \in 1 .. i - 1
        PROVE  s[k].name.kind = "topk" \/ \E l \in 1 .. j - 1 : s[k] = q[l]
    <3>1. CASE k <= m
      BY <1>2, <1>4, <3>1
    <3>2. CASE ~(k <= m)
      <4>1. k - m \in DOMAIN q /\ k - m \in 1 .. j - 1 /\ m + (k - m) = k
        BY <1>2, <3>2
      <4>2. s[m + (k - m)] = q[k - m]
        BY <1>5, <4>1
      <4> QED BY <4>1, <4>2
    <3> QED BY <3>1, <3>2
  <2>5. j < Len(q) => i < Len(s)
    BY <1>2, <1>3
  <2>6. LET n == q[j].name
        IN /\ q[j].op \in SaveOps \cup {"remove"}
           /\ training.async_save => q[j].op \notin {"begin", "end", "finalize"}
           /\ ~training.async_save => q[j].op # "schedule"
           /\ q[j].op = "mark" =>
                /\ j < Len(q) /\ q[j + 1].op \in {"begin", "schedule"} /\ q[j + 1].name = n
                /\ \A l \in 1 .. j - 1 :
                     q[l].name # n /\ ~(n.kind = "last" /\ q[l].name.kind = "last")
           /\ q[j].op \in {"begin", "schedule"} =>
                j > 1 /\ q[j - 1].op = "mark" /\ q[j - 1].name = n
           /\ q[j].op = "finalize" => j > 1 /\ q[j - 1].op = "end" /\ q[j - 1].name = n
           /\ q[j].op \in SaveOps => n.step = global_step /\ (n.kind = "last" => n = L)
           /\ q[j].op = "remove" /\ n.kind = "last" =>
                /\ j > 1 /\ q[j - 1].op \in {"finalize", "schedule"}
                /\ Outlives(q[j - 1].name, n)
    BY DEF PlanOK, Precedes
  <2> HIDE DEF i
  <2>7. q[j].op = "mark" => \A k \in 1 .. i - 1 :
          s[k].name # q[j].name /\ ~(q[j].name.kind = "last" /\ s[k].name.kind = "last")
    BY <2>1, <2>4, <2>6
  <2>8. Fine(i)
    BY <2>1, <2>2, <2>3, <2>5, <2>6, <2>7 DEF Precedes
  <2> QED BY <2>8 DEF i
<1>9. \A i \in DOMAIN s : Fine(i)
  <2> HIDE DEF Fine
  <2> QED BY <1>6, <1>7, <1>8
<1>10. PlanOK(s, L)
  BY <1>3, <1>9 DEF PlanOK
<1>11. \A j \in DOMAIN q : \E i \in DOMAIN s : s[i] = q[j]
  BY <1>5
<1> QED BY <1>10, <1>11 DEF s

\* The last checkpoint that is saved next has the name of its step, and a new one unless
\* it is the very checkpoint that is there already.
LEMMA LastNameIs ==
  ASSUME IndInv, phase \in Training
  PROVE  /\ LastName = Name("last", global_step, 0, 0)
         /\ LastName \in LastNames /\ LastName.kind = "last" /\ LastName.step = global_step
         /\ LastName \notin DOMAIN ckpt \cup Pending \/ LastName = last_model_path
         /\ last_model_path # NULL =>
              /\ last_model_path \in LastNames /\ last_model_path.step \in Nat
              /\ last_model_path # LastName => last_model_path.step < global_step
<1> USE DEF IndInv
<1> DEFINE n == Name("last", global_step, 0, 0)
<1>1. n \in LastNames /\ n \in Known /\ n.kind = "last" /\ n.step = global_step /\ global_step \in Nat
  BY DEF TypeOK, LastNames, Known, Name
<1>2. last_model_path # NULL =>
        /\ last_model_path \in LastNames /\ last_model_path.step \in Nat
        /\ last_model_path.step <= global_step
        /\ last_model_path.step >= global_step => last_model_path = n
  <2> SUFFICES ASSUME last_model_path # NULL
               PROVE  /\ last_model_path \in LastNames /\ last_model_path.step \in Nat
                      /\ last_model_path.step <= global_step
                      /\ last_model_path.step >= global_step => last_model_path = n
    OBVIOUS
  <2>1. /\ last_model_path \in LastNames /\ last_model_path.step \in Nat
        /\ last_model_path.step <= global_step
    BY NameShape DEF TypeOK, LastInv
  <2>2. ASSUME last_model_path.step >= global_step PROVE last_model_path = n
    <3>1. last_model_path.step = n.step
      BY <1>1, <2>1, <2>2
    <3> HIDE DEF n
    <3> QED BY <1>1, <2>1, <3>1, LastByStep
  <2> QED BY <2>1, <2>2
<1>3. n \in DOMAIN ckpt \cup Pending => n = last_model_path
  <2>1. CASE n \in DOMAIN ckpt
    <3>1. last_model_path # NULL /\ n.step <= last_model_path.step
      BY <1>1, <2>1 DEF LastInv, OnDisk
    <3> QED BY <1>1, <1>2, <3>1
  <2>2. CASE n \in Pending
    <3>1. last_model_path # NULL /\ n.step <= last_model_path.step
      BY <1>1, <2>2 DEF LastInv
    <3> QED BY <1>1, <1>2, <3>1
  <2> QED BY <2>1, <2>2
<1>4. LastName = n
  <2> HIDE DEF n
  <2>1. PICK v \in Nat :
          /\ FreshName(n, last_model_path) = [n EXCEPT !.ver = v]
          /\ \A u \in Nat : u < v =>
               [n EXCEPT !.ver = u] \in DOMAIN ckpt /\ [n EXCEPT !.ver = u] # last_model_path
    BY <1>1, FreshNameIs
  <2>2. [n EXCEPT !.ver = 0] = n
    BY DEF n, Name
  <2>3. v = 0
    <3> SUFFICES ASSUME 0 < v PROVE FALSE
      OBVIOUS
    <3>1. n \in DOMAIN ckpt /\ n # last_model_path
      BY <2>1, <2>2
    <3> QED BY <1>3, <3>1
  <2> QED BY <2>1, <2>2, <2>3 DEF LastName, n
<1> HIDE DEF n
<1>5. last_model_path # NULL /\ last_model_path # n => last_model_path.step < global_step
  BY <1>1, <1>2
<1> QED BY <1>1, <1>2, <1>3, <1>4, <1>5 DEF n

\* A hook that plans to save keeps the invariant.
LEMMA PlanKeeps ==
  ASSUME IndInv, todo = <<>>, phase \in Training, phase \notin {"exiting", "done"},
         phase' \in {"validated", "exiting", "ended"},
         NEW L \in LastNames, L.step = global_step, L.kind = "last", PlanOK(todo', L),
         last_model_path' = L,
         saved_step' = 0 \/ L \notin DOMAIN ckpt \cup Pending,
         phase' # "exiting" => \A m \in Pending : m.step < global_step,
         ~training.async_save /\ phase' = "exiting" =>
           \E i \in DOMAIN todo' : todo'[i].op = "finalize" /\ todo'[i].name = L,
         best_k_models' \subseteq TopkNames, IsFiniteSet(best_k_models'),
         \/ saved_step' = saved_step /\ exit_step' = exit_step
         \/ saved_step' = 0 /\ exit_step' = 0,
         training' = training, ckpt' = ckpt, marked' = marked, global_step' = global_step,
         ckpt_path' = ckpt_path, async_calls' = async_calls,
         deferred_ckpts_to_remove' = deferred_ckpts_to_remove, starts' = starts
  PROVE  IndInv'
<1> USE DEF IndInv
<1>1. /\ todo' \in Seq(Ops) /\ DOMAIN todo = {} /\ Pending' = Pending /\ Finalizing = 0
      /\ phase \in Training /\ phase' \in Working /\ phase' \in Training /\ phase' # "batch_end"
      /\ {global_step, saved_step, saved_step', exit_step, exit_step'} \subseteq Nat
      /\ L # NULL /\ L.step \in Nat
  BY NameShape DEF PlanOK, Pending, Finalizing, Working, Training, TypeOK
<1>2. ASSUME NEW i \in DOMAIN todo'
      PROVE  LET n == todo'[i].name
             IN /\ todo'[i].op \in SaveOps \cup {"remove"}
                /\ training.async_save => todo'[i].op \notin {"begin", "end", "finalize"}
                /\ ~training.async_save => todo'[i].op # "schedule"
                /\ todo'[i].op = "mark" =>
                     /\ i < Len(todo') /\ todo'[i + 1].op \in {"begin", "schedule"}
                     /\ todo'[i + 1].name = n
                     /\ \A j \in 1 .. i - 1 :
                          todo'[j].name # n /\ ~(n.kind = "last" /\ todo'[j].name.kind = "last")
                /\ todo'[i].op \in {"begin", "schedule"} => Follows(i, "mark")'
                /\ todo'[i].op = "finalize" => Follows(i, "end")'
                /\ todo'[i].op \in SaveOps =>
                     n.step = global_step /\ (n.kind = "last" => n = L)
                /\ todo'[i].op = "remove" /\ n.kind = "last" =>
                     /\ i > 1 /\ todo'[i - 1].op \in {"finalize", "schedule"}
                     /\ Outlives(todo'[i - 1].name, n)
  BY DEF PlanOK, Precedes, Follows
<1>3. Finalizing' = 0
  BY <1>2 DEF Finalizing
<1>4. TypeOK' /\ PhaseInv'
  BY <1>1 DEF TypeOK, PhaseInv, Phases, Working, Training
<1>5. OpInv'
  BY <1>1, <1>2 DEF OpInv, Working, SaveOps
<1>6. MarkInv'
  BY <1>1, <1>2, <1>3 DEF MarkInv, SaveOps
<1>7. WriteInv' /\ FinalizeInv' /\ DeleteInv'
  BY <1>2 DEF WriteInv, FinalizeInv, DeleteInv, SaveOps
<1>8. LastInv'
  <2>1. ASSUME NEW n \in OnDisk("last") \cup Pending, n.kind = "last" PROVE n.step <= global_step
    <3>1. last_model_path # NULL /\ n.step <= last_model_path.step /\ last_model_path.step <= global_step
      BY <1>1, <2>1 DEF LastInv
    <3>2. n \in Known
      <4>1. CASE n \in OnDisk("last")
        BY <4>1 DEF OnDisk, TypeOK
      <4>2. CASE n \in Pending
        <5>1. \A i \in DOMAIN async_calls : async_calls[i] \in Calls
          BY DEF TypeOK
        <5> QED BY <4>2, <5>1 DEF Pending, Calls
      <4> QED BY <4>1, <4>2
    <3>3. n.step \in Nat /\ last_model_path.step \in Nat
      BY <3>1, <3>2, NameShape DEF TypeOK
    <3> QED BY <1>1, <3>1, <3>3
  <2> QED BY <1>1, <1>2, <2>1 DEF LastInv, OnDisk
<1>9. SavedInv'
  <2>1. CASE saved_step' = 0
    BY <1>1, <2>1 DEF SavedInv
  <2>2. CASE saved_step' = saved_step
    <3>1. saved_step > 0 => saved_step <= L.step
      <4> SUFFICES ASSUME saved_step > 0 PROVE saved_step <= L.step
        OBVIOUS
      <4>1. /\ last_model_path # NULL /\ saved_step <= last_model_path.step
            /\ last_model_path.step <= global_step
        BY <1>1 DEF SavedInv, LastInv
      <4>2. last_model_path.step \in Nat
        BY <4>1, NameShape DEF TypeOK
      <4> QED BY <1>1, <4>1, <4>2
    <3> QED BY <1>1, <2>2, <3>1 DEF SavedInv, Usable, OnDisk
  <2> QED BY <2>1, <2>2
<1>10. RemovalInv'
  BY <1>1, <1>2 DEF RemovalInv, SaveOps
<1>11. ListInv'
  BY <1>1, <1>3 DEF ListInv, CallOf, Outlives
<1>12. QueueInv'
  <2> SUFFICES ASSUME phase' # "exiting" PROVE QueueInv'
    BY DEF QueueInv
  <2>1. ASSUME NEW i \in DOMAIN todo', todo'[i].op = "schedule" PROVE todo'[i].name \notin Pending
    <3>1. todo'[i].name.step = global_step
      BY <1>2, <2>1 DEF SaveOps
    <3> QED BY <1>1, <3>1
  <2>2. ASSUME NEW i \in DOMAIN async_calls
        PROVE  /\ async_calls[i].name.step <= global_step
               /\ async_calls[i].name.kind = "last" => saved_step' <= async_calls[i].name.step
    <3>1. async_calls[i].name \in Pending /\ async_calls[i] \in Calls
      BY DEF Pending, TypeOK
    <3>2. async_calls[i].name.step \in Nat
      BY <3>1, NameShape DEF Calls
    <3>3. async_calls[i].name.kind = "last" => saved_step <= async_calls[i].name.step
      BY DEF QueueInv, Training
    <3> QED BY <1>1, <3>1, <3>2, <3>3
  <2> QED BY <1>1, <1>3, <2>1, <2>2 DEF QueueInv
<1>13. ExitInv'
  BY <1>1 DEF ExitInv
<1>14. ResumeInv' /\ PruneInv' /\ CleanInv'
  BY <1>1, StartedLong
<1>15. WholeInv'
  BY <1>1 DEF WholeInv, Training
<1> QED
  BY <1>4, <1>5, <1>6, <1>7, <1>8, <1>9, <1>10, <1>11, <1>12, <1>13, <1>14, <1>15

\* Saving the last checkpoint and removing the former one is a plan.
LEMMA LastPlan ==
  ASSUME IndInv, phase \in Training
  PROVE  LET p == _save_last_checkpoint(LastName)
         IN /\ PlanOK(p, LastName)
            /\ \A i \in DOMAIN p : p[i].name.kind = "last"
            /\ ~training.async_save => \E i \in DOMAIN p : p[i].op = "finalize" /\ p[i].name = LastName
<1> DEFINE d == IF _should_remove_checkpoint(last_model_path, LastName) THEN last_model_path ELSE NULL
<1>1. /\ LastName \in LastNames /\ LastName \in Known /\ LastName.kind = "last"
      /\ LastName.step = global_step
  BY LastNameIs DEF Known
<1>2. /\ d \in Known \cup {NULL} /\ (d # NULL => d.kind = "last" /\ Outlives(LastName, d))
      /\ _save_last_checkpoint(LastName) = SaveThenRemove(LastName, d)
  <2>1. CASE _should_remove_checkpoint(last_model_path, LastName)
    <3>1. last_model_path # NULL /\ last_model_path # LastName /\ d = last_model_path
      BY <2>1 DEF _should_remove_checkpoint
    <3>2. last_model_path \in LastNames /\ last_model_path.step < global_step
      BY <3>1, LastNameIs
    <3>3. _save_last_checkpoint(LastName) = SaveThenRemove(LastName, d)
      BY <2>1, <3>1 DEF _save_last_checkpoint, SaveThenRemove
    <3> HIDE DEF d
    <3> QED BY <1>1, <3>1, <3>2, <3>3, NameShape DEF Known, Outlives
  <2>2. CASE ~_should_remove_checkpoint(last_model_path, LastName)
    <3>1. d = NULL
      BY <2>2
    <3> HIDE DEF d
    <3> QED BY <2>2, <3>1 DEF _save_last_checkpoint, SaveThenRemove
  <2> QED BY <2>1, <2>2
<1> HIDE DEF d
<1> DEFINE p == SaveThenRemove(LastName, d)
<1>3. /\ PlanOK(p, LastName)
      /\ \A i \in DOMAIN p : p[i].name = LastName \/ (d # NULL /\ p[i].name = d)
      /\ ~training.async_save => 4 \in DOMAIN p /\ p[4].op = "finalize" /\ p[4].name = LastName
  BY <1>1, <1>2, OnePlan DEF IndInv
<1> HIDE DEF p
<1>4. /\ PlanOK(p, LastName) /\ \A i \in DOMAIN p : p[i].name.kind = "last"
      /\ ~training.async_save => \E i \in DOMAIN p : p[i].op = "finalize" /\ p[i].name = LastName
  BY <1>1, <1>2, <1>3
<1> QED BY <1>2, <1>4 DEF p

\* An exit saves the last checkpoint in place of the former one, or over it.
LEMMA GracefulExitKeeps == ASSUME IndInv, GracefulExit PROVE IndInv'
<1>1. /\ training' = training /\ ckpt' = ckpt /\ marked' = marked
      /\ global_step' = global_step /\ ckpt_path' = ckpt_path
      /\ best_k_models' = best_k_models /\ async_calls' = async_calls
      /\ deferred_ckpts_to_remove' = deferred_ckpts_to_remove /\ starts' = starts
      /\ todo = <<>> /\ phase \in {"batch_end", "fit_start", "validated"} /\ phase' = "exiting"
      /\ todo' = _save_last_checkpoint(LastName) /\ last_model_path' = LastName
      /\ IF LastName = last_model_path
           THEN saved_step' = 0 /\ exit_step' = 0
           ELSE saved_step' = saved_step /\ exit_step' = exit_step
  BY DEF GracefulExit, MayExit, disk, async, history
<1>2. phase \in Training /\ phase \notin {"exiting", "done"}
  BY <1>1 DEF Training
<1>3. /\ LastName \in LastNames /\ LastName.kind = "last" /\ LastName.step = global_step
      /\ LastName \notin DOMAIN ckpt \cup Pending \/ LastName = last_model_path
  BY <1>2, LastNameIs
<1>4. /\ PlanOK(todo', LastName)
      /\ ~training.async_save =>
           \E i \in DOMAIN todo' : todo'[i].op = "finalize" /\ todo'[i].name = LastName
  BY <1>1, <1>2, LastPlan
<1>5. best_k_models' \subseteq TopkNames /\ IsFiniteSet(best_k_models')
  BY <1>1 DEF IndInv, TypeOK
<1> DEFINE L == LastName
<1>6. /\ L \in LastNames /\ L.kind = "last" /\ L.step = global_step /\ last_model_path' = L
      /\ saved_step' = 0 \/ L \notin DOMAIN ckpt \cup Pending
      /\ PlanOK(todo', L)
      /\ ~training.async_save =>
           \E i \in DOMAIN todo' : todo'[i].op = "finalize" /\ todo'[i].name = L
      /\ \/ saved_step' = saved_step /\ exit_step' = exit_step
         \/ saved_step' = 0 /\ exit_step' = 0
  BY <1>1, <1>3, <1>4
<1> HIDE DEF L
<1> QED BY <1>1, <1>2, <1>5, <1>6, PlanKeeps

\* The end of training saves a last checkpoint, if the last validation did not.
LEMMA OnTrainEndKeeps == ASSUME IndInv, on_train_end PROVE IndInv'
<1>1. /\ training' = training /\ ckpt' = ckpt /\ marked' = marked
      /\ global_step' = global_step /\ ckpt_path' = ckpt_path
      /\ best_k_models' = best_k_models /\ async_calls' = async_calls
      /\ deferred_ckpts_to_remove' = deferred_ckpts_to_remove /\ starts' = starts
      /\ saved_step' = saved_step /\ exit_step' = exit_step
      /\ phase = "ending" /\ phase' = "ended" /\ todo = <<>> /\ async_calls = <<>>
      /\ \/ todo' = <<>> /\ last_model_path' = last_model_path
         \/ /\ last_model_path # Name("last", global_step, 0, 0)
            /\ todo' = _save_last_checkpoint(LastName) /\ last_model_path' = LastName
  BY DEF on_train_end, disk, async, history
<1>2. phase \in Training /\ phase \notin {"exiting", "done"} /\ Pending = {}
  BY <1>1 DEF Training, Pending
<1>3. CASE todo' = <<>> /\ last_model_path' = last_model_path
  <2> USE DEF IndInv
  <2>1. /\ OpInv' /\ MarkInv' /\ WriteInv' /\ FinalizeInv' /\ DeleteInv' /\ RemovalInv'
        /\ Finalizing' = 0 /\ DOMAIN todo' = {} /\ todo' \in Seq(Ops)
    BY <1>3, IdleIs
  <2>2. /\ DOMAIN async_calls' = {} /\ Pending' = {} /\ Finalizing = 0
        /\ OnDisk("last")' = OnDisk("last") /\ Usable("last")' = Usable("last")
    BY <1>1 DEF Pending, Finalizing, OnDisk, Usable
  <2>3. TypeOK' /\ PhaseInv'
    BY <1>1, <1>3, <2>1 DEF TypeOK, PhaseInv, Phases
  <2>4. LastInv' /\ SavedInv' /\ ListInv' /\ QueueInv' /\ ExitInv' /\ ResumeInv'
    BY <1>1, <1>3, <2>1, <2>2
    DEF LastInv, SavedInv, ListInv, CallOf, Outlives, QueueInv, ExitInv, ResumeInv, Training
  <2>5. WholeInv' /\ PruneInv' /\ CleanInv'
    BY <1>1 DEF WholeInv, PruneInv, CleanInv, CleanAtStart
  <2> QED BY <2>1, <2>3, <2>4, <2>5
<1>4. CASE ~(todo' = <<>> /\ last_model_path' = last_model_path)
  <2> DEFINE L == LastName
  <2>1. /\ L \in LastNames /\ L.kind = "last" /\ L.step = global_step
        /\ L \notin DOMAIN ckpt \cup Pending
    BY <1>1, <1>2, <1>4, LastNameIs
  <2>2. PlanOK(todo', L) /\ last_model_path' = L
    BY <1>1, <1>2, <1>4, LastPlan
  <2>3. best_k_models' \subseteq TopkNames /\ IsFiniteSet(best_k_models')
    BY <1>1 DEF IndInv, TypeOK
  <2> HIDE DEF L
  <2> QED BY <1>1, <1>2, <2>1, <2>2, <2>3, PlanKeeps
<1> QED BY <1>3, <1>4

\* A validation saves a top-k checkpoint that is good enough, in place of the worst one
\* when the ranking is full, and the last one.
LEMMA ValidationKeeps == ASSUME IndInv, on_validation_end PROVE IndInv'
<1> USE DEF IndInv
<1>1. /\ training' = training /\ ckpt' = ckpt /\ marked' = marked
      /\ global_step' = global_step /\ ckpt_path' = ckpt_path /\ async_calls' = async_calls
      /\ deferred_ckpts_to_remove' = deferred_ckpts_to_remove /\ starts' = starts
      /\ saved_step' = saved_step /\ exit_step' = exit_step
      /\ phase = "batch_end" /\ phase' = "validated" /\ todo = <<>>
      /\ last_model_path' = LastName
  BY DEF on_validation_end, disk, async, history
<1>2. PICK score \in scores :
        LET full == Cardinality(best_k_models) >= training.save_top_k
            dropped == IF full THEN KthBest ELSE NULL
            n == FreshName(Name("topk", global_step, score, 0), dropped)
            saveTopk ==
              _save_checkpoint(n)
                \o IF _should_remove_checkpoint(dropped, n)
                     THEN <<Do("remove", dropped)>> ELSE <<>>
            good == full => score < KthBest.score
        IN /\ best_k_models' =
                IF good THEN (best_k_models \ {dropped}) \cup {n} ELSE best_k_models
           /\ todo' = (IF good THEN saveTopk ELSE <<>>) \o _save_last_checkpoint(LastName)
  BY DEF on_validation_end
<1> DEFINE full == Cardinality(best_k_models) >= training.save_top_k
           dropped == IF full THEN KthBest ELSE NULL
           n == FreshName(Name("topk", global_step, score, 0), dropped)
           d == IF _should_remove_checkpoint(dropped, n) THEN dropped ELSE NULL
           good == full => score < KthBest.score
           first == IF good THEN SaveThenRemove(n, d) ELSE <<>>
           L == LastName
           second == _save_last_checkpoint(L)
<1>3. phase \in Training /\ phase \notin {"exiting", "done"}
  BY <1>1 DEF Training
<1>4. dropped \in TopkNames \cup {NULL}
  <2> SUFFICES ASSUME full PROVE KthBest \in TopkNames
    OBVIOUS
  <2>1. best_k_models \subseteq TopkNames /\ IsFiniteSet(best_k_models)
    BY DEF TypeOK
  <2>2. best_k_models # {}
    <3> SUFFICES ASSUME best_k_models = {} PROVE FALSE
      OBVIOUS
    <3>1. training.save_top_k \in Nat \ {0} /\ Cardinality({}) = 0
      BY FS_EmptySet, LifecycleAssumption DEF TypeOK
    <3> QED BY <3>1
  <2>3. \E k \in best_k_models : \A m \in best_k_models : m = k \/ Worse(k, m)
    BY <2>1, <2>2, WorstExists
  <2>4. KthBest \in best_k_models
    BY <2>3 DEF KthBest
  <2> QED BY <2>1, <2>4
<1> HIDE DEF full
<1>5. n \in TopkNames /\ n \in Known /\ n.kind = "topk" /\ n.step = global_step
  <2> DEFINE base == Name("topk", global_step, score, 0)
  <2>1. base \in TopkNames /\ base.step = global_step
    <3>1. score \in Nat /\ global_step \in Nat
      BY LifecycleAssumption DEF TypeOK
    <3> QED BY <3>1 DEF TopkNames, Name
  <2> HIDE DEF base, dropped
  <2>2. PICK v \in Nat : FreshName(base, dropped) = [base EXCEPT !.ver = v]
    BY <2>1, FreshNameIs DEF Known
  <2>3. [base EXCEPT !.ver = v] \in TopkNames /\ [base EXCEPT !.ver = v].step = global_step
    BY <2>1 DEF TopkNames
  <2>4. n \in TopkNames /\ n.step = global_step
    BY <2>2, <2>3 DEF base
  <2> HIDE DEF n
  <2> QED BY <2>4, NameShape DEF Known
<1>6. best_k_models' = (IF good THEN (best_k_models \ {dropped}) \cup {n} ELSE best_k_models)
      /\ todo' = first \o second
  <2>1. _should_remove_checkpoint(dropped, n) => dropped # NULL
    BY DEF _should_remove_checkpoint
  <2>2. SaveThenRemove(n, d) =
          _save_checkpoint(n)
            \o IF _should_remove_checkpoint(dropped, n) THEN <<Do("remove", dropped)>> ELSE <<>>
    <3> HIDE DEF dropped, n
    <3>1. CASE _should_remove_checkpoint(dropped, n)
      BY <2>1, <3>1 DEF SaveThenRemove
    <3>2. CASE ~_should_remove_checkpoint(dropped, n)
      BY <3>2 DEF SaveThenRemove
    <3> QED BY <3>1, <3>2
  <2>3. first = IF good
                  THEN _save_checkpoint(n)
                         \o IF _should_remove_checkpoint(dropped, n)
                              THEN <<Do("remove", dropped)>> ELSE <<>>
                  ELSE <<>>
    <3> HIDE DEF dropped, n, d, good
    <3> QED BY <2>2
  <2> HIDE DEF first
  <2> QED BY <1>2, <2>3 DEF full
<1> HIDE DEF dropped, n
<1>7. d \in Known \cup {NULL} /\ (d # NULL => d.kind = "topk")
  BY <1>4, NameShape DEF Known
<1> HIDE DEF d, good
<1>8. /\ L \in LastNames /\ L.kind = "last" /\ L.step = global_step
      /\ L \notin DOMAIN ckpt \cup Pending /\ last_model_path' = L
  <2>1. last_model_path # NULL => last_model_path.step < global_step
    BY <1>1, <1>3 DEF LastInv
  <2>2. /\ L \in LastNames /\ L.kind = "last" /\ L.step = global_step
        /\ L \notin DOMAIN ckpt \cup Pending \/ L = last_model_path
    BY <1>3, LastNameIs
  <2>3. L # last_model_path
    <3>1. L # NULL /\ ~(global_step < global_step)
      BY <2>2, NameShape DEF TypeOK
    <3> QED BY <2>1, <2>2, <3>1
  <2> QED BY <1>1, <2>2, <2>3
<1>9. PlanOK(second, L) /\ \A i \in DOMAIN second : second[i].name.kind = "last"
  BY <1>3, LastPlan
<1> HIDE DEF second, L
<1>10. PlanOK(first, L) /\ \A i \in DOMAIN first : first[i].name.kind = "topk"
  <2>1. CASE good
    <3> DEFINE s == SaveThenRemove(n, d)
    <3>1. /\ PlanOK(s, L)
          /\ \A i \in DOMAIN s : s[i].name = n \/ (d # NULL /\ s[i].name = d)
      BY <1>5, <1>7, OnePlan
    <3>2. first = s
      BY <2>1
    <3> HIDE DEF s, first
    <3> QED BY <1>5, <1>7, <3>1, <3>2
  <2>2. CASE ~good
    <3>1. first = <<>> /\ first \in Seq(Ops) /\ DOMAIN first = {}
      <4>1. first = <<>>
        BY <2>2
      <4> HIDE DEF first
      <4> QED BY <4>1
    <3> HIDE DEF first
    <3> QED BY <3>1 DEF PlanOK
  <2> QED BY <2>1, <2>2
<1> HIDE DEF first
<1>11. PlanOK(todo', L)
  BY <1>6, <1>9, <1>10, TwoPlans
<1>12. best_k_models' \subseteq TopkNames /\ IsFiniteSet(best_k_models')
  <2>1. best_k_models \subseteq TopkNames /\ IsFiniteSet(best_k_models)
    BY DEF TypeOK
  <2>2. IsFiniteSet((best_k_models \ {dropped}) \cup {n})
    BY <2>1, FS_RemoveElement, FS_AddElement
  <2> QED BY <1>5, <1>6, <2>1, <2>2
<1>13. \A m \in Pending : m.step < global_step
  BY <1>1 DEF Pending, QueueInv
<1> QED BY <1>1, <1>3, <1>8, <1>11, <1>12, <1>13, PlanKeeps

----------------------------------------------------------------------------
(* The theorems.                                                           *)

\* An empty directory and no job.
LEMMA InitHolds == Init => IndInv
<1> SUFFICES ASSUME Init PROVE IndInv
  OBVIOUS
<1>1. /\ training \in Trainings /\ DOMAIN ckpt = {} /\ marked = {} /\ phase = "down"
      /\ global_step = 0 /\ starts = 0 /\ saved_step = 0 /\ exit_step = 0
      /\ ckpt_path = NULL /\ last_model_path = NULL /\ best_k_models = {}
      /\ async_calls = <<>> /\ deferred_ckpts_to_remove = <<>> /\ todo = <<>>
      /\ DOMAIN todo = {} /\ DOMAIN async_calls = {} /\ DOMAIN deferred_ckpts_to_remove = {}
  BY DEF Init
<1>2. Pending = {} /\ Finalizing = 0 /\ OnDisk("last") = {}
  BY <1>1 DEF Pending, Finalizing, OnDisk
<1>3. TypeOK /\ PhaseInv
  BY <1>1, FS_EmptySet DEF TypeOK, PhaseInv, Phases
<1>4. OpInv /\ MarkInv /\ WriteInv /\ FinalizeInv /\ DeleteInv /\ RemovalInv
  BY <1>1 DEF OpInv, MarkInv, WriteInv, FinalizeInv, DeleteInv, RemovalInv
<1>5. LastInv /\ ResumeInv /\ SavedInv /\ ListInv /\ QueueInv /\ ExitInv
  BY <1>1, <1>2 DEF LastInv, ResumeInv, SavedInv, ListInv, QueueInv, ExitInv, Training
<1>6. WholeInv /\ PruneInv /\ CleanInv
  BY <1>1 DEF WholeInv, PruneInv, CleanInv, CleanAtStart
<1> QED BY <1>3, <1>4, <1>5, <1>6 DEF IndInv

\* A removal is carried out at once, or deferred to the finalization of a save.
LEMMA RemoveCheckpointKeeps == ASSUME IndInv, _remove_checkpoint PROVE IndInv'
<1>1. CASE Doing("remove") /\ training.async_save
  BY <1>1, DeferKeeps
<1>2. CASE ~(Doing("remove") /\ training.async_save)
  <2>1. RemoveForGood /\ (Doing("remove_deferred") \/ (Doing("remove") /\ ~training.async_save))
    BY <1>2 DEF _remove_checkpoint
  <2> QED BY <2>1, RemovalKeeps
<1> QED BY <1>1, <1>2

\* Every step of the job, of its writers and of a start.
LEMMA NextKeeps == ASSUME IndInv, Next PROVE IndInv'
<1>1. ASSUME Effect PROVE IndInv'
  BY <1>1, MarkKeeps, UnmarkKeeps, BeginWriteKeeps, EndWriteKeeps, DeleteKeeps,
     RemoveCheckpointKeeps, ScheduleKeeps, FinalizeKeeps DEF Effect
<1>2. ASSUME Main PROVE IndInv'
  BY <1>1, <1>2, PruneKeeps, SetupKeeps, DeleteUnfinishedKeeps, DeleteMarkersKeeps, LoadKeeps,
     TrainBatchKeeps, ValidationKeeps, TrainEndKeeps, OnTrainEndKeeps, ProcessExitsKeeps,
     TrainingDoneKeeps, MaybeFinalizeKeeps DEF Main
<1> QED BY <1>2, StartKeeps, GracefulExitKeeps, WriterKeeps, CrashKeeps DEF Next

\* Nothing happens.
LEMMA StutterKeeps == ASSUME IndInv, UNCHANGED vars PROVE IndInv'
<1>1. /\ training' = training /\ ckpt' = ckpt /\ marked' = marked /\ phase' = phase
      /\ global_step' = global_step /\ ckpt_path' = ckpt_path
      /\ last_model_path' = last_model_path /\ best_k_models' = best_k_models
      /\ async_calls' = async_calls /\ deferred_ckpts_to_remove' = deferred_ckpts_to_remove
      /\ todo' = todo /\ starts' = starts /\ saved_step' = saved_step /\ exit_step' = exit_step
  BY DEF vars, disk, memory, async, history
<1>2. TypeOK' /\ PhaseInv' /\ OpInv' /\ MarkInv' /\ WriteInv' /\ FinalizeInv' /\ DeleteInv'
  BY <1>1 DEF IndInv, TypeOK, PhaseInv, OpInv, MarkInv, Pending, WriteInv, Follows,
              FinalizeInv, DeleteInv
<1>3. LastInv' /\ ResumeInv' /\ SavedInv' /\ RemovalInv'
  BY <1>1 DEF IndInv, LastInv, Pending, OnDisk, ResumeInv, Usable, SavedInv, RemovalInv, Outlives
<1>4. ListInv' /\ QueueInv' /\ ExitInv'
  BY <1>1 DEF IndInv, ListInv, CallOf, Finalizing, Outlives, QueueInv, Pending, ExitInv
<1>5. Excess' = Excess /\ Usable("topk")' = Usable("topk") /\ OnDisk("topk")' = OnDisk("topk")
  BY <1>1 DEF Excess, Usable, OnDisk
<1>6. WholeInv' /\ PruneInv' /\ CleanInv'
  BY <1>1, <1>5 DEF IndInv, WholeInv, PruneInv, CleanInv, CleanAtStart
<1> QED BY <1>2, <1>3, <1>4, <1>6 DEF IndInv

\* The states the job and its directory can be in, for every training: any number of steps,
\* starts, crashes and exits, any save_top_k, synchronous and asynchronous saves.  The parts
\* of IndInv say what each effect still to come has prepared, which checkpoints may still
\* be removed, and what the directory holds meanwhile.
THEOREM Invariance == Spec => []IndInv
<1>1. IndInv /\ [Next]_vars => IndInv'
  BY NextKeeps, StutterKeeps
<1> QED BY InitHolds, <1>1, PTL DEF Spec

\* The marker, the data, the finalization and the cleaning of the next start come in the
\* right order: a *last checkpoint without the marker is whole at every instant, so also
\* whenever the process dies.
THEOREM UnmarkedIsWhole == Spec => []UnmarkedLastIsWhole
<1>1. IndInv => UnmarkedLastIsWhole
  <2> SUFFICES ASSUME IndInv, NEW n \in Usable("last") PROVE ckpt[n].whole
    BY DEF UnmarkedLastIsWhole
  <2>1. n \notin Excess
    BY DEF Excess, Usable, OnDisk
  <2> QED BY <2>1 DEF IndInv, WholeInv, Usable, OnDisk
<1> QED BY <1>1, Invariance, PTL

\* A training that goes on does so from no older step than any *last that was finalized:
\* check_resume takes the newest usable one, and there always is one as new as that.
THEOREM FinalizedIsKept == Spec => []NothingFinalizedIsLost
<1>1. IndInv => NothingFinalizedIsLost
  <2> SUFFICES ASSUME IndInv, phase = "fit_start" PROVE global_step >= saved_step
    BY DEF NothingFinalizedIsLost
  <2>1. saved_step \in Nat /\ global_step \in Nat
    BY DEF IndInv, TypeOK
  <2>2. CASE saved_step > 0
    <3>1. /\ last_model_path # NULL /\ saved_step <= last_model_path.step
          /\ last_model_path.step <= global_step
      BY <2>2 DEF IndInv, SavedInv, LastInv, Training
    <3>2. last_model_path.step \in Nat
      BY <3>1, NameShape DEF IndInv, TypeOK
    <3> QED BY <2>1, <3>1, <3>2
  <2> QED BY <2>1, <2>2
<1> QED BY <1>1, Invariance, PTL

\* With synchronous saves a graceful exit is over only when its checkpoint is finalized:
\* the next training goes on from its step, whatever happens in between.
THEOREM SyncExitIsKept == Spec => []SyncExitKeepsStep
<1>1. IndInv => SyncExitKeepsStep
  <2> SUFFICES ASSUME IndInv, ~training.async_save, phase = "fit_start" PROVE global_step >= exit_step
    BY DEF SyncExitKeepsStep, GracefulExitKeepsStep
  <2>1. {saved_step, global_step, exit_step} \subseteq Nat /\ exit_step <= saved_step
    BY DEF IndInv, TypeOK, ExitInv
  <2>2. CASE saved_step > 0
    <3>1. /\ last_model_path # NULL /\ saved_step <= last_model_path.step
          /\ last_model_path.step <= global_step
      BY <2>2 DEF IndInv, SavedInv, LastInv, Training
    <3>2. last_model_path.step \in Nat
      BY <3>1, NameShape DEF IndInv, TypeOK
    <3> QED BY <2>1, <3>1, <3>2
  <2> QED BY <2>1, <2>2
<1> QED BY <1>1, Invariance, PTL

\* Pruning, the removal of what is unfinished and the restored ranking leave a clean
\* directory to train in, however often the job died and however many names tie.
THEOREM StartIsClean == Spec => []CleanAtStart
<1>1. IndInv => CleanAtStart
  BY DEF IndInv, CleanInv
<1> QED BY <1>1, Invariance, PTL

\* The assertion of the finalize callback never fails: while the process runs, a list of
\* deferred removals belongs to each pending save and to the one being finalized.
THEOREM ListsMatchSaves == Spec => []OneListPerSave
<1>1. IndInv => OneListPerSave
  <2> SUFFICES ASSUME IndInv
               PROVE  Len(deferred_ckpts_to_remove) =
                        Len(async_calls) + Cardinality({i \in DOMAIN todo :
                                              training.async_save /\ todo[i].op = "finalize"})
    BY DEF OneListPerSave
  <2> DEFINE S == {i \in DOMAIN todo : training.async_save /\ todo[i].op = "finalize"}
  <2>1. Len(deferred_ckpts_to_remove) = Len(async_calls) + Finalizing
    BY DEF IndInv, ListInv
  <2>2. Cardinality(S) = Finalizing
    <3>1. \A i \in S : i = 1
      <4> SUFFICES ASSUME NEW i \in S PROVE i = 1
        OBVIOUS
      <4>1. Len(todo) <= 1
        BY DEF IndInv, OpInv
      <4>2. DOMAIN todo = 1 .. Len(todo) /\ Len(todo) \in Nat
        BY DEF IndInv, TypeOK
      <4>3. i \in 1 .. Len(todo)
        BY <4>2
      <4> QED BY <4>1, <4>2, <4>3
    <3>2. CASE S = {}
      <4>1. Finalizing = 0
        BY <3>2 DEF Finalizing
      <4> QED BY <3>2, <4>1, FS_EmptySet
    <3>3. CASE S # {}
      <4>1. S = {1} /\ Finalizing = 1
        BY <3>1, <3>3 DEF Finalizing
      <4>2. Cardinality({1}) = 1
        BY FS_Singleton
      <4> QED BY <4>1, <4>2
    <3> QED BY <3>2, <3>3
  <2> QED BY <2>1, <2>2
<1> QED BY <1>1, Invariance, PTL

\* A usable last checkpoint that is left alone stays usable.
LEMMA StaysUsable ==
  ASSUME NEW n \in Usables, n \in DOMAIN ckpt', ckpt'[n].whole, n \notin marked'
  PROVE  n \in Usables'
BY DEF Usables, Usable, OnDisk

\* Where nothing is written or marked, what was usable is usable.
LEMMA UntouchedStay ==
  ASSUME ckpt' = ckpt, marked' \subseteq marked PROVE Usables \subseteq Usables'
BY DEF Usables, Usable, OnDisk

\* What an effect takes away is not the last that is usable, but for a marker that is set
\* for writing over it.
LEMMA EffectKeepsOne ==
  ASSUME IndInv, Effect, Usables # {}, Usables' = {}
  PROVE  Usables = {Subject} /\ Subject = last_model_path /\ todo[2].op \in {"begin", "schedule"}
<1> USE DEF IndInv
<1>1. /\ todo # <<>> /\ todo \in Seq(Ops) /\ 1 \in DOMAIN todo
      /\ Subject = todo[1].name /\ Subject \in Known /\ Head(todo) = todo[1]
  <2>1. todo # <<>> /\ todo \in Seq(Ops)
    BY DEF TypeOK, Effect, Mark, Unmark, BeginWrite, EndWrite, Delete, _remove_checkpoint,
           Schedule, Finalize, Doing
  <2> HIDE DEF Ops
  <2>2. 1 \in DOMAIN todo /\ Head(todo) = todo[1] /\ todo[1] \in Ops
    BY <2>1
  <2> QED BY <2>1, <2>2 DEF Subject, Ops
<1>2. \A n \in Usables : n \in DOMAIN ckpt /\ n \notin marked /\ n.kind = "last" /\ ckpt[n].whole
  BY DEF Usables, Usable, OnDisk
<1>3. CASE Mark
  <2>1. ckpt' = ckpt /\ marked' = marked \cup {Subject} /\ todo[1].op = "mark"
    BY <1>1, <1>3 DEF Mark, Doing
  <2>2. Usables = {Subject}
    BY <1>2, <2>1, StaysUsable
  <2>3. Subject.kind = "last"
    BY <1>2, <2>2
  <2>4. Subject = last_model_path
    BY <1>1, <2>1, <2>3 DEF LastInv, SaveOps
  <2>5. todo[2].op \in {"begin", "schedule"}
    BY <1>1, <2>1 DEF MarkInv
  <2> QED BY <2>2, <2>4, <2>5
<1>4. CASE Unmark \/ Finalize
  <2>1. ckpt' = ckpt /\ marked' \subseteq marked
    BY <1>4 DEF Unmark, Finalize
  <2> QED BY <2>1, UntouchedStay
<1>5. CASE BeginWrite \/ Schedule
  <2>1. /\ Write(Subject, Partial) /\ marked' = marked /\ todo[1].op \in {"begin", "schedule"}
    BY <1>1, <1>5 DEF BeginWrite, Schedule, Doing
  <2>2. Subject \in marked
    BY <1>1, <2>1 DEF WriteInv, Follows
  <2>3. \A n \in DOMAIN ckpt : n # Subject => n \in DOMAIN ckpt' /\ ckpt'[n] = ckpt[n]
    BY <1>1, <2>1, WriteIs, WhatIsWritten
  <2> QED BY <1>2, <2>1, <2>2, <2>3, StaysUsable
<1>6. CASE EndWrite
  <2>1. Write(Subject, [whole |-> TRUE, best_k |-> best_k_models]) /\ marked' = marked
    BY <1>6 DEF EndWrite
  <2>2. /\ [whole |-> TRUE, best_k |-> best_k_models] \in Contents
        /\ [whole |-> TRUE, best_k |-> best_k_models].whole
    BY WhatIsWritten DEF TypeOK
  <2>3. \A n \in DOMAIN ckpt : n \in DOMAIN ckpt' /\ (ckpt[n].whole => ckpt'[n].whole)
    BY <1>1, <2>1, <2>2, WriteIs, ZenonT(30)
  <2> QED BY <1>2, <2>1, <2>3, StaysUsable
<1>7. CASE Delete
  <2>1. Erase(Subject) /\ marked' = marked /\ todo[1].op = "delete"
    BY <1>1, <1>7 DEF Delete, Doing
  <2>2. \A n \in DOMAIN ckpt : n # Subject => n \in DOMAIN ckpt' /\ ckpt'[n] = ckpt[n]
    BY <1>1, <2>1, EraseIs
  <2>3. Subject \notin Usables
    <3>1. CASE phase = "init"
      <4>1. Subject \in Excess
        BY <1>1, <3>1 DEF PruneInv
      <4> QED BY <1>2, <4>1 DEF Excess, Usable, OnDisk
    <3>2. CASE phase # "init"
      BY <1>1, <1>2, <2>1, <3>2 DEF DeleteInv
    <3> QED BY <3>1, <3>2
  <2> QED BY <1>2, <2>1, <2>2, <2>3, StaysUsable
<1>8. CASE _remove_checkpoint
  <2>1. ckpt' = ckpt /\ todo[1].op \in {"remove", "remove_deferred"}
    BY <1>1, <1>8 DEF _remove_checkpoint, Doing
  <2>2. CASE marked' = marked
    BY <2>1, <2>2, UntouchedStay
  <2>3. CASE marked' # marked
    <3>1. /\ marked' = marked \cup {Subject}
          /\ todo[1].op = "remove_deferred" \/ ~training.async_save
      BY <1>1, <1>8, <2>3 DEF _remove_checkpoint, RemoveForGood, Doing
    <3>2. Usables = {Subject}
      BY <1>2, <2>1, <3>1, StaysUsable
    <3>3. Subject.kind = "last" /\ Subject.step < saved_step
      BY <1>1, <1>2, <2>1, <3>1, <3>2 DEF RemovalInv
    <3>4. saved_step \in Nat /\ Subject.step \in Nat
      BY <1>1, NameShape DEF TypeOK
    <3>5. PICK n \in Usable("last") : n.step >= saved_step
      BY <3>3, <3>4 DEF SavedInv
    <3>6. n \in Usables
      BY <3>5 DEF Usables, Usable, OnDisk, WholeInv, Excess
    <3>7. n = Subject
      BY <3>2, <3>6
    <3> QED BY <3>3, <3>4, <3>5, <3>7
  <2> QED BY <2>2, <2>3
<1> QED BY <1>3, <1>4, <1>5, <1>6, <1>7, <1>8 DEF Effect

\* Nor does any other step.
LEMMA StepKeepsOne ==
  ASSUME IndInv, Next, Usables # {}, Usables' = {}
  PROVE  Usables = {Subject} /\ Subject = last_model_path /\ todo[2].op \in {"begin", "schedule"}
<1> USE DEF IndInv
<1>1. \A n \in Usables : n \in DOMAIN ckpt /\ n \notin marked /\ n.kind = "last" /\ ckpt[n].whole
  BY DEF Usables, Usable, OnDisk
<1>2. CASE Effect
  BY <1>2, EffectKeepsOne
<1>3. CASE Prune
  <2>1. PICK n \in Usable("topk") :
          marked' = marked /\ (Write(n, Partial) \/ Erase(n))
    BY <1>3 DEF Prune
  <2>2. n \in Known /\ n.kind # "last"
    BY <2>1 DEF Usable, OnDisk, TypeOK
  <2>3. \A m \in DOMAIN ckpt : m # n => m \in DOMAIN ckpt' /\ ckpt'[m] = ckpt[m]
    BY <2>1, <2>2, WriteIs, EraseIs, WhatIsWritten
  <2> QED BY <1>1, <2>1, <2>2, <2>3, StaysUsable
<1>4. CASE DeleteUnfinished
  <2>1. PICK n \in marked : marked' = marked /\ Erase(n)
    BY <1>4 DEF DeleteUnfinished
  <2>2. \A m \in DOMAIN ckpt : m # n => m \in DOMAIN ckpt' /\ ckpt'[m] = ckpt[m]
    BY <2>1, EraseIs
  <2> QED BY <1>1, <2>1, <2>2, StaysUsable
<1>5. CASE WriterDone
  <2>1. PICK i \in DOMAIN async_calls :
          Write(async_calls[i].name, [whole |-> TRUE, best_k |-> async_calls[i].best_k])
    BY <1>5 DEF WriterDone
  <2>2. async_calls[i] \in Calls
    BY DEF TypeOK
  <2>3. /\ async_calls[i].name \in Known
        /\ [whole |-> TRUE, best_k |-> async_calls[i].best_k] \in Contents
        /\ [whole |-> TRUE, best_k |-> async_calls[i].best_k].whole
    BY <2>2 DEF Calls, Contents
  <2>4. \A m \in DOMAIN ckpt : m \in DOMAIN ckpt' /\ (ckpt[m].whole => ckpt'[m].whole)
    BY <2>1, <2>3, WriteIs
  <2>5. marked' = marked
    BY <1>5 DEF WriterDone
  <2> QED BY <1>1, <2>4, <2>5, StaysUsable
<1>6. CASE ~(Effect \/ Prune \/ DeleteUnfinished \/ WriterDone)
  <2>1. ckpt' = ckpt /\ marked' \subseteq marked
    BY <1>6 DEF Next, Main, Start, Setup, DeleteMarkers, load_state_dict, TrainBatch,
                on_validation_end, GracefulExit, TrainEnd, on_train_end, ProcessExits,
                TrainingDone, Crash, maybe_finalize_save_checkpoint, disk
  <2> QED BY <2>1, UntouchedStay
<1> QED BY <1>2, <1>3, <1>4, <1>5, <1>6

\* As long as one *last is usable, no step of the job, of its writers or of a start takes
\* the only one away, but the mark of a save that is about to write over that very name.
THEOREM OnlyCopyIsKept == Spec => OnlyCopyKept
<1> DEFINE A == Usables # {} /\ Usables' = {} =>
                  /\ Usables = {Subject} /\ Subject = last_model_path
                  /\ todo[2].op \in {"begin", "schedule"}
<1>1. IndInv /\ [Next]_vars => [A]_vars
  BY StepKeepsOne
<1> QED BY <1>1, Invariance, PTL DEF Spec, OnlyCopyKept
=============================================================================
