----------------------- MODULE ParallelPipelineProofs -----------------------
(***************************************************************************)
(* Proofs about ParallelPipeline for any finite set of branches.           *)
(*                                                                         *)
(* The counter of a lifecycle frame is the number of branches that have    *)
(* not passed it on (CountInv); while some branch has not, the processor   *)
(* synchronises and is paused, so that no second lifecycle frame is inside *)
(* (FlightInv); hence a lifecycle frame is out exactly when all branches   *)
(* have passed it on (OutInv), and the StartFrame is out whenever anything *)
(* could be pushed directly (StartInv).  The other frames are out, or in   *)
(* the buffer behind what is out, in the order of their first exit         *)
(* (OrderInv).  The processor synchronises only as long as branches hold   *)
(* the lifecycle frame it waits for (BarrierInv).                          *)
(***************************************************************************)
EXTENDS ParallelPipeline, FiniteSetTheorems, TLAPS

InFlight(f) == f \in used /\ passed[f] # Branches

CountInv ==
    \A f \in Lifecycle :
        /\ f \in used => counter[f] = Cardinality(Branches \ passed[f])
        /\ f \notin used => passed[f] = {}
        /\ \A b \in Branches : f \in inside[b] => b \notin passed[f]

FlightInv ==
    /\ \A f, g \in Lifecycle : InFlight(f) /\ InFlight(g) => f = g
    /\ \A f \in Lifecycle : InFlight(f) => synchronizing
    /\ synchronizing => paused = Tasks

OutInv ==
    \A f \in Lifecycle :
        /\ f \in Elements(out) <=> f \in used /\ passed[f] = Branches
        /\ f \in seen <=> f \in Elements(out)
        /\ f \notin Elements(buffer)

Once(s) ==
    \A f \in Lifecycle, i, j \in DOMAIN s : s[i] = f /\ s[j] = f => i = j

StartInv ==
    /\ StartFirst
    /\ used # {} => "start" \in used

Inv == TypeOK /\ CountInv /\ FlightInv /\ OutInv /\ Once(out) /\ StartInv

-----------------------------------------------------------------------------
(* Sequences.                                                              *)

\* What appending a frame that is not a lifecycle frame does to a queue.
LEMMA AppendOther ==
    ASSUME NEW s \in Seq(Frames), NEW f \in Frames \ Lifecycle
    PROVE  /\ Append(s, f) \in Seq(Frames) /\ Append(s, f) # <<>>
           /\ s # <<>> => Append(s, f)[1] = s[1]
           /\ \A g \in Lifecycle : g \in Elements(Append(s, f)) <=> g \in Elements(s)
           /\ Once(s) => Once(Append(s, f))
<1>1. /\ Append(s, f) \in Seq(Frames) /\ Len(Append(s, f)) = Len(s) + 1
      /\ Append(s, f) # <<>> /\ Len(s) \in Nat /\ DOMAIN s = 1..Len(s)
      /\ DOMAIN Append(s, f) = 1..Len(s) + 1
      /\ \A i \in 1..Len(s) : Append(s, f)[i] = s[i]
      /\ Append(s, f)[Len(s) + 1] = f
  OBVIOUS
<1>2. s # <<>> => Append(s, f)[1] = s[1]
  BY <1>1
<1>3. \A i \in DOMAIN Append(s, f) :
          Append(s, f)[i] \in Lifecycle => i \in DOMAIN s /\ Append(s, f)[i] = s[i]
  BY <1>1
<1>4. \A i \in DOMAIN s : i \in DOMAIN Append(s, f) /\ Append(s, f)[i] = s[i]
  BY <1>1
<1>5. ASSUME NEW g \in Lifecycle
      PROVE  g \in Elements(Append(s, f)) <=> g \in Elements(s)
  BY <1>3, <1>4, Zenon DEF Elements
<1>6. Once(s) => Once(Append(s, f))
  BY <1>3, Zenon DEF Once
<1>7. QED
  BY <1>1, <1>2, <1>5, <1>6

\* The elements of a concatenation.
LEMMA Concatenate ==
    ASSUME NEW s \in Seq(Frames), NEW t \in Seq(Frames)
    PROVE  /\ s \o t \in Seq(Frames)
           /\ Elements(s \o t) = Elements(s) \cup Elements(t)
           /\ s # <<>> => s \o t # <<>> /\ (s \o t)[1] = s[1]
           /\ s = <<>> => s \o t = t
<1>1. /\ s \o t \in Seq(Frames) /\ Len(s \o t) = Len(s) + Len(t)
      /\ Len(s) \in Nat /\ Len(t) \in Nat
      /\ DOMAIN s = 1..Len(s) /\ DOMAIN t = 1..Len(t)
      /\ DOMAIN (s \o t) = 1..(Len(s) + Len(t))
      /\ \A i \in 1..Len(s) : (s \o t)[i] = s[i]
      /\ \A i \in 1..Len(t) : (s \o t)[Len(s) + i] = t[i]
  OBVIOUS
<1>2. ASSUME NEW i \in DOMAIN (s \o t)
      PROVE  (s \o t)[i] \in Elements(s) \cup Elements(t)
  <2>1. CASE i \in 1..Len(s)
    BY <1>1, <2>1 DEF Elements
  <2>2. CASE i \notin 1..Len(s)
    <3>1. i - Len(s) \in 1..Len(t) /\ Len(s) + (i - Len(s)) = i
      BY <1>1, <2>2
    <3>2. (s \o t)[i] = t[i - Len(s)]
      BY <1>1, <3>1
    <3>3. QED
      BY <1>1, <3>1, <3>2 DEF Elements
  <2>3. QED
    BY <2>1, <2>2
<1>3. Elements(s) \subseteq Elements(s \o t)
  BY <1>1 DEF Elements
<1>4. ASSUME NEW i \in 1..Len(t) PROVE t[i] \in Elements(s \o t)
  <2>1. Len(s) + i \in DOMAIN (s \o t) /\ (s \o t)[Len(s) + i] = t[i]
    BY <1>1
  <2>2. QED
    BY <2>1, Zenon DEF Elements
<1>5. Elements(s \o t) = Elements(s) \cup Elements(t)
  <2>1. Elements(t) \subseteq Elements(s \o t)
    BY <1>1, <1>4 DEF Elements
  <2>2. Elements(s \o t) \subseteq Elements(s) \cup Elements(t)
    BY <1>2 DEF Elements
  <2>3. QED
    BY <1>3, <2>1, <2>2
<1>6. s # <<>> => s \o t # <<>> /\ (s \o t)[1] = s[1]
  BY <1>1
<1>7. s = <<>> => s \o t = t
  OBVIOUS
<1>8. QED
  BY <1>1, <1>5, <1>6, <1>7

\* Lifecycle frames stay unique when the parts have none in common.
LEMMA ConcatenateOnce ==
    ASSUME NEW s \in Seq(Frames), NEW t \in Seq(Frames), Once(s), Once(t),
           \A f \in Lifecycle : ~(f \in Elements(s) /\ f \in Elements(t))
    PROVE  Once(s \o t)
<1>1. /\ Len(s) \in Nat /\ Len(t) \in Nat
      /\ DOMAIN s = 1..Len(s) /\ DOMAIN t = 1..Len(t)
      /\ DOMAIN (s \o t) = 1..(Len(s) + Len(t))
      /\ \A i \in 1..Len(s) : (s \o t)[i] = s[i]
      /\ \A i \in 1..Len(t) : (s \o t)[Len(s) + i] = t[i]
  OBVIOUS
<1>2. ASSUME NEW i \in DOMAIN (s \o t)
      PROVE  \/ i \in 1..Len(s) /\ (s \o t)[i] = s[i] /\ s[i] \in Elements(s)
             \/ /\ i > Len(s) /\ i - Len(s) \in 1..Len(t)
                /\ (s \o t)[i] = t[i - Len(s)]
                /\ t[i - Len(s)] \in Elements(t)
  <2>1. CASE i \in 1..Len(s)
    BY <1>1, <2>1 DEF Elements
  <2>2. CASE i \notin 1..Len(s)
    <3>1. /\ i > Len(s) /\ i - Len(s) \in 1..Len(t)
          /\ Len(s) + (i - Len(s)) = i
      BY <1>1, <2>2
    <3>2. (s \o t)[i] = t[i - Len(s)]
      BY <1>1, <3>1
    <3>3. t[i - Len(s)] \in Elements(t)
      BY <1>1, <3>1 DEF Elements
    <3>4. QED
      BY <3>1, <3>2, <3>3
  <2>3. QED
    BY <2>1, <2>2
<1>3. SUFFICES ASSUME NEW f \in Lifecycle,
                      NEW i \in DOMAIN (s \o t), NEW j \in DOMAIN (s \o t),
                      (s \o t)[i] = f, (s \o t)[j] = f
               PROVE  i = j
  BY DEF Once
<1>4. CASE i \in 1..Len(s) /\ j \in 1..Len(s)
  BY <1>1, <1>3, <1>4 DEF Once
<1>5. CASE i > Len(s) /\ j > Len(s)
  <2>1. /\ i - Len(s) \in DOMAIN t /\ t[i - Len(s)] = f
        /\ j - Len(s) \in DOMAIN t /\ t[j - Len(s)] = f
    BY <1>1, <1>2, <1>3, <1>5
  <2>2. i - Len(s) = j - Len(s)
    BY <2>1, Zenon DEF Once
  <2>3. QED
    BY <1>1, <2>2
<1>6. QED
  BY <1>1, <1>2, <1>3, <1>4, <1>5

\* A single frame.
LEMMA Singleton ==
    ASSUME NEW f \in Frames
    PROVE  /\ <<f>> \in Seq(Frames) /\ <<f>> # <<>> /\ <<f>>[1] = f
           /\ Elements(<<f>>) = {f} /\ Once(<<f>>)
  BY DEF Elements, Once

-----------------------------------------------------------------------------
(* The branches that still have a lifecycle frame.                         *)

LEMMA BranchesFinite == IsFiniteSet(Branches) /\ Branches # {}
  BY ParallelAssumption

LEMMA FramesDisjoint ==
    /\ Lifecycle \subseteq Frames /\ Data \subseteq Frames
    /\ Data \cap Lifecycle = {} /\ "error" \in Frames \ Lifecycle
  BY ParallelAssumption DEF Frames, Lifecycle

\* A lifecycle frame before or after a buffer without any.
LEMMA FrameAndBuffer ==
    ASSUME NEW t \in Seq(Frames), NEW f \in Lifecycle,
           \A g \in Lifecycle : g \notin Elements(t)
    PROVE  /\ <<f>> \o t \in Seq(Frames) /\ Once(<<f>> \o t)
           /\ Elements(<<f>> \o t) = Elements(t) \cup {f}
           /\ t \o <<f>> \in Seq(Frames) /\ Once(t \o <<f>>)
           /\ Elements(t \o <<f>>) = Elements(t) \cup {f}
<1>1. /\ <<f>> \in Seq(Frames) /\ Elements(<<f>>) = {f} /\ Once(<<f>>)
  BY FramesDisjoint, Singleton
<1>2. Once(t)
  BY DEF Once, Elements
<1>3. <<f>> \o t \in Seq(Frames) /\ Elements(<<f>> \o t) = Elements(<<f>>) \cup Elements(t)
  BY <1>1, Concatenate, Zenon
<1>4. t \o <<f>> \in Seq(Frames) /\ Elements(t \o <<f>>) = Elements(t) \cup Elements(<<f>>)
  BY <1>1, Concatenate, Zenon
<1>5. Once(<<f>> \o t)
  <2>1. \A g \in Lifecycle : ~(g \in Elements(<<f>>) /\ g \in Elements(t))
    OBVIOUS
  <2>2. QED
    BY <1>1, <1>2, <2>1, ConcatenateOnce, Zenon
<1>6. Once(t \o <<f>>)
  <2>1. \A g \in Lifecycle : ~(g \in Elements(t) /\ g \in Elements(<<f>>))
    OBVIOUS
  <2>2. QED
    BY <1>1, <1>2, <2>1, ConcatenateOnce, Zenon
<1>7. QED
  BY <1>1, <1>3, <1>4, <1>5, <1>6

\* The counter after the frame has left one more branch.
LEMMA LeaveCounts ==
    ASSUME TypeOK, CountInv, NEW b \in Branches, NEW f \in Frames, LeaveBranch(b, f)
    PROVE  /\ f \in Lifecycle /\ f \in used
           /\ b \notin passed[f] /\ passed[f] # Branches
           /\ passed' \in [Lifecycle -> SUBSET Branches]
           /\ passed'[f] = passed[f] \cup {b}
           /\ \A g \in Lifecycle : g # f => passed'[g] = passed[g]
           /\ counter' \in [Lifecycle -> Nat]
           /\ \A g \in Lifecycle : g # f => counter'[g] = counter[g]
           /\ counter'[f] = Cardinality(Branches \ passed'[f])
           /\ counter'[f] = 0 <=> passed'[f] = Branches
           /\ inside' \in [Branches -> SUBSET used]
           /\ \A c \in Branches : inside'[c] \subseteq inside[c]
           /\ f \notin inside'[b]
<1>1. f \in Lifecycle /\ f \in inside[b] /\ f \in used
  BY DEF LeaveBranch, TypeOK
<1>2. b \notin passed[f] /\ passed[f] # Branches
  BY <1>1 DEF CountInv
<1>3. /\ passed' \in [Lifecycle -> SUBSET Branches]
      /\ passed'[f] = passed[f] \cup {b}
      /\ \A g \in Lifecycle : g # f => passed'[g] = passed[g]
  BY <1>1 DEF LeaveBranch, TypeOK
<1>4. /\ inside' \in [Branches -> SUBSET used]
      /\ \A c \in Branches : inside'[c] \subseteq inside[c]
      /\ f \notin inside'[b]
  BY <1>1 DEF LeaveBranch, TypeOK
<1>5. /\ counter' \in [Lifecycle -> Nat]
      /\ \A g \in Lifecycle : g # f => counter'[g] = counter[g]
      /\ counter'[f] = IF counter[f] > 0 THEN counter[f] - 1 ELSE counter[f]
  BY <1>1 DEF LeaveBranch, TypeOK
<1>6. counter[f] = Cardinality(Branches \ passed[f])
  BY <1>1 DEF CountInv
<1>7. Branches \ passed'[f] = (Branches \ passed[f]) \ {b}
  BY <1>3
<1>8. IsFiniteSet(Branches \ passed[f]) /\ IsFiniteSet(Branches \ passed'[f])
  BY BranchesFinite, FS_Difference
<1>9. /\ Cardinality(Branches \ passed'[f]) = Cardinality(Branches \ passed[f]) - 1
      /\ Cardinality(Branches \ passed[f]) \in Nat
      /\ Cardinality(Branches \ passed'[f]) \in Nat
  BY <1>2, <1>7, <1>8, FS_RemoveElement, FS_CardinalityType
<1>10. counter'[f] = Cardinality(Branches \ passed'[f])
  BY <1>5, <1>6, <1>9
<1>11. counter'[f] = 0 <=> Branches \ passed'[f] = {}
  BY <1>8, <1>10, FS_EmptySet
<1>12. counter'[f] = 0 <=> passed'[f] = Branches
  BY <1>1, <1>3, <1>11
<1>13. QED
  BY <1>1, <1>2, <1>3, <1>4, <1>5, <1>10, <1>12

\* A frame that is not a lifecycle frame is pushed: the lifecycle frames stay
\* where they are.
LEMMA PushKeeps ==
    ASSUME TypeOK, OutInv, Once(out), StartFirst, FlightInv, "start" \in used,
           NEW f \in Frames \ Lifecycle, ParallelPush(f)
    PROVE  /\ seen' \subseteq seen \cup {f}
           /\ buffer' \in Seq(Frames) /\ out' \in Seq(Frames)
           /\ firsts' \in Seq(Frames)
           /\ buffer' # <<>> => synchronizing
           /\ \A g \in Lifecycle : g \in Elements(out') <=> g \in Elements(out)
           /\ \A g \in Lifecycle : g \in seen' <=> g \in seen
           /\ \A g \in Lifecycle : g \notin Elements(buffer')
           /\ Once(out') /\ StartFirst'
<1>1. CASE f \in seen
  BY <1>1 DEF ParallelPush, outputVars, TypeOK, OutInv, StartFirst
<1>2. CASE f \notin seen /\ synchronizing
  <2>1. /\ seen' = seen \cup {f} /\ out' = out
        /\ firsts' = Append(firsts, f) /\ buffer' = Append(buffer, f)
    BY <1>2 DEF ParallelPush
  <2>2. buffer \in Seq(Frames) /\ firsts \in Seq(Frames) /\ out \in Seq(Frames)
    BY DEF TypeOK
  <2>3. /\ buffer' \in Seq(Frames) /\ firsts' \in Seq(Frames)
        /\ \A g \in Lifecycle : g \notin Elements(buffer')
    BY <2>1, <2>2, AppendOther DEF OutInv
  <2>4. QED
    BY <1>2, <2>1, <2>2, <2>3 DEF StartFirst
<1>3. CASE f \notin seen /\ ~synchronizing
  <2>1. /\ seen' = seen \cup {f} /\ out' = Append(out, f)
        /\ firsts' = Append(firsts, f) /\ buffer' = buffer
    BY <1>3 DEF ParallelPush
  <2>2. buffer \in Seq(Frames) /\ firsts \in Seq(Frames) /\ out \in Seq(Frames)
    BY DEF TypeOK
  <2>3. /\ out' \in Seq(Frames) /\ firsts' \in Seq(Frames)
        /\ \A g \in Lifecycle : g \in Elements(out') <=> g \in Elements(out)
        /\ Once(out') /\ (out # <<>> => out'[1] = out[1])
    BY <2>1, <2>2, AppendOther
  <2>4. "start" \in Elements(out)
    BY <1>3 DEF FlightInv, InFlight, OutInv, Lifecycle
  <2>5. out # <<>>
    BY <2>4 DEF Elements
  <2>6. StartFirst'
    BY <2>3, <2>5 DEF StartFirst
  <2>7. buffer' = <<>>
    BY <1>3, <2>1 DEF TypeOK
  <2>8. QED
    BY <2>1, <2>2, <2>3, <2>6, <2>7 DEF OutInv
<1>4. QED
  BY <1>1, <1>2, <1>3 DEF TypeOK

-----------------------------------------------------------------------------
(* The steps.                                                              *)

LEMMA InitHolds == Init => Inv
<1> SUFFICES ASSUME Init PROVE Inv
  OBVIOUS
<1>1. TypeOK
  <2>1. <<>> \in Seq(Frames) /\ 0 \in Nat /\ {} \in SUBSET Tasks
    OBVIOUS
  <2>2. /\ inside \in [Branches -> SUBSET used] /\ counter \in [Lifecycle -> Nat]
        /\ passed \in [Lifecycle -> SUBSET Branches]
    BY <2>1 DEF Init
  <2>3. QED
    BY <2>1, <2>2, Zenon DEF Init, TypeOK
<1>2. CountInv /\ FlightInv
  BY DEF Init, CountInv, FlightInv, InFlight
<1>3. OutInv
  BY BranchesFinite DEF Init, OutInv, Elements
<1>4. Once(out) /\ StartInv
  BY DEF Init, Once, StartInv, StartFirst
<1>5. QED
  BY <1>1, <1>2, <1>3, <1>4 DEF Inv

\* A frame enters only while no lifecycle frame is in flight.
LEMMA EnterLifecycleKeeps ==
    ASSUME Inv, NEW f \in Frames, EnterLifecycle(f)
    PROVE  Inv'
<1>1. /\ TypeOK /\ CountInv /\ FlightInv /\ OutInv /\ Once(out) /\ StartInv
      /\ f \in Lifecycle /\ f \notin used /\ used' = used \cup {f}
      /\ f # "start" => "start" \in used
      /\ counter' = [counter EXCEPT ![f] = Cardinality(Branches)]
      /\ synchronizing' = TRUE /\ paused' = Tasks
      /\ inside' = [b \in Branches |-> inside[b] \cup {f}]
      /\ seen' = seen /\ buffer' = buffer /\ out' = out /\ firsts' = firsts
      /\ passed' = passed
  BY DEF Inv, EnterLifecycle, MayEnter, EnterBranches, outputVars
<1>2. Cardinality(Branches) \in Nat /\ Branches \ {} = Branches
  BY BranchesFinite, FS_CardinalityType
<1>3. TypeOK'
  BY <1>1, <1>2 DEF TypeOK
<1>4. ~synchronizing
  BY <1>1 DEF EnterLifecycle, MayEnter, FlightInv, Tasks
<1>5. passed[f] = {} /\ \A b \in Branches : f \notin inside[b]
  BY <1>1 DEF CountInv, TypeOK
<1>6. CountInv'
  BY <1>1, <1>2, <1>5 DEF CountInv, TypeOK
<1>7. FlightInv'
  BY <1>1, <1>4 DEF FlightInv, InFlight
<1>8. OutInv'
  BY <1>1, <1>5, BranchesFinite DEF OutInv
<1>9. Once(out)' /\ StartInv'
  BY <1>1 DEF Once, StartInv, StartFirst
<1>10. QED
  BY <1>3, <1>6, <1>7, <1>8, <1>9 DEF Inv

LEMMA EnterOtherKeeps ==
    ASSUME Inv, NEW f \in Frames, EnterOther(f)
    PROVE  Inv'
<1>1. /\ TypeOK /\ CountInv /\ FlightInv /\ OutInv /\ Once(out) /\ StartInv
      /\ f \in Data /\ f \notin Lifecycle /\ used' = used \cup {f}
      /\ "start" \in used
      /\ inside' = [b \in Branches |-> inside[b] \cup {f}]
      /\ counter' = counter /\ synchronizing' = synchronizing
      /\ paused' = paused /\ seen' = seen /\ buffer' = buffer /\ out' = out
      /\ firsts' = firsts /\ passed' = passed
  BY FramesDisjoint DEF Inv, EnterOther, MayEnter, EnterBranches, outputVars,
                        syncVars, Lifecycle
<1>2. TypeOK'
  BY <1>1 DEF TypeOK
<1>3. CountInv' /\ FlightInv' /\ OutInv'
  BY <1>1 DEF CountInv, FlightInv, InFlight, OutInv, TypeOK
<1>4. Once(out)' /\ StartInv'
  BY <1>1 DEF Once, StartInv, StartFirst
<1>5. QED
  BY <1>2, <1>3, <1>4 DEF Inv

\* EmitOther, Generate and Lose push a frame; it may be a new one.
LEMMA PushStepKeeps ==
    ASSUME Inv, "start" \in used, NEW f \in Frames \ Lifecycle, ParallelPush(f),
           used' = used \cup {f}, UNCHANGED <<syncVars, passed>>,
           inside' \in [Branches -> SUBSET used],
           \A b \in Branches : inside'[b] \subseteq inside[b]
    PROVE  Inv'
<1>1. /\ TypeOK /\ CountInv /\ FlightInv /\ OutInv /\ Once(out) /\ StartFirst
      /\ counter' = counter /\ synchronizing' = synchronizing
      /\ paused' = paused /\ passed' = passed
  BY DEF Inv, StartInv, syncVars
<1>2. /\ seen' \subseteq seen \cup {f}
      /\ buffer' \in Seq(Frames) /\ out' \in Seq(Frames)
      /\ firsts' \in Seq(Frames)
      /\ buffer' # <<>> => synchronizing
      /\ \A g \in Lifecycle : g \in Elements(out') <=> g \in Elements(out)
      /\ \A g \in Lifecycle : g \in seen' <=> g \in seen
      /\ \A g \in Lifecycle : g \notin Elements(buffer')
      /\ Once(out') /\ StartFirst'
  BY <1>1, PushKeeps
<1>3. TypeOK'
  BY <1>1, <1>2 DEF TypeOK
<1>4. CountInv'
  BY <1>1 DEF CountInv
<1>5. FlightInv'
  BY <1>1 DEF FlightInv, InFlight
<1>6. OutInv'
  BY <1>1, <1>2 DEF OutInv
<1>7. Once(out)'
  BY <1>2 DEF Once
<1>8. StartInv'
  BY <1>2 DEF StartInv
<1>9. QED
  BY <1>3, <1>4, <1>5, <1>6, <1>7, <1>8 DEF Inv

LEMMA EmitOtherKeeps ==
    ASSUME Inv, NEW b \in Branches, NEW f \in Frames, EmitOther(b, f)
    PROVE  Inv'
<1>1. TypeOK /\ StartInv /\ f \in inside[b] /\ f \notin Lifecycle
  BY DEF Inv, EmitOther
<1>2. f \in used /\ "start" \in used /\ used' = used \cup {f}
  BY <1>1 DEF TypeOK, StartInv, EmitOther
<1>3. /\ inside' \in [Branches -> SUBSET used]
      /\ \A c \in Branches : inside'[c] \subseteq inside[c]
  BY <1>1 DEF EmitOther, TypeOK
<1>4. ParallelPush(f) /\ UNCHANGED <<syncVars, passed>>
  BY DEF EmitOther
<1>5. QED
  BY <1>1, <1>2, <1>3, <1>4, PushStepKeeps

LEMMA GenerateKeeps ==
    ASSUME Inv, NEW b \in Branches, NEW f \in Frames, Generate(b, f)
    PROVE  Inv'
<1>1. /\ f \in Frames \ Lifecycle /\ "start" \in used
      /\ used' = used \cup {f} /\ ParallelPush(f)
      /\ UNCHANGED <<syncVars, passed>>
  BY FramesDisjoint DEF Generate
<1>2. /\ inside' \in [Branches -> SUBSET used]
      /\ \A c \in Branches : inside'[c] \subseteq inside[c]
  BY DEF Inv, TypeOK, Generate
<1>3. QED
  BY <1>1, <1>2, PushStepKeeps

LEMMA LoseKeeps ==
    ASSUME Inv, NEW b \in Branches, NEW f \in Frames, Lose(b, f)
    PROVE  Inv'
<1>1. /\ TypeOK /\ StartInv /\ f \in inside[b]
      /\ used' = used \cup {"error"} /\ ParallelPush("error")
      /\ UNCHANGED <<syncVars, passed>>
  BY DEF Inv, Lose
<1>2. "start" \in used
  BY <1>1 DEF TypeOK, StartInv
<1>3. /\ inside' \in [Branches -> SUBSET used]
      /\ \A c \in Branches : inside'[c] \subseteq inside[c]
  BY <1>1 DEF Lose, TypeOK
<1>4. QED
  BY <1>1, <1>2, <1>3, FramesDisjoint, PushStepKeeps

LEMMA DropKeeps ==
    ASSUME Inv, NEW b \in Branches, NEW f \in Frames, Drop(b, f)
    PROVE  Inv'
<1>1. /\ TypeOK /\ CountInv /\ FlightInv /\ OutInv /\ Once(out) /\ StartInv
      /\ used' = used /\ counter' = counter /\ synchronizing' = synchronizing
      /\ paused' = paused /\ seen' = seen /\ buffer' = buffer /\ out' = out
      /\ firsts' = firsts /\ passed' = passed
  BY DEF Inv, Drop, syncVars, outputVars
<1>2. /\ inside' \in [Branches -> SUBSET used]
      /\ \A c \in Branches : inside'[c] \subseteq inside[c]
  BY <1>1 DEF Drop, TypeOK
<1>3. TypeOK' /\ CountInv' /\ FlightInv' /\ OutInv' /\ Once(out)' /\ StartInv'
  BY <1>1, <1>2 DEF TypeOK, CountInv, FlightInv, InFlight, OutInv, Once,
                    StartInv, StartFirst
<1>4. QED
  BY <1>3 DEF Inv

LEMMA EmitEarlyKeeps ==
    ASSUME Inv, NEW b \in Branches, NEW f \in Frames, EmitEarly(b, f)
    PROVE  Inv'
<1>1. /\ TypeOK /\ CountInv /\ FlightInv /\ OutInv /\ Once(out) /\ StartInv
      /\ LeaveBranch(b, f) /\ counter'[f] > 0
      /\ used' = used /\ synchronizing' = synchronizing /\ paused' = paused
      /\ seen' = seen /\ buffer' = buffer /\ out' = out /\ firsts' = firsts
  BY DEF Inv, EmitEarly, outputVars
<1>2. /\ f \in Lifecycle /\ f \in used /\ passed[f] # Branches
      /\ passed' \in [Lifecycle -> SUBSET Branches]
      /\ passed'[f] = passed[f] \cup {b}
      /\ \A g \in Lifecycle : g # f => passed'[g] = passed[g]
      /\ inside' \in [Branches -> SUBSET used]
      /\ \A c \in Branches : inside'[c] \subseteq inside[c]
      /\ f \notin inside'[b]
  <2>1. TypeOK /\ CountInv /\ LeaveBranch(b, f)
    BY <1>1
  <2>2. /\ f \in Lifecycle /\ f \in used /\ passed[f] # Branches
        /\ passed' \in [Lifecycle -> SUBSET Branches]
        /\ passed'[f] = passed[f] \cup {b}
    BY <2>1, LeaveCounts
  <2>3. \A g \in Lifecycle : g # f => passed'[g] = passed[g]
    BY <2>1, <2>2 DEF LeaveBranch, TypeOK
  <2>4. /\ inside' \in [Branches -> SUBSET used]
        /\ \A c \in Branches : inside'[c] \subseteq inside[c]
        /\ f \notin inside'[b]
    BY <2>1, LeaveCounts
  <2>5. QED
    BY <2>2, <2>3, <2>4, Zenon
<1>3. /\ counter' \in [Lifecycle -> Nat]
      /\ \A g \in Lifecycle : g # f => counter'[g] = counter[g]
      /\ counter'[f] = Cardinality(Branches \ passed'[f])
      /\ passed'[f] # Branches
  BY <1>1, LeaveCounts
<1>4. TypeOK'
  BY <1>1, <1>2, <1>3 DEF TypeOK
<1>5. CountInv'
  BY <1>1, <1>2, <1>3 DEF CountInv
<1>6. FlightInv' /\ OutInv'
  BY <1>1, <1>2, <1>3 DEF FlightInv, InFlight, OutInv
<1>7. Once(out)' /\ StartInv'
  BY <1>1 DEF Once, StartInv, StartFirst
<1>8. QED
  BY <1>4, <1>5, <1>6, <1>7 DEF Inv

\* The last branch: the frame and the buffer go out, and nothing is in flight.
LEMMA EmitLastKeeps ==
    ASSUME Inv, NEW b \in Branches, NEW f \in Frames, EmitLast(b, f)
    PROVE  Inv'
<1>1. /\ TypeOK /\ CountInv /\ FlightInv /\ OutInv /\ Once(out) /\ StartInv
      /\ LeaveBranch(b, f) /\ counter'[f] = 0
      /\ synchronizing' = FALSE /\ paused' = {} /\ used' = used
      /\ buffer' = <<>> /\ seen' = seen \cup {f} /\ firsts' = firsts
  BY DEF Inv, EmitLast
<1>2. /\ f \in Lifecycle /\ f \in used
      /\ passed[f] # Branches /\ passed'[f] = Branches
      /\ passed' \in [Lifecycle -> SUBSET Branches]
      /\ passed'[f] = passed[f] \cup {b}
      /\ \A g \in Lifecycle : g # f => passed'[g] = passed[g]
      /\ counter' \in [Lifecycle -> Nat]
      /\ \A g \in Lifecycle : g # f => counter'[g] = counter[g]
      /\ counter'[f] = Cardinality(Branches \ passed'[f])
      /\ inside' \in [Branches -> SUBSET used]
      /\ \A c \in Branches : inside'[c] \subseteq inside[c]
      /\ f \notin inside'[b]
  BY <1>1, LeaveCounts
<1>3. f \notin Elements(out) /\ f \notin seen
  BY <1>1, <1>2 DEF OutInv
<1>4. out' = out \o (IF f = "start" THEN <<f>> \o buffer ELSE buffer \o <<f>>)
  BY <1>3 DEF EmitLast
<1>5. out \in Seq(Frames) /\ buffer \in Seq(Frames)
  BY <1>1 DEF TypeOK
<1>6. \A g \in Lifecycle : g \notin Elements(buffer)
  BY <1>1 DEF OutInv
<1>7. PICK m \in Seq(Frames) :
         out' = out \o m /\ Once(m) /\ Elements(m) = Elements(buffer) \cup {f}
  <2>1. \/ out' = out \o (<<f>> \o buffer)
        \/ out' = out \o (buffer \o <<f>>)
    BY <1>4, Zenon
  <2>2. /\ <<f>> \o buffer \in Seq(Frames) /\ Once(<<f>> \o buffer)
        /\ Elements(<<f>> \o buffer) = Elements(buffer) \cup {f}
        /\ buffer \o <<f>> \in Seq(Frames) /\ Once(buffer \o <<f>>)
        /\ Elements(buffer \o <<f>>) = Elements(buffer) \cup {f}
    BY <1>2, <1>5, <1>6, FrameAndBuffer, Zenon
  <2>3. QED
    BY <2>1, <2>2, Zenon
<1>8. /\ out' \in Seq(Frames) /\ Once(out')
      /\ Elements(out') = Elements(out) \cup Elements(buffer) \cup {f}
      /\ out # <<>> => out' # <<>> /\ out'[1] = out[1]
  <2>1. /\ out \o m \in Seq(Frames)
        /\ Elements(out \o m) = Elements(out) \cup Elements(m)
        /\ out # <<>> => out \o m # <<>> /\ (out \o m)[1] = out[1]
    BY <1>5, <1>7, Concatenate, Zenon
  <2>2. \A g \in Lifecycle : ~(g \in Elements(out) /\ g \in Elements(m))
    BY <1>3, <1>6, <1>7
  <2>3. Once(out) /\ Once(m)
    BY <1>1, <1>7
  <2>4. Once(out \o m)
    BY <1>5, <1>7, <2>2, <2>3, ConcatenateOnce, Zenon
  <2>5. Elements(out \o m) = Elements(out) \cup Elements(buffer) \cup {f}
    BY <1>7, <2>1
  <2>6. QED
    BY <1>7, <2>1, <2>4, <2>5, Zenon
<1>9. TypeOK'
  <2>1. <<>> \in Seq(Frames) /\ {} \in SUBSET Tasks /\ firsts \in Seq(Frames)
    BY <1>1 DEF TypeOK
  <2>2. used \subseteq Frames /\ seen' \subseteq used
    BY <1>1, <1>2 DEF TypeOK
  <2>3. QED
    BY <1>1, <1>2, <1>8, <2>1, <2>2, Zenon DEF TypeOK
<1>10. CountInv'
  <2>1. ASSUME NEW g \in Lifecycle
        PROVE  /\ g \in used' => counter'[g] = Cardinality(Branches \ passed'[g])
               /\ g \notin used' => passed'[g] = {}
               /\ \A c \in Branches : g \in inside'[c] => c \notin passed'[g]
    <3>1. CASE g = f
      BY <1>1, <1>2, <3>1 DEF CountInv
    <3>2. CASE g # f
      BY <1>1, <1>2, <3>2 DEF CountInv
    <3>3. QED
      BY <3>1, <3>2
  <2>2. QED
    BY <2>1, Zenon DEF CountInv
<1>11. FlightInv'
  BY <1>1, <1>2 DEF FlightInv, InFlight
<1>12. OutInv'
  <2>1. \A g \in Lifecycle :
           /\ g \in Elements(out)' <=> g = f \/ g \in Elements(out)
           /\ g \in seen' <=> g = f \/ g \in seen
    BY <1>1, <1>6, <1>8
  <2>2. \A g \in Lifecycle : g \notin Elements(buffer)'
    BY <1>1 DEF Elements
  <2>3. QED
    BY <1>1, <1>2, <2>1, <2>2 DEF OutInv
<1>13. StartFirst'
  <2>1. CASE out # <<>>
    BY <1>1, <1>8, <2>1 DEF StartInv, StartFirst
  <2>2. CASE out = <<>> /\ f = "start"
    <3>1. <<f>> \in Seq(Frames) /\ <<f>> # <<>> /\ <<f>>[1] = f
      BY Singleton
    <3>2. <<f>> \o buffer \in Seq(Frames) /\ (<<f>> \o buffer)[1] = f
      BY <1>5, <3>1, Concatenate, Zenon
    <3>3. out' = <<f>> \o buffer
      BY <1>4, <1>5, <2>2, <3>2, Concatenate, Zenon
    <3>4. QED
      BY <2>2, <3>2, <3>3 DEF StartFirst
  <2>3. CASE out = <<>> /\ f # "start"
    <3>1. "start" \in used /\ ~InFlight("start")
      BY <1>1, <1>2, <2>3 DEF StartInv, FlightInv, InFlight, Lifecycle
    <3>2. "start" \in Elements(out)
      BY <1>1, <3>1 DEF OutInv, InFlight, Lifecycle
    <3>3. QED
      BY <2>3, <3>2 DEF Elements
  <2>4. QED
    BY <2>1, <2>2, <2>3
<1>14. StartInv'
  BY <1>1, <1>13 DEF StartInv
<1>15. Once(out)'
  BY <1>8 DEF Once
<1>16. QED
  BY <1>9, <1>10, <1>11, <1>12, <1>14, <1>15 DEF Inv

LEMMA StepKeeps == Inv /\ [Next]_vars => Inv'
<1> SUFFICES ASSUME Inv, [Next]_vars PROVE Inv'
  OBVIOUS
<1>1. CASE UNCHANGED vars
  <2>1. /\ used' = used /\ inside' = inside /\ counter' = counter
        /\ synchronizing' = synchronizing /\ paused' = paused /\ seen' = seen
        /\ buffer' = buffer /\ out' = out /\ passed' = passed /\ firsts' = firsts
    BY <1>1 DEF vars, syncVars, outputVars
  <2>2. TypeOK' /\ CountInv' /\ FlightInv' /\ OutInv' /\ Once(out)' /\ StartInv'
    BY <2>1, Zenon DEF Inv, TypeOK, CountInv, FlightInv, InFlight, OutInv, Once,
                       StartInv, StartFirst
  <2>3. QED
    BY <2>2 DEF Inv
<1>2. CASE Next
  BY <1>2, EnterLifecycleKeeps, EnterOtherKeeps, EmitOtherKeeps, DropKeeps,
     GenerateKeeps, LoseKeeps, EmitEarlyKeeps, EmitLastKeeps
     DEF Next, BranchMoves, BranchPasses
<1>3. QED
  BY <1>1, <1>2

-----------------------------------------------------------------------------
(* The theorems.                                                           *)

LEMMA InvAlways == Spec => []Inv
<1>1. QED
  BY InitHolds, StepKeeps, PTL DEF Spec

\* Type correctness: frames are buffered only during a synchronisation
\* (__init__ 51-55, _parallel_push_frame).
THEOREM ParallelTypeCorrect == Spec => []TypeOK
<1>1. Inv => TypeOK
  BY DEF Inv
<1>2. QED
  BY <1>1, InvAlways, PTL

\* For any number of branches, a lifecycle frame leaves the parallel pipeline
\* once, and only after every branch has passed it on (process_frame and
\* _pipeline_sink_push_frame).
THEOREM LifecycleLeavesWhole == Spec => []LifecycleWhole
<1>1. Inv => LifecycleWhole
  BY DEF Inv, OutInv, Once, LifecycleWhole
<1>2. QED
  BY <1>1, InvAlways, PTL

\* For any number of branches, the first frame to leave is the StartFrame.
THEOREM StartLeavesFirst == Spec => []StartFirst
<1>1. Inv => StartFirst
  BY DEF Inv, StartInv
<1>2. QED
  BY <1>1, InvAlways, PTL

-----------------------------------------------------------------------------
(* The order of the other frames, and the end of the pipeline.             *)

\* t is s without its lifecycle frames.
SameOrder(s, t) ==
    \A i, j \in DOMAIN s, k, l \in DOMAIN t :
        s[i] = t[k] /\ s[j] = t[l] => (i < j <=> k < l)

Filtered(s, t) == Elements(s) \ Lifecycle = Elements(t) /\ SameOrder(s, t)

SeenInv == Elements(firsts) = seen \ Lifecycle

\* A branch that the EndFrame has left is empty, and nothing enters it before
\* the others have passed the frame on.
EmptyInv ==
    InFlight("end") => \A b \in passed["end"] : inside[b] \cap Downstream = {}

OrderInv == Filtered(out \o buffer, firsts) /\ SeenInv /\ EmptyInv

\* A frame that neither has, appended to both.
LEMMA FilteredAppend ==
    ASSUME NEW s \in Seq(Frames), NEW t \in Seq(Frames),
           NEW f \in Frames \ Lifecycle, f \notin Elements(t), Filtered(s, t)
    PROVE  Filtered(Append(s, f), Append(t, f))
<1> DEFINE u == Append(s, f)
           v == Append(t, f)
<1>1. /\ Len(s) \in Nat /\ DOMAIN s = 1..Len(s) /\ DOMAIN u = 1..Len(s) + 1
      /\ \A i \in 1..Len(s) : u[i] = s[i]
      /\ u[Len(s) + 1] = f
  OBVIOUS
<1>2. /\ Len(t) \in Nat /\ DOMAIN t = 1..Len(t) /\ DOMAIN v = 1..Len(t) + 1
      /\ \A i \in 1..Len(t) : v[i] = t[i]
      /\ v[Len(t) + 1] = f
  OBVIOUS
<1>3. \A i \in 1..Len(s) : s[i] # f
  BY <1>1 DEF Filtered, Elements
<1>4. \A i \in 1..Len(t) : t[i] # f
  BY <1>2 DEF Elements
<1> HIDE DEF u, v
<1>5. /\ \A i \in DOMAIN u : IF u[i] = f THEN i = Len(s) + 1
                                ELSE i \in DOMAIN s /\ u[i] = s[i]
      /\ \A i \in DOMAIN v : IF v[i] = f THEN i = Len(t) + 1
                                ELSE i \in DOMAIN t /\ v[i] = t[i]
  BY <1>1, <1>2, <1>3, <1>4
<1>6. Elements(u) = Elements(s) \cup {f} /\ Elements(v) = Elements(t) \cup {f}
  BY <1>1, <1>2 DEF Elements
<1>7. SameOrder(u, v)
  <2>1. SUFFICES ASSUME NEW i \in DOMAIN u, NEW j \in DOMAIN u,
                        NEW k \in DOMAIN v, NEW l \in DOMAIN v,
                        u[i] = v[k], u[j] = v[l]
                 PROVE  i < j <=> k < l
    BY DEF SameOrder
  <2>2. CASE u[i] = f /\ u[j] = f
    <3>1. i = Len(s) + 1 /\ j = Len(s) + 1 /\ k = Len(t) + 1 /\ l = Len(t) + 1
      BY <1>5, <2>1, <2>2
    <3>2. QED
      BY <1>1, <1>2, <3>1
  <2>3. CASE u[i] = f /\ u[j] # f
    <3>1. i = Len(s) + 1 /\ j \in 1..Len(s) /\ k = Len(t) + 1 /\ l \in 1..Len(t)
      BY <1>1, <1>2, <1>5, <2>1, <2>3
    <3>2. QED
      BY <1>1, <1>2, <3>1
  <2>4. CASE u[i] # f /\ u[j] = f
    <3>1. i \in 1..Len(s) /\ j = Len(s) + 1 /\ k \in 1..Len(t) /\ l = Len(t) + 1
      BY <1>1, <1>2, <1>5, <2>1, <2>4
    <3>2. QED
      BY <1>1, <1>2, <3>1
  <2>5. CASE u[i] # f /\ u[j] # f
    <3>1. /\ i \in DOMAIN s /\ j \in DOMAIN s /\ k \in DOMAIN t /\ l \in DOMAIN t
          /\ s[i] = t[k] /\ s[j] = t[l]
      BY <1>5, <2>1, <2>5
    <3>2. SameOrder(s, t)
      BY DEF Filtered
    <3>3. QED
      BY <3>1, <3>2, Zenon DEF SameOrder
  <2>6. QED
    BY <2>2, <2>3, <2>4, <2>5
<1>8. Elements(u) \ Lifecycle = Elements(v)
  BY <1>6 DEF Filtered
<1>9. Filtered(u, v)
  BY <1>7, <1>8 DEF Filtered
<1>10. QED
  BY <1>9 DEF u, v

\* A lifecycle frame anywhere in the first.
LEMMA FilteredInsert ==
    ASSUME NEW r \in Seq(Frames), NEW s \in Seq(Frames), NEW t \in Seq(Frames),
           NEW f \in Lifecycle, Filtered(r \o s, t)
    PROVE  Filtered(r \o (<<f>> \o s), t)
<1> DEFINE old == r \o s
           new == r \o (<<f>> \o s)
           At(i) == IF i <= Len(r) THEN i ELSE i - 1
<1>1. /\ Len(r) \in Nat /\ Len(s) \in Nat
      /\ DOMAIN old = 1..(Len(r) + Len(s)) /\ DOMAIN new = 1..(Len(r) + Len(s) + 1)
  BY FramesDisjoint
<1>2. /\ \A i \in 1..Len(r) : old[i] = r[i] /\ new[i] = r[i]
      /\ new[Len(r) + 1] = f
      /\ \A i \in 1..(Len(r) + Len(s)) :
            i > Len(r) => old[i] = s[i - Len(r)] /\ new[i + 1] = s[i - Len(r)]
  BY FramesDisjoint
<1> HIDE DEF old, new
<1>3. \A i \in DOMAIN new : \/ i = Len(r) + 1 /\ new[i] = f
                            \/ /\ i # Len(r) + 1 /\ At(i) \in DOMAIN old
                               /\ new[i] = old[At(i)]
  <2>1. SUFFICES ASSUME NEW i \in DOMAIN new, i # Len(r) + 1
                 PROVE  At(i) \in DOMAIN old /\ new[i] = old[At(i)]
    BY <1>2
  <2>2. CASE i <= Len(r)
    BY <1>1, <1>2, <2>2
  <2>3. CASE i > Len(r) + 1
    <3>1. i - 1 \in 1..(Len(r) + Len(s)) /\ i - 1 > Len(r) /\ (i - 1) + 1 = i
      BY <1>1, <2>3
    <3>2. QED
      BY <1>1, <1>2, <2>3, <3>1
  <2>4. QED
    BY <1>1, <2>1, <2>2, <2>3
<1>4. \A i \in DOMAIN old : old[i] \in Elements(new)
  <2>1. ASSUME NEW i \in DOMAIN old, i <= Len(r) PROVE old[i] \in Elements(new)
    BY <1>1, <1>2, <2>1 DEF Elements
  <2>2. ASSUME NEW i \in DOMAIN old, i > Len(r) PROVE old[i] \in Elements(new)
    <3>1. i + 1 \in DOMAIN new /\ new[i + 1] = old[i]
      BY <1>1, <1>2, <2>2
    <3>2. QED
      BY <3>1, Zenon DEF Elements
  <2>3. QED
    BY <1>1, <2>1, <2>2
<1>5. Elements(new) = Elements(old) \cup {f}
  <2>1. f \in Elements(new)
    <3>1. Len(r) + 1 \in DOMAIN new /\ new[Len(r) + 1] = f
      BY <1>1, <1>2
    <3>2. QED
      BY <3>1, Zenon DEF Elements
  <2>2. \A i \in DOMAIN new : new[i] = f \/ new[i] \in Elements(old)
    BY <1>3 DEF Elements
  <2>3. QED
    BY <1>4, <2>1, <2>2 DEF Elements
<1>6. Filtered(old, t)
  BY DEF old
<1>7. SameOrder(new, t)
  <2>1. SUFFICES ASSUME NEW i \in DOMAIN new, NEW j \in DOMAIN new,
                        NEW k \in DOMAIN t, NEW l \in DOMAIN t,
                        new[i] = t[k], new[j] = t[l]
                 PROVE  i < j <=> k < l
    BY DEF SameOrder
  <2>2. t[k] # f /\ t[l] # f
    BY <1>6 DEF Filtered, Elements
  <2>3. /\ i # Len(r) + 1 /\ At(i) \in DOMAIN old /\ old[At(i)] = t[k]
        /\ j # Len(r) + 1 /\ At(j) \in DOMAIN old /\ old[At(j)] = t[l]
    BY <1>3, <2>1, <2>2
  <2>4. SameOrder(old, t)
    BY <1>6 DEF Filtered
  <2>5. At(i) < At(j) <=> k < l
    BY <2>3, <2>4 DEF SameOrder
  <2>6. i < j <=> At(i) < At(j)
    BY <1>1, <2>3
  <2>7. QED
    BY <2>5, <2>6
<1>8. Filtered(new, t)
  BY <1>5, <1>6, <1>7 DEF Filtered
<1>9. QED
  BY <1>8 DEF new

\* ParallelPush adds a new frame to the end of both, whichever queue it takes.
LEMMA PushFilters ==
    ASSUME TypeOK, OrderInv, NEW f \in Frames \ Lifecycle, ParallelPush(f)
    PROVE  Filtered(out' \o buffer', firsts') /\ SeenInv'
<1>1. out \in Seq(Frames) /\ buffer \in Seq(Frames) /\ firsts \in Seq(Frames)
  BY DEF TypeOK
<1>2. CASE f \in seen
  BY <1>2 DEF OrderInv, ParallelPush, outputVars, SeenInv
<1>3. CASE f \notin seen
  <2>1. seen' = seen \cup {f} /\ firsts' = Append(firsts, f)
    BY <1>3 DEF ParallelPush
  <2>2. out' \o buffer' = Append(out \o buffer, f)
    <3>1. CASE synchronizing
      <4>1. out' = out /\ buffer' = Append(buffer, f)
        BY <1>3, <3>1 DEF ParallelPush
      <4>2. QED
        BY <1>1, <4>1
    <3>2. CASE ~synchronizing
      <4>1. out' = Append(out, f) /\ buffer' = <<>> /\ buffer = <<>>
        BY <1>3, <3>2 DEF ParallelPush, TypeOK
      <4>2. QED
        BY <1>1, <4>1
    <3>3. QED
      BY <3>1, <3>2
  <2>3. f \notin Elements(firsts)
    BY <1>3 DEF OrderInv, SeenInv
  <2>4. out \o buffer \in Seq(Frames)
    BY <1>1
  <2>5. Filtered(out' \o buffer', firsts')
    BY <1>1, <2>1, <2>2, <2>3, <2>4, FilteredAppend DEF OrderInv
  <2>6. Elements(firsts') = Elements(firsts) \cup {f}
    <3>1. /\ Len(firsts) \in Nat /\ DOMAIN firsts = 1..Len(firsts)
          /\ DOMAIN firsts' = 1..Len(firsts) + 1
          /\ \A i \in 1..Len(firsts) : firsts'[i] = firsts[i]
          /\ firsts'[Len(firsts) + 1] = f
      BY <1>1, <2>1
    <3>2. QED
      BY <3>1 DEF Elements
  <2>7. QED
    BY <2>1, <2>5, <2>6 DEF OrderInv, SeenInv
<1>4. QED
  BY <1>2, <1>3

\* The branches that the EndFrame has left stay empty, downstream, as long as nothing
\* enters.
LEMMA EmptyKeeps ==
    ASSUME Inv, EmptyInv, UNCHANGED passed,
           InFlight("end")' => InFlight("end"),
           \A b \in Branches : inside'[b] \cap Downstream \subseteq inside[b]
    PROVE  EmptyInv'
<1>1. passed["end"] \subseteq Branches
  BY DEF Inv, TypeOK, Lifecycle
<1>2. QED
  BY <1>1 DEF EmptyInv

\* What EmitEarly and EmitLast do to the branches that the EndFrame has left.
LEMMA LeaveEmpty ==
    ASSUME Inv, EmptyInv, NEW b \in Branches, NEW f \in Frames, LeaveBranch(b, f),
           used' = used
    PROVE  /\ EmptyInv'
           /\ f = "end" => \A c \in passed'["end"] : inside'[c] \cap Downstream = {}
<1>1. TypeOK /\ CountInv /\ FlightInv /\ "end" \in Lifecycle
  BY DEF Inv, Lifecycle
<1>2. /\ f \in Lifecycle /\ f \in used /\ passed[f] # Branches
      /\ passed'[f] = passed[f] \cup {b}
      /\ \A c \in Branches : inside'[c] \subseteq inside[c]
      /\ passed[f] \subseteq Branches
  BY <1>1, LeaveCounts DEF TypeOK
<1>3. CASE f = "end"
  <2>1. InFlight("end") /\ inside[b] \cap Downstream = {}
    BY <1>2, <1>3 DEF InFlight, LeaveBranch
  <2>2. \A c \in passed'["end"] : inside'[c] \cap Downstream = {}
    BY <1>2, <1>3, <2>1 DEF EmptyInv
  <2>3. QED
    BY <2>2 DEF EmptyInv
<1>4. CASE f # "end"
  <2>1. ~InFlight("end")
    BY <1>1, <1>2, <1>4 DEF FlightInv, InFlight
  <2>2. passed'["end"] = passed["end"]
    BY <1>1, <1>2, <1>4 DEF LeaveBranch, TypeOK
  <2>3. QED
    BY <1>4, <2>1, <2>2 DEF EmptyInv, InFlight
<1>5. QED
  BY <1>3, <1>4

LEMMA OrderInit == Init => OrderInv
<1>1. ASSUME Init PROVE out \o buffer = <<>> /\ firsts = <<>> /\ seen = {}
  BY <1>1 DEF Init
<1>2. Filtered(<<>>, <<>>) /\ Elements(<<>>) = {}
  BY DEF Filtered, SameOrder, Elements
<1>3. Init => EmptyInv
  BY DEF Init, EmptyInv, InFlight
<1>4. QED
  BY <1>1, <1>2, <1>3 DEF OrderInv, SeenInv

\* One step per action.
LEMMA OrderKeeps == Inv /\ OrderInv /\ [Next]_vars => OrderInv'
<1> SUFFICES ASSUME Inv, OrderInv, [Next]_vars PROVE OrderInv'
  OBVIOUS
<1>1. TypeOK /\ EmptyInv /\ FlightInv /\ CountInv /\ "end" \in Lifecycle
  BY DEF Inv, OrderInv, Lifecycle
<1>2. ASSUME UNCHANGED outputVars PROVE Filtered(out \o buffer, firsts)' /\ SeenInv'
  BY <1>2 DEF OrderInv, outputVars, SeenInv
<1>3. ASSUME NEW f \in Frames, EnterLifecycle(f) PROVE OrderInv'
  <2>1. UNCHANGED <<outputVars, passed>> /\ used' = used \cup {f}
        /\ f \notin used /\ f \in Lifecycle
        /\ inside' = [b \in Branches |-> inside[b] \cup {f}]
    BY <1>3 DEF EnterLifecycle, EnterBranches, MayEnter
  <2>2. EmptyInv'
    <3>1. CASE f = "end"
      BY <1>1, <2>1, <3>1 DEF EmptyInv, CountInv
    <3>2. CASE f # "end"
      <4>1. InFlight("end")' => InFlight("end")
        BY <2>1, <3>2 DEF InFlight
      <4>2. \A b \in Branches : inside'[b] \cap Downstream \subseteq inside[b]
        BY <2>1, FramesDisjoint DEF Downstream
      <4>3. QED
        BY <1>1, <2>1, <4>1, <4>2, EmptyKeeps
    <3>3. QED
      BY <3>1, <3>2
  <2>3. QED
    BY <1>2, <2>1, <2>2 DEF OrderInv
<1>4. ASSUME NEW f \in Frames, EnterOther(f) PROVE OrderInv'
  <2>1. /\ UNCHANGED outputVars /\ passed' = passed /\ used' = used \cup {f}
        /\ f \in Data /\ f \notin Lifecycle /\ "data" \notin paused
    BY <1>4, FramesDisjoint DEF EnterOther, EnterBranches, MayEnter, Lifecycle
  <2>2. ~InFlight("end")
    BY <1>1, <2>1 DEF FlightInv, Tasks
  <2>3. EmptyInv'
    BY <1>1, <2>1, <2>2 DEF EmptyInv, InFlight
  <2>4. QED
    BY <1>2, <2>1, <2>3 DEF OrderInv
<1>5. ASSUME NEW b \in Branches, NEW f \in Frames, EmitOther(b, f) PROVE OrderInv'
  <2>1. /\ ParallelPush(f) /\ f \notin Lifecycle /\ UNCHANGED passed
        /\ used' = used /\ inside' = [inside EXCEPT ![b] = @ \ {f}]
    BY <1>5 DEF EmitOther
  <2>2. EmptyInv'
    <3>1. \A c \in Branches : inside'[c] \cap Downstream \subseteq inside[c]
      BY <1>1, <2>1 DEF TypeOK
    <3>2. QED
      BY <1>1, <2>1, <3>1, EmptyKeeps DEF InFlight
  <2>3. QED
    BY <1>1, <2>1, <2>2, PushFilters DEF OrderInv
<1>6. ASSUME NEW b \in Branches, NEW f \in Frames, Drop(b, f) PROVE OrderInv'
  <2>1. /\ UNCHANGED outputVars /\ UNCHANGED passed
        /\ used' = used /\ inside' = [inside EXCEPT ![b] = @ \ {f}]
    BY <1>6 DEF Drop
  <2>2. EmptyInv'
    <3>1. \A c \in Branches : inside'[c] \cap Downstream \subseteq inside[c]
      BY <1>1, <2>1 DEF TypeOK
    <3>2. QED
      BY <1>1, <2>1, <3>1, EmptyKeeps DEF InFlight
  <2>3. QED
    BY <1>2, <2>1, <2>2 DEF OrderInv
<1>7. ASSUME NEW b \in Branches, NEW f \in Frames, Generate(b, f) PROVE OrderInv'
  <2>1. /\ ParallelPush(f) /\ f \notin Lifecycle /\ UNCHANGED passed
        /\ used' = used \cup {f} /\ inside' = inside
    BY <1>7, FramesDisjoint DEF Generate
  <2>2. EmptyInv'
    BY <1>1, <2>1, EmptyKeeps DEF InFlight
  <2>3. QED
    BY <1>1, <2>1, <2>2, PushFilters DEF OrderInv
<1>8. ASSUME NEW b \in Branches, NEW f \in Frames, Lose(b, f) PROVE OrderInv'
  <2>1. /\ ParallelPush("error") /\ UNCHANGED passed
        /\ used' = used \cup {"error"} /\ inside' = [inside EXCEPT ![b] = @ \ {f}]
    BY <1>8 DEF Lose
  <2>2. EmptyInv'
    <3>1. \A c \in Branches : inside'[c] \cap Downstream \subseteq inside[c]
      BY <1>1, <2>1 DEF TypeOK
    <3>2. InFlight("end")' => InFlight("end")
      BY <1>1, <2>1, FramesDisjoint DEF InFlight
    <3>3. QED
      BY <1>1, <2>1, <3>1, <3>2, EmptyKeeps
  <2>3. QED
    BY <1>1, <2>1, <2>2, FramesDisjoint, PushFilters DEF OrderInv
<1>9. ASSUME NEW b \in Branches, NEW f \in Frames, EmitEarly(b, f) PROVE OrderInv'
  <2>1. UNCHANGED outputVars /\ used' = used /\ LeaveBranch(b, f)
    BY <1>9 DEF EmitEarly
  <2>2. QED
    BY <1>1, <1>2, <2>1, LeaveEmpty DEF OrderInv
<1>10. ASSUME NEW b \in Branches, NEW f \in Frames, EmitLast(b, f) PROVE OrderInv'
  <2>1. /\ LeaveBranch(b, f) /\ used' = used /\ firsts' = firsts
        /\ buffer' = <<>> /\ seen' = seen \cup {f}
        /\ f \in Lifecycle /\ f \notin seen
    BY <1>1, <1>10, LeaveCounts DEF EmitLast, Inv, OutInv
  <2>2. out \in Seq(Frames) /\ buffer \in Seq(Frames) /\ firsts \in Seq(Frames)
        /\ <<>> \in Seq(Frames) /\ out \o buffer \in Seq(Frames)
    BY <1>1 DEF TypeOK
  <2>3. Filtered(out \o buffer, firsts) /\ Filtered((out \o buffer) \o <<>>, firsts)
    BY <2>2 DEF OrderInv
  <2>4. /\ Filtered(out \o (<<f>> \o buffer), firsts)
        /\ Filtered((out \o buffer) \o (<<f>> \o <<>>), firsts)
    BY <2>1, <2>2, <2>3, FilteredInsert
  <2>5. \/ out' \o buffer' = out \o (<<f>> \o buffer)
        \/ out' \o buffer' = (out \o buffer) \o (<<f>> \o <<>>)
    <3>1. CASE f = "start"
      <4>1. out' = out \o (<<f>> \o buffer)
        BY <1>10, <2>1, <3>1 DEF EmitLast
      <4>2. QED
        BY <2>1, <2>2, <4>1, FramesDisjoint
    <3>2. CASE f # "start"
      <4>1. out' = out \o (buffer \o <<f>>)
        BY <1>10, <2>1, <3>2 DEF EmitLast
      <4>2. <<f>> \in Seq(Frames)
        BY <2>1, FramesDisjoint
      <4>3. QED
        BY <2>1, <2>2, <4>1, <4>2
    <3>3. QED
      BY <3>1, <3>2
  <2>6. Filtered(out \o buffer, firsts)'
    BY <2>1, <2>4, <2>5
  <2>7. SeenInv'
    BY <2>1 DEF OrderInv, SeenInv
  <2>8. QED
    BY <1>1, <2>1, <2>6, <2>7, LeaveEmpty DEF OrderInv
<1>11. ASSUME UNCHANGED vars PROVE OrderInv'
  BY <1>11 DEF OrderInv, SeenInv, EmptyInv, InFlight, vars, syncVars, outputVars
<1>12. QED
  BY <1>3, <1>4, <1>5, <1>6, <1>7, <1>8, <1>9, <1>10, <1>11
     DEF Next, BranchMoves, BranchPasses

LEMMA OrderAlways == Spec => [](Inv /\ OrderInv)
<1>1. QED
  BY InitHolds, StepKeeps, OrderInit, OrderKeeps, PTL DEF Spec

\* A frame that leaves with the last branch leaves with the buffer.
LEMMA EndLeaves ==
    ASSUME Inv, OrderInv, NEW b \in Branches, EmitLast(b, "end")
    PROVE  /\ out'[Len(out')] = "end"
           /\ Elements(firsts') \subseteq Elements(out')
           /\ \A c \in Branches : inside'[c] \cap Downstream = {}
<1>1. /\ LeaveBranch(b, "end") /\ counter'["end"] = 0 /\ used' = used
      /\ firsts' = firsts /\ "end" \in Lifecycle /\ "end" \in Frames
      /\ TypeOK /\ CountInv /\ OutInv /\ EmptyInv
  BY FramesDisjoint DEF EmitLast, Inv, OrderInv, Lifecycle
<1>2. passed["end"] # Branches /\ passed'["end"] = Branches
  BY <1>1, LeaveCounts
<1>3. "end" \notin seen
  BY <1>1, <1>2 DEF OutInv
<1>4. out' = out \o (buffer \o <<"end">>)
  BY <1>3 DEF EmitLast
<1>5. out \in Seq(Frames) /\ buffer \in Seq(Frames) /\ <<"end">> \in Seq(Frames)
  BY <1>1 DEF TypeOK
<1>6. /\ out' = (out \o buffer) \o <<"end">> /\ out \o buffer \in Seq(Frames)
      /\ out'[Len(out')] = "end"
  BY <1>4, <1>5
<1>7. Elements(out \o buffer) \subseteq Elements(out')
  <2>1. Elements((out \o buffer) \o <<"end">>)
           = Elements(out \o buffer) \cup Elements(<<"end">>)
    BY <1>5, <1>6, Concatenate, Zenon
  <2>2. QED
    BY <1>6, <2>1, Zenon
<1>8. Elements(firsts) \subseteq Elements(out \o buffer)
  BY DEF OrderInv, Filtered
<1>9. \A c \in Branches : inside'[c] \cap Downstream = {}
  BY <1>1, <1>2, LeaveEmpty
<1>10. QED
  BY <1>1, <1>6, <1>7, <1>8, <1>9

\* For any number of branches, the frames that are not lifecycle frames leave
\* once each, in the order they first left a branch, none of them lost in the
\* buffer (_parallel_push_frame and _flush_buffered_frames).
THEOREM OthersLeaveInOrder == Spec => []InOrderOnce
<1>1. Inv /\ OrderInv => InOrderOnce
  BY DEF OrderInv, Filtered, SameOrder, InOrderOnce
<1>2. QED
  BY <1>1, OrderAlways, PTL

\* For any number of branches, the StartFrame leaves before any other frame and
\* the EndFrame after everything that entered downstream before it (process_frame
\* and _pipeline_sink_push_frame).
THEOREM LifecycleFramesEnclose == Spec => LifecycleEncloses
<1> DEFINE EndStep == "end" \in Elements(out') \ Elements(out) =>
                          /\ out'[Len(out')] = "end"
                          /\ Elements(firsts') \subseteq Elements(out')
                          /\ \A b \in Branches : inside'[b] \cap Downstream = {}
<1>1. Inv => StartFirst
  BY DEF Inv, StartInv
<1>2. Inv /\ OrderInv /\ [Next]_vars => [EndStep]_vars
  <2> SUFFICES ASSUME Inv, OrderInv, Next, "end" \in Elements(out') \ Elements(out)
               PROVE  EndStep
    OBVIOUS
  <2>1. /\ TypeOK /\ OutInv /\ Once(out) /\ StartFirst /\ FlightInv
        /\ used # {} => "start" \in used
        /\ "end" \in Lifecycle
    BY DEF Inv, StartInv, Lifecycle
  <2>2. ASSUME NEW f \in Frames \ Lifecycle, ParallelPush(f), "start" \in used
        PROVE  FALSE
    BY <2>1, <2>2, PushKeeps
  <2>3. ASSUME out' = out PROVE FALSE
    BY <2>3
  <2>4. ASSUME NEW f \in Frames, EnterLifecycle(f) \/ EnterOther(f) PROVE FALSE
    BY <2>3, <2>4 DEF EnterLifecycle, EnterOther, outputVars
  <2>5. ASSUME NEW b \in Branches, NEW f \in Frames, EmitOther(b, f) PROVE FALSE
    BY <2>1, <2>2, <2>5 DEF EmitOther, TypeOK
  <2>6. ASSUME NEW b \in Branches, NEW f \in Frames, Drop(b, f) PROVE FALSE
    BY <2>3, <2>6 DEF Drop, outputVars
  <2>7. ASSUME NEW b \in Branches, NEW f \in Frames, Generate(b, f) PROVE FALSE
    BY <2>2, <2>7, FramesDisjoint DEF Generate
  <2>8. ASSUME NEW b \in Branches, NEW f \in Frames, Lose(b, f) PROVE FALSE
    BY <2>1, <2>2, <2>8, FramesDisjoint DEF Lose, TypeOK
  <2>9. ASSUME NEW b \in Branches, NEW f \in Frames, EmitEarly(b, f) PROVE FALSE
    BY <2>3, <2>9 DEF EmitEarly, outputVars
  <2>10. ASSUME NEW b \in Branches, NEW f \in Frames, EmitLast(b, f) PROVE EndStep
    <3>1. CASE f = "end"
      BY <2>10, <3>1, EndLeaves
    <3>2. CASE f # "end"
      <4>1. out \in Seq(Frames) /\ buffer \in Seq(Frames) /\ "end" \notin Elements(buffer)
        BY <2>1 DEF TypeOK, OutInv
      <4>2. <<>> \in Seq(Frames) /\ <<f>> \in Seq(Frames)
            /\ Elements(<<>>) = {} /\ Elements(<<f>>) = {f}
        BY Singleton DEF Elements
      <4>3. PICK m \in {<<>>, <<f>>} : \/ out' = out \o (m \o buffer)
                                       \/ out' = out \o (buffer \o m)
        BY <2>10 DEF EmitLast
      <4>4. m \in Seq(Frames) /\ "end" \notin Elements(m)
        BY <3>2, <4>2, <4>3
      <4>5. "end" \notin Elements(m \o buffer) /\ m \o buffer \in Seq(Frames)
            /\ "end" \notin Elements(buffer \o m) /\ buffer \o m \in Seq(Frames)
        BY <4>1, <4>4, Concatenate
      <4>6. "end" \notin Elements(out') \ Elements(out)
        <5>1. /\ Elements(out \o (m \o buffer)) = Elements(out) \cup Elements(m \o buffer)
              /\ Elements(out \o (buffer \o m)) = Elements(out) \cup Elements(buffer \o m)
          BY <4>1, <4>5, Concatenate, Zenon
        <5>2. QED
          BY <4>3, <4>5, <5>1, Zenon
      <4>7. QED
        BY <4>6
    <3>3. QED
      BY <3>1, <3>2
  <2>11. QED
    BY <2>4, <2>5, <2>6, <2>7, <2>8, <2>9, <2>10
       DEF Next, BranchMoves, BranchPasses
<1>3. QED
  BY <1>1, <1>2, OrderAlways, PTL DEF Spec, LifecycleEncloses, EndLast
-----------------------------------------------------------------------------
(* The state half of BarrierLifts.                                         *)

\* The barrier is up while a lifecycle frame is on its way and only then: both tasks
\* run and nothing is buffered without it, and with it each branch that has not passed
\* the frame on still has it, unless a branch lost it.
BarrierHasReason ==
    /\ ~synchronizing => paused = {} /\ buffer = <<>>
    /\ synchronizing =>
         \E f \in Lifecycle :
            /\ InFlight(f) /\ counter[f] > 0
            /\ "error" \in used \/ \A b \in Branches \ passed[f] : f \in inside[b]

BarrierInv ==
    /\ ~synchronizing => paused = {}
    /\ synchronizing => \E f \in Lifecycle : InFlight(f)
    /\ "error" \notin used =>
         \A f \in Lifecycle \cap used : \A b \in Branches \ passed[f] : f \in inside[b]

\* Frames other than the lifecycle frames do not touch the barrier.
LEMMA OthersKeepBarrier ==
    ASSUME Inv, BarrierInv,
           UNCHANGED <<syncVars, passed>>,
           used \subseteq used', used' \cap Lifecycle = used \cap Lifecycle,
           \A b \in Branches : inside'[b] \cap Lifecycle = inside[b] \cap Lifecycle
                               \/ "error" \in used'
    PROVE  BarrierInv'
<1>1. \A f \in Lifecycle : InFlight(f)' <=> InFlight(f)
  BY DEF InFlight, syncVars
<1>2. QED
  BY <1>1 DEF BarrierInv, syncVars

LEMMA BarrierStep ==
    ASSUME Inv, Inv', BarrierInv, [Next]_vars
    PROVE  BarrierInv'
<1> USE ParallelAssumption DEF Frames
<1>1. /\ inside \in [Branches -> SUBSET used] /\ used \subseteq Frames
      /\ passed \in [Lifecycle -> SUBSET Branches] /\ Lifecycle \subseteq Frames
      /\ "error" \notin Lifecycle /\ Data \cap Lifecycle = {}
  BY DEF Inv, TypeOK, Lifecycle
<1>2. ASSUME NEW f \in Frames, EnterLifecycle(f) PROVE BarrierInv'
  <2>1. f \in Lifecycle /\ f \notin used /\ passed[f] = {}
    BY <1>2 DEF EnterLifecycle, MayEnter, Inv, CountInv
  <2>2. InFlight(f)'
    BY <1>2, <2>1 DEF EnterLifecycle, EnterBranches, InFlight
  <2>3. \A g \in Lifecycle \cap used' : \A b \in Branches \ passed[g] :
           "error" \notin used => g \in inside'[b]
    BY <1>1, <1>2, <2>1 DEF EnterLifecycle, EnterBranches, BarrierInv
  <2>4. QED
    BY <1>2, <2>1, <2>2, <2>3 DEF EnterLifecycle, EnterBranches, BarrierInv
<1>3. ASSUME NEW f \in Frames, EnterOther(f) PROVE BarrierInv'
  BY <1>1, <1>3, OthersKeepBarrier DEF EnterOther, EnterBranches
<1>4. ASSUME NEW b \in Branches, NEW f \in Frames, BranchMoves(b, f) PROVE BarrierInv'
  BY <1>1, <1>4, OthersKeepBarrier DEF BranchMoves, EmitOther, Drop
<1>5. ASSUME NEW b \in Branches, NEW f \in Frames, Generate(b, f) PROVE BarrierInv'
  BY <1>1, <1>5, OthersKeepBarrier DEF Generate
<1>6. ASSUME NEW b \in Branches, NEW f \in Frames, Lose(b, f) PROVE BarrierInv'
  BY <1>1, <1>6, OthersKeepBarrier DEF Lose
<1>7. ASSUME NEW b \in Branches, NEW f \in Frames, BranchPasses(b, f) PROVE BarrierInv'
  <2>1. f \in Lifecycle /\ LeaveBranch(b, f) /\ used' = used
    BY <1>7 DEF BranchPasses, EmitEarly, EmitLast, LeaveBranch
  <2>2. \A g \in Lifecycle : \A c \in Branches \ passed'[g] :
           c \notin passed[g] /\ (g \in inside[c] => g \in inside'[c])
    BY <1>1, <2>1 DEF LeaveBranch
  <2>3. "error" \notin used' =>
           \A g \in Lifecycle \cap used' : \A c \in Branches \ passed'[g] : g \in inside'[c]
    BY <2>1, <2>2 DEF BarrierInv
  <2>4. CASE EmitLast(b, f)
    BY <2>3, <2>4 DEF EmitLast, BarrierInv
  <2>5. CASE EmitEarly(b, f)
    <3>1. f \in used /\ counter'[f] > 0 /\ synchronizing' = synchronizing
          /\ paused' = paused
      BY <1>1, <2>1, <2>5 DEF EmitEarly, LeaveBranch
    <3>2. counter'[f] = Cardinality(Branches \ passed'[f])
      BY <2>1, <3>1 DEF Inv, CountInv
    <3>3. Branches \ passed'[f] # {}
      BY <3>1, <3>2, FS_EmptySet
    <3>4. InFlight(f)'
      BY <2>1, <3>1, <3>3 DEF InFlight
    <3>5. QED
      BY <2>1, <2>3, <3>1, <3>4 DEF BarrierInv
  <2>6. QED
    BY <1>7, <2>4, <2>5 DEF BranchPasses
<1>8. CASE UNCHANGED vars
  BY <1>8, OthersKeepBarrier DEF vars
<1>9. QED
  BY <1>2, <1>3, <1>4, <1>5, <1>6, <1>7, <1>8 DEF Next

\* For any number of branches, the processor is paused for a lifecycle frame that the
\* counter knows about and that somebody will pass on, and for no other reason.
THEOREM BarriersHaveReasons == Spec => []BarrierHasReason
<1>1. Init => BarrierInv
  BY DEF Init, BarrierInv
<1>2. Inv /\ Inv' /\ BarrierInv /\ [Next]_vars => BarrierInv'
  BY BarrierStep
<1>3. Inv /\ BarrierInv => BarrierHasReason
  <2> SUFFICES ASSUME Inv, BarrierInv PROVE BarrierHasReason
    OBVIOUS
  <2>1. ~synchronizing => paused = {} /\ buffer = <<>>
    BY DEF Inv, TypeOK, BarrierInv
  <2>2. ASSUME synchronizing
        PROVE  \E f \in Lifecycle :
                  /\ InFlight(f) /\ counter[f] > 0
                  /\ "error" \in used \/ \A b \in Branches \ passed[f] : f \in inside[b]
    <3>1. PICK f \in Lifecycle : InFlight(f)
      BY <2>2 DEF BarrierInv
    <3>2. f \in used /\ Branches \ passed[f] # {}
      BY <3>1 DEF InFlight, Inv, TypeOK
    <3>3. counter[f] = Cardinality(Branches \ passed[f])
          /\ counter[f] \in Nat
      BY <3>2 DEF Inv, TypeOK, CountInv
    <3>4. IsFiniteSet(Branches \ passed[f])
      BY ParallelAssumption, FS_Difference
    <3>5. counter[f] > 0
      BY <3>2, <3>3, <3>4, FS_EmptySet
    <3>6. QED
      BY <3>1, <3>2, <3>5 DEF BarrierInv
  <2>3. QED
    BY <2>1, <2>2 DEF BarrierHasReason
<1>4. QED
  BY <1>1, <1>2, <1>3, InvAlways, PTL DEF Spec
=============================================================================
