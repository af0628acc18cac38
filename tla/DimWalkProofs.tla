--------------------------- MODULE DimWalkProofs ---------------------------
(***************************************************************************)
(* Proofs, for every set of loops, trip counts and offsets that satisfy    *)
(* the assumptions of DimWalk, that the skew protocol of visitTileLoop     *)
(* keeps its position, tiles the dimension exactly and stays in bounds.    *)
(***************************************************************************)
EXTENDS DimWalk, SequenceTheorems, TLAPS

(***************************************************************************)
(* The inductive invariant.  Nesting and Counts say what the frames are,   *)
(* Froms chains the history field from, Within bounds what they cover.     *)
(***************************************************************************)
Nesting ==
  /\ frames # <<>> => frames[1].loop \in Top
  /\ \A k \in 1 .. Len(frames) - 1 :
        frames[k + 1].loop \in Below[frames[k].loop]

CountOK(k) ==
  /\ frames[k].end = IF AllLast(k - 1) THEN Residual[frames[k].loop]
                                       ELSE End[frames[k].loop]
  /\ frames[k].start <= frames[k].end
  /\ frames[k].moved = frames[k].start * Offset[frames[k].loop]

FlagOK(k) ==
  /\ frames[k].start < frames[k].end
  /\ vec_last_dim_[k] <=> frames[k].start + 1 >= frames[k].end

Counts ==
  /\ \A k \in 1 .. Len(frames) : CountOK(k)
  /\ \A k \in 1 .. Len(vec_last_dim_) : FlagOK(k)

Froms ==
  /\ frames # <<>> => frames[1].from = 0
  /\ \A k \in 1 .. Len(frames) - 1 : frames[k + 1].from = At(k)

Within == \A k \in 1 .. Len(frames) : frames[k].from + Extent(k) <= Bound

IInv == TypeOK /\ Nesting /\ Counts /\ Froms /\ Within /\ SkewIsPosition

-----------------------------------------------------------------------------
\* Multiplication by a natural number is monotone and stays in Nat.
LEMMA MulMonotone ==
  ASSUME NEW a \in Nat, NEW b \in Nat, NEW c \in Nat, a <= b
  PROVE  a * c <= b * c /\ a * c \in Nat /\ b * c \in Nat
<1>1. PICK d \in Nat : b = a + d
  <2>1. b - a \in Nat OBVIOUS
  <2> QED BY <2>1
<1>2. d * c \in Nat /\ a * c \in Nat /\ b * c \in Nat OBVIOUS
<1>3. b * c = a * c + d * c BY <1>1
<1> QED BY <1>2, <1>3

\* One more iteration: (a + 1) * c is a * c + c.
LEMMA MulSucc ==
  ASSUME NEW a \in Nat, NEW c \in Nat
  PROVE  (a + 1) * c = a * c + c
OBVIOUS

\* What the offsets of a loop say about its two extents.
LEMMA ExtentFacts ==
  ASSUME NEW l \in Loop
  PROVE  /\ FullExtent(l) \in Nat
         /\ TailExtent(l) \in Nat
         /\ (Residual[l] - 1) * Offset[l] \in Nat
         /\ End[l] \in Nat /\ End[l] >= 1
         /\ Residual[l] \in Nat /\ Residual[l] >= 1
         /\ Offset[l] \in Nat /\ Offset[l] >= 1
         /\ LastOffset[l] \in Nat /\ LastOffset[l] >= 1
         /\ LastOffset[l] <= Offset[l]
<1>1. /\ End[l] \in Nat /\ End[l] >= 1
      /\ Residual[l] \in Nat /\ Residual[l] >= 1
      /\ Offset[l] \in Nat /\ Offset[l] >= 1
      /\ LastOffset[l] \in Nat /\ LastOffset[l] >= 1
      /\ LastOffset[l] <= Offset[l]
  BY CountsAssumption, TailAssumption
<1>2. Residual[l] - 1 \in Nat BY <1>1
<1>3. End[l] * Offset[l] \in Nat /\ (Residual[l] - 1) * Offset[l] \in Nat
  BY <1>1, <1>2, MulMonotone
<1> QED BY <1>1, <1>3 DEF FullExtent, TailExtent

\* The fields of a frame and its loop have their types.
LEMMA FrameTypes ==
  ASSUME TypeOK, NEW k \in 1 .. Len(frames)
  PROVE  /\ frames[k] \in Frame
         /\ frames[k].loop \in Loop
         /\ frames[k].start \in Nat
         /\ frames[k].end \in Nat /\ frames[k].end >= 1
         /\ frames[k].moved \in Nat
         /\ frames[k].from \in Nat
         /\ At(k) \in Nat
         /\ Extent(k) \in Nat
         /\ Slice(k) \in Nat
<1>1. frames[k] \in Frame BY DEF TypeOK
<1>2. /\ frames[k].loop \in Loop
      /\ frames[k].start \in Nat
      /\ frames[k].end \in Nat /\ frames[k].end >= 1
      /\ frames[k].moved \in Nat
      /\ frames[k].from \in Nat
  BY <1>1 DEF Frame
<1>3. At(k) \in Nat BY <1>2 DEF At
<1>4. Extent(k) \in Nat /\ Slice(k) \in Nat
  BY <1>2, ExtentFacts DEF Extent, Slice
<1> QED BY <1>1, <1>2, <1>3, <1>4

\* The arithmetic of one iteration s of a loop with offset o, last offset t,
\* residual count r and full count e.
LEMMA SliceArith ==
  ASSUME NEW s \in Nat, NEW o \in Nat, NEW t \in Nat, NEW r \in Nat,
         NEW e \in Nat
  PROVE  /\ s + 1 = r => s * o + t = (r - 1) * o + t
         /\ s + 1 < r => s * o + o <= (r - 1) * o + t
         /\ s + 1 <= e => s * o + o <= e * o
         /\ s + 1 = e => s * o + o = e * o
<1>0. s * o \in Nat /\ (s + 1) * o \in Nat /\ (s + 1) * o = s * o + o
  BY MulSucc, MulMonotone
<1>1. ASSUME s + 1 = r PROVE s * o + t = (r - 1) * o + t
  <2>1. r - 1 = s BY <1>1
  <2> QED BY <2>1
<1>2. ASSUME s + 1 < r PROVE s * o + o <= (r - 1) * o + t
  <2>1. s + 1 \in Nat /\ r - 1 \in Nat /\ s + 1 <= r - 1 BY <1>2
  <2>2. (s + 1) * o <= (r - 1) * o /\ (r - 1) * o \in Nat
    BY <2>1, MulMonotone
  <2> QED BY <1>0, <2>2
<1>3. ASSUME s + 1 <= e PROVE s * o + o <= e * o
  <2>1. s + 1 \in Nat OBVIOUS
  <2>2. (s + 1) * o <= e * o BY <2>1, <1>3, MulMonotone
  <2> QED BY <1>0, <2>2
<1>4. ASSUME s + 1 = e PROVE s * o + o = e * o
  BY <1>0, <1>4
<1> QED BY <1>1, <1>2, <1>3, <1>4

\* An iteration stays inside its activation, and the last one ends with it.
LEMMA SliceFits ==
  ASSUME IInv, NEW k \in 1 .. Len(vec_last_dim_)
  PROVE  /\ At(k) + Slice(k) <= frames[k].from + Extent(k)
         /\ frames[k].start + 1 = frames[k].end =>
              At(k) + Slice(k) = frames[k].from + Extent(k)
<1> DEFINE l == frames[k].loop
           s == frames[k].start
           n == frames[k].end
           b == frames[k].from
           o == Offset[l]
           t == LastOffset[l]
           r == Residual[l]
           e == End[l]
<1>0. k \in 1 .. Len(frames) /\ k \in Nat /\ k >= 1
  BY DEF IInv, TypeOK
<1>1. l \in Loop /\ s \in Nat /\ n \in Nat /\ b \in Nat
  BY <1>0, FrameTypes DEF IInv
<1>2. o \in Nat /\ t \in Nat /\ r \in Nat /\ e \in Nat
  BY <1>1, ExtentFacts
<1>3. CountOK(k) /\ FlagOK(k)
  BY <1>0 DEF IInv, Counts
<1>4. s < n /\ (vec_last_dim_[k] <=> s + 1 >= n)
  BY <1>3 DEF FlagOK
<1>5. At(k) = b + s * o
  BY <1>3 DEF CountOK, At
<1>6. AllLast(k) <=> AllLast(k - 1) /\ vec_last_dim_[k]
  BY <1>0 DEF AllLast
<1>7. s * o \in Nat
  <2> HIDE DEF l, s, o
  <2> QED BY <1>1, <1>2
<1>8. CASE AllLast(k - 1)
  <2>1. n = r /\ Extent(k) = (r - 1) * o + t
    BY <1>8, <1>3 DEF CountOK, Extent, TailExtent
  <2>2. (r - 1) * o \in Nat BY <1>1, ExtentFacts
  <2>3. CASE vec_last_dim_[k]
    <3>1. Slice(k) = t BY <1>6, <1>8, <2>3 DEF Slice
    <3> HIDE DEF l, s, n, b, o, t, r, e
    <3>2. s + 1 = r BY <2>1, <2>3, <1>1, <1>2, <1>4
    <3>3. s * o + t = (r - 1) * o + t BY <3>2, <1>1, <1>2, SliceArith
    <3>4. At(k) + Slice(k) = b + Extent(k)
      BY <3>1, <3>3, <2>1, <2>2, <1>1, <1>2, <1>5, <1>7
    <3>5. At(k) + Slice(k) <= b + Extent(k)
      BY <3>4, <2>1, <2>2, <1>1, <1>2
    <3> QED BY <3>4, <3>5 DEF b
  <2>4. CASE ~vec_last_dim_[k]
    <3>1. Slice(k) = o BY <1>6, <2>4 DEF Slice
    <3> HIDE DEF l, s, n, b, o, t, r, e
    <3>2. s + 1 < r BY <2>1, <2>4, <1>1, <1>2, <1>4
    <3>3. s * o + o <= (r - 1) * o + t BY <3>2, <1>1, <1>2, SliceArith
    <3>4. At(k) + Slice(k) <= b + Extent(k)
      BY <3>1, <3>3, <2>1, <2>2, <1>1, <1>2, <1>5, <1>7
    <3>5. s + 1 # n BY <3>2, <2>1, <1>1, <1>2
    <3> QED BY <3>4, <3>5 DEF b, s, n
  <2> QED BY <2>3, <2>4
<1>9. CASE ~AllLast(k - 1)
  <2>1. n = e /\ Extent(k) = e * o
    BY <1>9, <1>3 DEF CountOK, Extent, FullExtent
  <2>2. Slice(k) = o BY <1>6, <1>9 DEF Slice
  <2> HIDE DEF l, s, n, b, o, t, r, e
  <2>3. s + 1 <= e BY <2>1, <1>1, <1>2, <1>4
  <2>4. /\ s * o + o <= e * o
        /\ s + 1 = e => s * o + o = e * o
    BY <2>3, <1>1, <1>2, SliceArith
  <2>5. e * o \in Nat BY <1>2, MulMonotone
  <2>6. At(k) + Slice(k) <= b + Extent(k)
    BY <2>1, <2>2, <2>4, <2>5, <1>1, <1>2, <1>5, <1>7
  <2>7. s + 1 = n => At(k) + Slice(k) = b + Extent(k)
    BY <2>1, <2>2, <2>4, <2>5, <1>1, <1>2, <1>5, <1>7
  <2> QED BY <2>6, <2>7 DEF b, s, n
<1> QED BY <1>8, <1>9

-----------------------------------------------------------------------------
\* The invariant holds before the walk starts.
LEMMA InitIInv == Init => IInv
BY DEF Init, IInv, TypeOK, Nesting, Counts, Froms, Within, SkewIsPosition

\* A call of visitTileLoop preserves the invariant: the new activation covers
\* the slice of the iteration that makes the call, or the whole dimension.
LEMMA EnterIInv ==
  ASSUME IInv, NEW l \in Loop, Enter(l)
  PROVE  IInv'
<1>0. PICK n \in Nat : n = Len(frames)
  BY DEF IInv, TypeOK
<1> DEFINE g == [loop |-> l, start |-> 0, end |-> LoopEnd(l), moved |-> 0,
                 from |-> dim_skew]
<1>1. /\ n = Len(frames)
      /\ frames \in Seq(Frame)
      /\ Len(vec_last_dim_) = n
      /\ vec_last_dim_ \in Seq(BOOLEAN)
      /\ dim_skew \in Nat
  BY <1>0 DEF IInv, TypeOK, Enter, InBody
<1>2. /\ frames' = Append(frames, g)
      /\ vec_last_dim_' = vec_last_dim_
      /\ dim_skew' = dim_skew
  BY DEF Enter
<1>3. g \in Frame
  <2>1. LoopEnd(l) \in Nat \ {0} BY CountsAssumption DEF LoopEnd
  <2> QED BY <2>1, <1>1 DEF Frame
<1>4. /\ frames' \in Seq(Frame)
      /\ Len(frames') = n + 1
      /\ \A k \in 1 .. n : frames'[k] = frames[k]
      /\ frames'[n + 1] = g
      /\ frames' # <<>>
  BY <1>1, <1>2, <1>3
<1>5. g.loop = l /\ g.start = 0 /\ g.moved = 0 /\ g.from = dim_skew
      /\ g.end = LoopEnd(l)
  OBVIOUS
<1> HIDE DEF g
<1>6. TypeOK'
  BY <1>1, <1>2, <1>4 DEF TypeOK
<1>7. Nesting'
  <2>1. n = 0 => l \in Top
    <3>1. n = 0 => frames = <<>> BY <1>1, EmptySeq
    <3> QED BY <3>1 DEF Enter
  <2>2. n > 0 => l \in Below[frames[n].loop] BY <1>1 DEF Enter, Top1
  <2>3. n > 0 => frames'[1].loop \in Top
    BY <1>1, <1>4 DEF IInv, Nesting
  <2>4. \A k \in 1 .. n - 1 : frames'[k + 1].loop \in Below[frames'[k].loop]
    BY <1>1, <1>4 DEF IInv, Nesting
  <2> QED BY <2>1, <2>2, <2>3, <2>4, <1>1, <1>4, <1>5 DEF Nesting
<1>8. Counts'
  <2>1. ASSUME NEW k \in 1 .. n PROVE CountOK(k)'
    <3>1. CountOK(k) BY <1>1 DEF IInv, Counts
    <3> QED BY <3>1, <1>2, <1>4 DEF CountOK, AllLast
  <2>2. CountOK(n + 1)'
    <3>1. n + 1 - 1 = n BY <1>1
    <3>2. LoopEnd(l) = IF AllLast(n) THEN Residual[l] ELSE End[l]
      BY <1>1 DEF LoopEnd, isLastLoop
    <3>3. AllLast(n)' <=> AllLast(n) BY <1>2 DEF AllLast
    <3>4. frames'[n + 1].start <= frames'[n + 1].end
      BY <1>3, <1>4, <1>5 DEF Frame
    <3>5. 0 = 0 * Offset[l] BY ExtentFacts
    <3>6. frames'[n + 1].end = IF AllLast(n)' THEN Residual[frames'[n + 1].loop]
                                             ELSE End[frames'[n + 1].loop]
      BY <3>2, <3>3, <1>4, <1>5
    <3> QED BY <3>1, <3>4, <3>5, <3>6, <1>4, <1>5 DEF CountOK
  <2>3. ASSUME NEW k \in 1 .. Len(vec_last_dim_') PROVE FlagOK(k)'
    <3>1. k \in 1 .. n /\ FlagOK(k) BY <1>1, <1>2 DEF IInv, Counts
    <3> QED BY <3>1, <1>2, <1>4 DEF FlagOK
  <2>4. ASSUME NEW k \in 1 .. Len(frames') PROVE k \in 1 .. n \/ k = n + 1
    BY <1>1, <1>4
  <2> QED BY <2>1, <2>2, <2>3, <2>4 DEF Counts
<1>9. Froms'
  <2>1. n = 0 => g.from = 0
    <3>1. n = 0 => frames = <<>> BY <1>1, EmptySeq
    <3> QED BY <3>1, <1>5 DEF IInv, SkewIsPosition
  <2>2. n > 0 => g.from = At(n)
    BY <1>1, <1>5 DEF IInv, SkewIsPosition
  <2>3. n > 0 => frames'[1].from = 0
    BY <1>1, <1>4 DEF IInv, Froms
  <2>4. \A k \in 1 .. n - 1 : frames'[k + 1].from = At(k)'
    BY <1>1, <1>4 DEF IInv, Froms, At
  <2>5. n > 0 => At(n)' = At(n)
    BY <1>1, <1>4 DEF At
  <2> QED BY <2>1, <2>2, <2>3, <2>4, <2>5, <1>1, <1>4 DEF Froms
<1>10. Within'
  <2>1. ASSUME NEW k \in 1 .. n PROVE (frames[k].from + Extent(k) <= Bound)'
    <3>1. frames[k].from + Extent(k) <= Bound BY <1>1 DEF IInv, Within
    <3>2. Extent(k)' = Extent(k) BY <1>2, <1>4 DEF Extent, AllLast
    <3> QED BY <3>1, <3>2, <1>4
  <2>2. (frames[n + 1].from + Extent(n + 1) <= Bound)'
    <3>1. Extent(n + 1)' = IF AllLast(n) THEN TailExtent(l) ELSE FullExtent(l)
      <4>1. n + 1 - 1 = n BY <1>1
      <4>2. AllLast(n)' <=> AllLast(n) BY <1>2 DEF AllLast
      <4> QED BY <4>1, <4>2, <1>4, <1>5 DEF Extent
    <3>2. CASE n = 0
      <4>1. l \in Top BY <3>2, <1>1 DEF Enter
      <4>2. AllLast(n) BY <3>2 DEF AllLast
      <4>3. g.from = 0 BY <3>2, <1>1, <1>5 DEF IInv, SkewIsPosition
      <4>4. TailExtent(l) = Bound BY <4>1, OffsetsAssumption
      <4> QED BY <3>1, <4>2, <4>3, <4>4, <1>4, CountsAssumption
    <3>3. CASE n > 0
      <4>1. l \in Below[frames[n].loop] /\ n \in 1 .. n
        BY <3>3, <1>1 DEF Enter, Top1
      <4>2. frames[n].loop \in Loop BY <4>1, <1>1, FrameTypes DEF IInv
      <4>3. /\ FullExtent(l) = Offset[frames[n].loop]
            /\ TailExtent(l) = LastOffset[frames[n].loop]
        BY <4>1, <4>2, OffsetsAssumption
      <4>4. Extent(n + 1)' = Slice(n) BY <3>1, <4>3 DEF Slice
      <4>5. g.from = At(n) BY <3>3, <1>1, <1>5 DEF IInv, SkewIsPosition
      <4>6. At(n) + Slice(n) <= frames[n].from + Extent(n)
        BY <4>1, <1>1, SliceFits
      <4>7. frames[n].from + Extent(n) <= Bound
        BY <4>1, <1>1 DEF IInv, Within
      <4>8. /\ At(n) \in Nat /\ Slice(n) \in Nat /\ Extent(n) \in Nat
            /\ frames[n].from \in Nat /\ Bound \in Nat
        BY <4>1, <1>1, FrameTypes, CountsAssumption DEF IInv
      <4> QED BY <4>4, <4>5, <4>6, <4>7, <4>8, <1>4
    <3> QED BY <3>2, <3>3, <1>1
  <2>3. ASSUME NEW k \in 1 .. Len(frames') PROVE k \in 1 .. n \/ k = n + 1
    BY <1>1, <1>4
  <2> QED BY <2>1, <2>2, <2>3 DEF Within
<1>11. SkewIsPosition'
  BY <1>1, <1>2, <1>4, <1>5 DEF SkewIsPosition, At
<1> QED BY <1>6, <1>7, <1>8, <1>9, <1>10, <1>11 DEF IInv

\* Starting an iteration pushes its flag and leaves the frames alone.
LEMMA BeginIInv ==
  ASSUME IInv, BeginIteration
  PROVE  IInv'
<1>0. PICK n \in Nat : n = Len(frames)
  BY DEF IInv, TypeOK
<1> DEFINE b == (frames[n].start + 1 >= frames[n].end)
<1>1. /\ n = Len(frames) /\ n >= 1 /\ n - 1 \in Nat
      /\ frames \in Seq(Frame) /\ frames # <<>>
      /\ Len(vec_last_dim_) = n - 1
      /\ vec_last_dim_ \in Seq(BOOLEAN)
      /\ dim_skew \in Nat
  BY <1>0 DEF IInv, TypeOK, BeginIteration, InBody
<1>2. /\ vec_last_dim_' = Append(vec_last_dim_, b)
      /\ frames' = frames
      /\ dim_skew' = dim_skew
      /\ frames[n].start < frames[n].end
  BY <1>1 DEF BeginIteration, PushLast, Top1
<1>3. b \in BOOLEAN OBVIOUS
<1>4. /\ vec_last_dim_' \in Seq(BOOLEAN)
      /\ Len(vec_last_dim_') = n
      /\ \A k \in 1 .. n - 1 : vec_last_dim_'[k] = vec_last_dim_[k]
      /\ vec_last_dim_'[n] = b
  <2> HIDE DEF b
  <2> QED BY <1>1, <1>2, <1>3
<1>5. TypeOK'
  BY <1>1, <1>2, <1>4 DEF TypeOK
<1>6. Nesting'
  BY <1>2 DEF IInv, Nesting
<1>7. ASSUME NEW k \in 1 .. n
      PROVE  AllLast(k - 1)' <=> AllLast(k - 1)
  <2>1. \A j \in 1 .. k - 1 : j \in 1 .. n - 1 BY <1>1
  <2> QED BY <2>1, <1>4 DEF AllLast
<1>8. Counts'
  <2>1. ASSUME NEW k \in 1 .. n PROVE CountOK(k)'
    <3>1. CountOK(k) BY <1>1 DEF IInv, Counts
    <3> QED BY <3>1, <1>2, <1>7 DEF CountOK
  <2>2. ASSUME NEW k \in 1 .. n PROVE FlagOK(k)'
    <3>1. CASE k = n
      BY <3>1, <1>2, <1>4 DEF FlagOK
    <3>2. CASE k # n
      <4>1. k \in 1 .. n - 1 BY <3>2, <1>1
      <4>2. FlagOK(k) BY <4>1, <1>1 DEF IInv, Counts
      <4> QED BY <4>1, <4>2, <1>2, <1>4 DEF FlagOK
    <3> QED BY <3>1, <3>2
  <2> QED BY <2>1, <2>2, <1>1, <1>2, <1>4 DEF Counts
<1>9. Froms'
  BY <1>2 DEF IInv, Froms, At
<1>10. Within'
  <2>1. ASSUME NEW k \in 1 .. n PROVE (frames[k].from + Extent(k) <= Bound)'
    <3>1. frames[k].from + Extent(k) <= Bound BY <1>1 DEF IInv, Within
    <3>2. Extent(k)' = Extent(k) BY <1>2, <1>7 DEF Extent
    <3> QED BY <3>1, <3>2, <1>2
  <2> QED BY <2>1, <1>1, <1>2 DEF Within
<1>11. SkewIsPosition'
  BY <1>2 DEF IInv, SkewIsPosition, At
<1> QED BY <1>5, <1>6, <1>8, <1>9, <1>10, <1>11 DEF IInv

\* What moving a frame on by one iteration changes and keeps.
LEMMA AdvancedFacts ==
  ASSUME NEW f \in Frame
  PROVE  /\ Advanced(f) \in Frame
         /\ Advanced(f).loop = f.loop
         /\ Advanced(f).end = f.end
         /\ Advanced(f).from = f.from
         /\ Advanced(f).start = f.start + 1
         /\ Advanced(f).moved = f.moved + Offset[f.loop]
<1>1. /\ f.loop \in Loop
      /\ f.start + 1 \in Nat
      /\ f.moved + Offset[f.loop] \in Nat
  BY CountsAssumption DEF Frame
<1>2. Advanced(f) \in Frame BY <1>1 DEF Advanced, Frame
<1>3. /\ Advanced(f).loop = f.loop
      /\ Advanced(f).end = f.end
      /\ Advanced(f).from = f.from
  BY DEF Advanced, Frame
<1>4. /\ Advanced(f).start = f.start + 1
      /\ Advanced(f).moved = f.moved + Offset[f.loop]
  BY DEF Advanced, Frame
<1> QED BY <1>2, <1>3, <1>4

\* Ending an iteration moves dim_skew and the frame's offset alike.
LEMMA EndIInv ==
  ASSUME IInv, EndIteration
  PROVE  IInv'
<1>0. PICK n \in Nat : n = Len(frames)
  BY DEF IInv, TypeOK
<1> DEFINE f == frames[n]
           o == Offset[f.loop]
           g == Advanced(f)
<1>1. /\ n = Len(frames) /\ n >= 1 /\ n - 1 \in Nat /\ n \in 1 .. n
      /\ frames \in Seq(Frame) /\ frames # <<>>
      /\ Len(vec_last_dim_) = n
      /\ vec_last_dim_ \in Seq(BOOLEAN)
      /\ dim_skew \in Nat
  BY <1>0 DEF IInv, TypeOK, EndIteration, InBody
<1>2. /\ vec_last_dim_' = Pop(vec_last_dim_)
      /\ frames' = [frames EXCEPT ![n] = g]
      /\ dim_skew' = dim_skew + o
  BY <1>1 DEF EndIteration, Top1
<1>3. /\ f \in Frame /\ f.loop \in Loop /\ f.start \in Nat /\ f.moved \in Nat
      /\ f.from \in Nat /\ f.end \in Nat
  BY <1>1, FrameTypes DEF IInv
<1>4. o \in Nat BY <1>3, ExtentFacts
<1>5. /\ g \in Frame
      /\ g.loop = f.loop /\ g.end = f.end /\ g.from = f.from
      /\ g.start = f.start + 1 /\ g.moved = f.moved + o
  BY <1>3, AdvancedFacts
<1>6. /\ vec_last_dim_' \in Seq(BOOLEAN)
      /\ Len(vec_last_dim_') = n - 1
      /\ \A k \in 1 .. n - 1 : vec_last_dim_'[k] = vec_last_dim_[k]
  BY <1>1, <1>2 DEF Pop
<1>7. /\ frames' \in Seq(Frame)
      /\ Len(frames') = n
      /\ \A k \in 1 .. n - 1 : frames'[k] = frames[k]
      /\ frames'[n] = g
      /\ frames' # <<>>
  <2> HIDE DEF g
  <2> QED BY <1>1, <1>2, <1>5
<1>8. ASSUME NEW k \in 1 .. n
      PROVE  /\ frames'[k].loop = frames[k].loop
             /\ frames'[k].end = frames[k].end
             /\ frames'[k].from = frames[k].from
             /\ AllLast(k - 1)' <=> AllLast(k - 1)
  <2>1. k \in 1 .. n - 1 \/ k = n BY <1>1
  <2>2. \A j \in 1 .. k - 1 : j \in 1 .. n - 1 BY <1>1
  <2>3. AllLast(k - 1)' <=> AllLast(k - 1) BY <2>2, <1>6 DEF AllLast
  <2> HIDE DEF g
  <2> QED BY <2>1, <2>3, <1>5, <1>7
<1>9. TypeOK'
  <2>1. dim_skew + o \in Nat BY <1>1, <1>4
  <2> QED BY <2>1, <1>1, <1>2, <1>6, <1>7 DEF TypeOK
<1>10. Nesting'
  <2>1. ASSUME NEW k \in 1 .. n - 1
        PROVE  frames'[k + 1].loop \in Below[frames'[k].loop]
    <3>1. k \in 1 .. n /\ k + 1 \in 1 .. n BY <1>1
    <3>2. frames[k + 1].loop \in Below[frames[k].loop]
      BY <1>1 DEF IInv, Nesting
    <3>3. frames'[k].loop = frames[k].loop BY <3>1, <1>8
    <3>4. frames'[k + 1].loop = frames[k + 1].loop BY <3>1, <1>8
    <3> QED BY <3>2, <3>3, <3>4
  <2>2. 1 \in 1 .. n BY <1>1
  <2>3. frames'[1].loop \in Top BY <2>2, <1>1, <1>8 DEF IInv, Nesting
  <2> QED BY <2>1, <2>3, <1>7 DEF Nesting
<1>11. Counts'
  <2>1. ASSUME NEW k \in 1 .. n PROVE CountOK(k)'
    <3>1. CountOK(k) BY <1>1 DEF IInv, Counts
    <3>2. CASE k = n
      <4>1. FlagOK(n) BY <1>1 DEF IInv, Counts
      <4>2. g.start <= g.end BY <4>1, <1>3, <1>5 DEF FlagOK
      <4>3. (f.start + 1) * o = f.start * o + o BY <1>3, <1>4, MulSucc
      <4>4. f.moved = f.start * o BY <3>1, <3>2 DEF CountOK
      <4>5. g.moved = g.start * Offset[g.loop]
        BY <4>3, <4>4, <1>5
      <4>6. frames'[n].end = IF AllLast(n - 1)' THEN Residual[frames'[n].loop]
                                               ELSE End[frames'[n].loop]
        BY <3>1, <3>2, <1>8 DEF CountOK
      <4> HIDE DEF g
      <4> QED BY <4>2, <4>5, <4>6, <3>2, <1>7 DEF CountOK
    <3>3. CASE k # n
      <4>1. k \in 1 .. n - 1 BY <3>3, <1>1
      <4> QED BY <4>1, <3>1, <1>7, <1>8 DEF CountOK
    <3> QED BY <3>2, <3>3
  <2>2. ASSUME NEW k \in 1 .. n - 1 PROVE FlagOK(k)'
    <3>1. k \in 1 .. n BY <1>1
    <3>2. FlagOK(k) BY <3>1, <1>1 DEF IInv, Counts
    <3> QED BY <3>2, <1>6, <1>7 DEF FlagOK
  <2> QED BY <2>1, <2>2, <1>6, <1>7 DEF Counts
<1>12. Froms'
  <2>1. ASSUME NEW k \in 1 .. n - 1 PROVE (frames[k + 1].from = At(k))'
    <3>1. k \in 1 .. n /\ k + 1 \in 1 .. n BY <1>1
    <3>2. frames[k + 1].from = At(k) BY <1>1 DEF IInv, Froms
    <3> QED BY <3>1, <3>2, <1>7, <1>8 DEF At
  <2>2. 1 \in 1 .. n BY <1>1
  <2>3. frames'[1].from = 0 BY <2>2, <1>1, <1>8 DEF IInv, Froms
  <2> QED BY <2>1, <2>3, <1>7 DEF Froms
<1>13. Within'
  <2>1. ASSUME NEW k \in 1 .. n PROVE (frames[k].from + Extent(k) <= Bound)'
    <3>1. frames[k].from + Extent(k) <= Bound BY <1>1 DEF IInv, Within
    <3>2. Extent(k)' = Extent(k) BY <1>8 DEF Extent
    <3> QED BY <3>1, <3>2, <1>8
  <2> QED BY <2>1, <1>7 DEF Within
<1>14. SkewIsPosition'
  <2>1. dim_skew = f.from + f.moved
    BY <1>1 DEF IInv, SkewIsPosition, At
  <2>2. dim_skew' = g.from + g.moved
    <3> HIDE DEF f, o
    <3> QED BY <2>1, <1>2, <1>3, <1>4, <1>5
  <2> HIDE DEF g
  <2> QED BY <2>2, <1>7 DEF SkewIsPosition, At
<1> QED BY <1>9, <1>10, <1>11, <1>12, <1>13, <1>14 DEF IInv

\* Leaving a loop takes back exactly what its iterations added.
LEMMA ExitIInv ==
  ASSUME IInv, Exit
  PROVE  IInv' /\ dim_skew' = Top1.from
<1>0. PICK n \in Nat : n = Len(frames)
  BY DEF IInv, TypeOK
<1>1. /\ n = Len(frames) /\ n >= 1 /\ n - 1 \in Nat /\ n \in 1 .. n
      /\ frames \in Seq(Frame) /\ frames # <<>>
      /\ Len(vec_last_dim_) = n - 1
      /\ vec_last_dim_ \in Seq(BOOLEAN)
      /\ dim_skew \in Nat
  BY <1>0 DEF IInv, TypeOK, Exit, InBody
<1>2. /\ vec_last_dim_' = vec_last_dim_
      /\ frames' = Pop(frames)
      /\ dim_skew' = dim_skew - frames[n].moved
  BY <1>1 DEF Exit, Top1
<1>3. /\ frames' \in Seq(Frame)
      /\ Len(frames') = n - 1
      /\ \A k \in 1 .. n - 1 : frames'[k] = frames[k]
  BY <1>1, <1>2 DEF Pop
<1>4. dim_skew' = frames[n].from /\ frames[n].from \in Nat
  <2>1. frames[n].from \in Nat /\ frames[n].moved \in Nat
    BY <1>1, FrameTypes DEF IInv
  <2>2. dim_skew = frames[n].from + frames[n].moved
    BY <1>1 DEF IInv, SkewIsPosition, At
  <2> QED BY <2>1, <2>2, <1>2
<1>5. TypeOK'
  BY <1>1, <1>2, <1>3, <1>4 DEF TypeOK
<1>6. Nesting'
  <2>1. frames' # <<>> => n > 1 BY <1>1, <1>3, EmptySeq
  <2>2. n > 1 => frames'[1].loop \in Top BY <1>1, <1>3 DEF IInv, Nesting
  <2>3. \A k \in 1 .. n - 2 : frames'[k + 1].loop \in Below[frames'[k].loop]
    BY <1>1, <1>3 DEF IInv, Nesting
  <2> QED BY <2>1, <2>2, <2>3, <1>1, <1>3 DEF Nesting
<1>7. Counts'
  <2>1. ASSUME NEW k \in 1 .. n - 1 PROVE CountOK(k)' /\ FlagOK(k)'
    <3>1. k \in 1 .. n BY <1>1
    <3>2. CountOK(k) /\ FlagOK(k) BY <3>1, <1>1 DEF IInv, Counts
    <3> QED BY <3>2, <1>2, <1>3 DEF CountOK, FlagOK, AllLast
  <2> QED BY <2>1, <1>1, <1>2, <1>3 DEF Counts
<1>8. Froms'
  <2>1. frames' # <<>> => n > 1 BY <1>1, <1>3, EmptySeq
  <2>2. n > 1 => frames'[1].from = 0 BY <1>1, <1>3 DEF IInv, Froms
  <2>3. \A k \in 1 .. n - 2 : frames'[k + 1].from = At(k)'
    BY <1>1, <1>3 DEF IInv, Froms, At
  <2> QED BY <2>1, <2>2, <2>3, <1>1, <1>3 DEF Froms
<1>9. Within'
  <2>1. ASSUME NEW k \in 1 .. n - 1
        PROVE  (frames[k].from + Extent(k) <= Bound)'
    <3>1. k \in 1 .. n BY <1>1
    <3>2. frames[k].from + Extent(k) <= Bound BY <3>1, <1>1 DEF IInv, Within
    <3>3. Extent(k)' = Extent(k) BY <1>2, <1>3 DEF Extent, AllLast
    <3> QED BY <3>2, <3>3, <1>3
  <2> QED BY <2>1, <1>1, <1>3 DEF Within
<1>10. SkewIsPosition'
  <2>1. CASE n = 1
    <3>1. frames' = <<>> BY <2>1, <1>1, <1>3, EmptySeq
    <3>2. frames[n].from = 0 BY <2>1, <1>1 DEF IInv, Froms
    <3> QED BY <3>1, <3>2, <1>4 DEF SkewIsPosition
  <2>2. CASE n > 1
    <3>1. n - 1 \in 1 .. n - 1 /\ n - 1 + 1 = n BY <2>2, <1>1
    <3>2. frames[n].from = At(n - 1) BY <3>1, <1>1 DEF IInv, Froms
    <3>3. At(n - 1)' = At(n - 1) BY <3>1, <1>3 DEF At
    <3>4. frames' # <<>> BY <2>2, <1>1, <1>3
    <3> QED BY <3>2, <3>3, <3>4, <1>1, <1>3, <1>4 DEF SkewIsPosition
  <2> QED BY <2>1, <2>2, <1>1
<1>11. Top1 = frames[n] BY <1>1 DEF Top1
<1> QED BY <1>4, <1>5, <1>6, <1>7, <1>8, <1>9, <1>10, <1>11 DEF IInv

\* Every step preserves the inductive invariant.
LEMMA NextIInv ==
  ASSUME IInv, [Next]_vars
  PROVE  IInv'
<1>1. CASE \E l \in Loop : Enter(l) BY <1>1, EnterIInv
<1>2. CASE BeginIteration BY <1>2, BeginIInv
<1>3. CASE EndIteration BY <1>3, EndIInv
<1>4. CASE Exit BY <1>4, ExitIInv
<1>5. CASE UNCHANGED vars
  BY <1>5 DEF vars, IInv, TypeOK, Nesting, Counts, CountOK, FlagOK, Froms,
              Within, SkewIsPosition, AllLast, Extent, At
<1> QED BY <1>1, <1>2, <1>3, <1>4, <1>5 DEF Next

\* The inductive invariant implies that the loops tile the dimension.
LEMMA IInvTiling == IInv => ExactTiling
<1> SUFFICES ASSUME IInv PROVE ExactTiling OBVIOUS
<1>1. ASSUME NEW k \in 1 .. Len(frames) - 1
      PROVE  frames[k + 1].from = At(k) /\ Extent(k + 1) = Slice(k)
  <2>1. Len(frames) \in Nat BY DEF IInv, TypeOK
  <2>2. k \in 1 .. Len(frames) /\ k + 1 \in 1 .. Len(frames) /\ k + 1 - 1 = k
    BY <2>1
  <2>3. frames[k].loop \in Loop /\ frames[k + 1].loop \in Below[frames[k].loop]
    BY <2>2, FrameTypes DEF IInv, Nesting
  <2>4. /\ FullExtent(frames[k + 1].loop) = Offset[frames[k].loop]
        /\ TailExtent(frames[k + 1].loop) = LastOffset[frames[k].loop]
    BY <2>3, OffsetsAssumption
  <2>5. Extent(k + 1) = Slice(k) BY <2>2, <2>4 DEF Extent, Slice
  <2> QED BY <2>5 DEF IInv, Froms
<1> QED BY <1>1, SliceFits DEF ExactTiling

\* The inductive invariant implies that every reported range is in bounds.
LEMMA IInvBounds == IInv => InBounds
<1> SUFFICES ASSUME IInv PROVE InBounds OBVIOUS
<1>1. ASSUME NEW k \in 1 .. Len(frames)
      PROVE  (frames[k].end - 1) * Offset[frames[k].loop]
                + LastOffset[frames[k].loop] <= Extent(k)
  <2> DEFINE l == frames[k].loop
             o == Offset[l]
             t == LastOffset[l]
             e == End[l]
  <2>1. CountOK(k) BY DEF IInv, Counts
  <2>2. l \in Loop BY FrameTypes DEF IInv
  <2>3. /\ o \in Nat /\ t \in Nat /\ t <= o /\ e \in Nat /\ e >= 1
        /\ (Residual[l] - 1) * o \in Nat
    BY <2>2, ExtentFacts
  <2>4. CASE AllLast(k - 1)
    BY <2>1, <2>3, <2>4 DEF CountOK, Extent, TailExtent
  <2>5. CASE ~AllLast(k - 1)
    <3>1. frames[k].end = e /\ Extent(k) = e * o
      BY <2>1, <2>5 DEF CountOK, Extent, FullExtent
    <3> HIDE DEF e, o, t, l
    <3>2. e - 1 \in Nat /\ e - 1 + 1 = e BY <2>3
    <3>3. e * o = (e - 1) * o + o BY <3>2, <2>3, MulSucc
    <3>4. (e - 1) * o \in Nat BY <3>2, <2>3, MulMonotone
    <3>5. (e - 1) * o + t <= e * o BY <3>3, <3>4, <2>3
    <3> QED BY <3>1, <3>5 DEF o, t, l
  <2> QED BY <2>4, <2>5
<1> QED BY <1>1, SliceFits DEF InBounds, IInv, Within

-----------------------------------------------------------------------------
\* The inductive invariant holds in every reachable state.
THEOREM Invariance == Spec => []IInv
<1>1. IInv /\ [Next]_vars => IInv' BY NextIInv
<1> QED BY <1>1, InitIInv, PTL DEF Spec

\* Type correctness: the flags are always those of the running loop bodies.
THEOREM TypeCorrect == Spec => []TypeOK
<1>1. IInv => TypeOK BY DEF IInv
<1> QED BY <1>1, Invariance, PTL

\* dim_skew is always the absolute position of the innermost iteration.
THEOREM SkewCorrect == Spec => []SkewIsPosition
<1>1. IInv => SkewIsPosition BY DEF IInv
<1> QED BY <1>1, Invariance, PTL

\* The nested loops over a dimension, tails included, tile it exactly.
THEOREM TilingCorrect == Spec => []ExactTiling
BY IInvTiling, Invariance, PTL

\* No iteration and no reported range leaves the bound of the dimension.
THEOREM BoundsCorrect == Spec => []InBounds
BY IInvBounds, Invariance, PTL

\* Every call of visitTileLoop restores the dim_skew it was called with.
THEOREM RestoreCorrect == Spec => SkewRestored
<1>1. ASSUME IInv, [Next]_vars PROVE [Restored]_vars
  <2>1. CASE Exit
    <3>1. dim_skew' = Top1.from BY <1>1, <2>1, ExitIInv
    <3>2. Len(vec_last_dim_') = Len(frames')
      BY <1>1, <2>1 DEF IInv, TypeOK, Exit, InBody, Pop
    <3> QED BY <3>1, <3>2 DEF Restored
  <2>2. CASE \E l \in Loop : Enter(l)
    BY <1>1, <2>2 DEF IInv, TypeOK, Enter, Restored
  <2>3. CASE BeginIteration
    BY <1>1, <2>3 DEF IInv, TypeOK, BeginIteration, Restored
  <2>4. CASE EndIteration
    <3>1. Len(frames') = Len(frames)
      BY <1>1, <2>4 DEF IInv, TypeOK, EndIteration
    <3> QED BY <1>1, <3>1 DEF IInv, TypeOK, Restored
  <2>5. CASE UNCHANGED vars
    BY <2>5 DEF vars
  <2> QED BY <1>1, <2>1, <2>2, <2>3, <2>4, <2>5 DEF Next
<1> QED BY <1>1, Invariance, PTL DEF Spec, SkewRestored
=============================================================================
