------------------------- MODULE ComputationProofs -------------------------
(***************************************************************************)
(* What the functions of Computations compute, on every input, of every    *)
(* length.  A function that reads its input piece by piece is defined by   *)
(* recursion over the pieces; what is said of it is proved by induction.   *)
(***************************************************************************)
EXTENDS Computations, TLAPS, WellFoundedInduction, FiniteSetTheorems, SequenceTheorems

-----------------------------------------------------------------------------
(* Induction and recursion over a bounded number of pieces                 *)

\* A set of naturals with an element has a least one.
LEMMA Least ==
  ASSUME NEW S, S \subseteq Nat, S # {}
  PROVE  \E min \in S : \A n \in S : min <= n
  <1>1. PICK x \in S : \A n \in S : <<n, x>> \notin OpToRel(<, Nat)
    BY WFMin, NatLessThanWellFounded
  <1>2. \A n \in S : ~(n < x)
    BY <1>1 DEF OpToRel
  <1> QED BY <1>2

\* Induction up to a bound.
LEMMA UpTo ==
  ASSUME NEW S, NEW N \in Nat, 0 \in S, \A n \in 1..N : n - 1 \in S => n \in S
  PROVE  \A n \in 0..N : n \in S
  <1> DEFINE T == {n \in 0..N : n \notin S}
  <1>1. SUFFICES ASSUME T # {}
                 PROVE  FALSE
    OBVIOUS
  <1>2. T \subseteq 0..N /\ T \subseteq Nat
    OBVIOUS
  <1>3. \A n \in 0..N : n \notin T => n \in S
    OBVIOUS
  <1>4. 0 \notin T /\ \A n \in 1..N : n \in T => n - 1 \in T
    OBVIOUS
  <1> HIDE DEF T
  <1>5. PICK min \in T : \A n \in T : min <= n
    BY <1>1, <1>2, Least
  <1>6. min \in 1..N /\ min - 1 \in 0..N /\ min - 1 \in T
    BY <1>2, <1>4, <1>5
  <1> QED BY <1>5, <1>6

\* A bounded set of naturals with an element has a largest one.
LEMMA Longest ==
  ASSUME NEW N \in Nat, NEW S, S \subseteq 0..N, S # {}
  PROVE  \E max \in S : \A n \in S : n <= max
  <1> DEFINE T == {N - n : n \in S}
  <1>1. T \subseteq Nat /\ T # {}
    <2>1. \A n \in S : n \in 0..N /\ N - n \in Nat
      OBVIOUS
    <2>2. PICK n \in S : TRUE
      OBVIOUS
    <2>3. N - n \in T
      BY Zenon
    <2> QED BY <2>1, <2>3
  <1>2. PICK min \in T : \A n \in T : min <= n
    BY <1>1, Least
  <1>3. N - min \in S
    BY <1>2
  <1>4. ASSUME NEW n \in S
        PROVE  n <= N - min
    <2>1. N - n \in T
      BY Zenon
    <2> HIDE DEF T
    <2>2. min <= N - n /\ min \in Nat /\ n \in 0..N
      BY <1>1, <1>2, <2>1
    <2> QED BY <2>2
  <1> QED BY <1>3, <1>4

FollowsTo(g, init, step, N) ==
  g[0] = init /\ \A n \in 1..N : g[n] = step[<<g[n - 1], n>>]

\* A finite function may be defined from its value at the number before.
LEMMA FiniteRecursion ==
  ASSUME NEW V, NEW init \in V, NEW N \in Nat, NEW step \in [V \X (1..N) -> V]
  PROVE  \E g \in [0..N -> V] : FollowsTo(g, init, step, N)
  <1> DEFINE S == {n \in 0..N : \E g \in [0..n -> V] : FollowsTo(g, init, step, n)}
  <1>1. 0 \in S
    <2> DEFINE g == [i \in 0..0 |-> init]
    <2>1. g \in [0..0 -> V] /\ FollowsTo(g, init, step, 0)
      BY DEF FollowsTo
    <2> QED BY <2>1
  <1>2. ASSUME NEW n \in 1..N, n - 1 \in S
        PROVE  n \in S
    <2>1. PICK g \in [0..(n - 1) -> V] : FollowsTo(g, init, step, n - 1)
      BY <1>2
    <2>2. n - 1 \in 0..(n - 1) /\ g[n - 1] \in V
      OBVIOUS
    <2> DEFINE next == step[<<g[n - 1], n>>]
               h == [i \in 0..n |-> IF i = n THEN next ELSE g[i]]
    <2>3. next \in V
      BY <2>2
    <2>4. h \in [0..n -> V]
      BY <2>3
    <2>5. h[n] = next /\ \A i \in 0..(n - 1) : h[i] = g[i]
      OBVIOUS
    <2> HIDE DEF h
    <2>6. ASSUME NEW i \in 1..n
          PROVE  h[i] = step[<<h[i - 1], i>>]
      <3>1. i - 1 \in 0..(n - 1) /\ h[i - 1] = g[i - 1]
        BY <2>5
      <3>2. CASE i = n
        BY <2>5, <3>1, <3>2
      <3>3. CASE i # n
        <4>1. i \in 0..(n - 1) /\ i \in 1..(n - 1)
          BY <3>3
        <4> QED BY <2>1, <2>5, <3>1, <4>1 DEF FollowsTo
      <3> QED BY <3>2, <3>3
    <2>7. h[0] = init
      <3>1. 0 \in 0..(n - 1)
        OBVIOUS
      <3> QED BY <2>1, <2>5, <3>1 DEF FollowsTo
    <2> QED BY <2>4, <2>6, <2>7 DEF FollowsTo
  <1> HIDE DEF S
  <1>3. N \in S
    BY <1>1, <1>2, UpTo
  <1> QED BY <1>3 DEF S

-----------------------------------------------------------------------------
(* Evidence in a prompt *)

Excerpt == [label : Nat, length : Nat, blank : Nat]

\* The white space a cut can leave behind is no longer than what separates
\* and frames the next block.
BlanksFit(E, overhead) ==
  \A cut, next \in E : cut.blank <= Separator + next.label + overhead

\* A text in its limit is left alone; a cut text fills the limit but for the
\* blank.
LEMMA TruncateFits ==
  ASSUME NEW length \in Nat, NEW limit \in Int, NEW blank \in Nat
  PROVE  LET body == Truncate(length, limit, blank)
         IN  /\ body \in Nat
             /\ limit <= 0 => body = 0
             /\ limit > 0 => body <= limit
             /\ limit > 0 /\ length > 0 => body > 0
             /\ limit > 0 => body = length \/ body >= limit - blank
             /\ length = 0 => body = 0
  <1>1. Ellipsis \in Nat \ {0}
    BY GroundingAssumption
  <1> QED BY <1>1 DEF Truncate, Larger

Packings(E) == [used : Nat, blocks : Seq([excerpt : E, body : Nat]), stopped : BOOLEAN]

\* Where the next block begins, what is left for its text, and what of the
\* text is kept.
CostOf(packed) == packed.used + (IF packed.blocks = <<>> THEN 0 ELSE Separator)
RoomFor(packed, excerpt, maxChars, overhead) ==
  maxChars - CostOf(packed) - excerpt.label - overhead
BodyOf(packed, excerpt, maxChars, overhead) ==
  Truncate(excerpt.length, RoomFor(packed, excerpt, maxChars, overhead), excerpt.blank)

\* What one turn of the loop does to a packing.
LEMMA PackNextStep ==
  ASSUME NEW E \in SUBSET Excerpt, NEW packed \in Packings(E), NEW excerpt \in E,
         NEW maxChars \in Nat, NEW overhead \in Nat
  PROVE  LET next == PackNext(packed, excerpt, maxChars, overhead)
             body == BodyOf(packed, excerpt, maxChars, overhead)
         IN  /\ next \in Packings(E)
             /\ packed.stopped \/ body = 0 =>
                  next.used = packed.used /\ next.blocks = packed.blocks /\ next.stopped
             /\ ~packed.stopped /\ body # 0 =>
                  /\ next.used = CostOf(packed) + excerpt.label + overhead + body
                  /\ next.blocks = Append(packed.blocks, [excerpt |-> excerpt, body |-> body])
                  /\ ~next.stopped
  <1> DEFINE cost == packed.used + (IF packed.blocks = <<>> THEN 0 ELSE Separator)
             limit == maxChars - cost - (excerpt.label + overhead)
             body == Truncate(excerpt.length, limit, excerpt.blank)
  <1>1. Separator \in Nat
    BY GroundingAssumption
  <1>2. /\ packed.used \in Nat /\ packed.stopped \in BOOLEAN
        /\ packed.blocks \in Seq([excerpt : E, body : Nat])
    BY DEF Packings
  <1>3. excerpt.label \in Nat /\ excerpt.length \in Nat /\ excerpt.blank \in Nat
    BY DEF Excerpt
  <1>4. cost \in Nat /\ limit \in Int
    BY SMTT(30), <1>1, <1>2, <1>3
  <1>5. body \in Nat
    BY <1>3, <1>4, TruncateFits
  <1>6. limit = maxChars - cost - excerpt.label - overhead
    BY <1>1, <1>2, <1>3
  <1>7. Append(packed.blocks, [excerpt |-> excerpt, body |-> body])
          \in Seq([excerpt : E, body : Nat])
    <2> HIDE DEF body
    <2> QED BY <1>2, <1>5
  <1>8. PackNext(packed, excerpt, maxChars, overhead) =
          IF packed.stopped \/ body = 0 THEN [packed EXCEPT !.stopped = TRUE]
          ELSE [packed EXCEPT !.used = cost + (excerpt.label + overhead) + body,
                              !.blocks = Append(@, [excerpt |-> excerpt, body |-> body])]
    BY DEF PackNext
  <1>9. cost + (excerpt.label + overhead) + body \in Nat
    <2> HIDE DEF body, cost
    <2> QED BY <1>3, <1>4, <1>5
  <1>10. cost + (excerpt.label + overhead) + body = cost + excerpt.label + overhead + body
    <2> HIDE DEF body, cost
    <2> QED BY <1>3, <1>4, <1>5
  <1> HIDE DEF body
  <1>11. body = Truncate(excerpt.length, maxChars - cost - excerpt.label - overhead, excerpt.blank)
    BY <1>6 DEF body
  <1> HIDE DEF cost
  <1>12. CASE packed.stopped \/ body = 0
    BY <1>8, <1>11, <1>12, <1>2 DEF Packings, cost, CostOf, RoomFor, BodyOf
  <1>13. CASE ~(packed.stopped \/ body = 0)
    <2>1. PackNext(packed, excerpt, maxChars, overhead) =
            [packed EXCEPT !.used = cost + excerpt.label + overhead + body,
                           !.blocks = Append(@, [excerpt |-> excerpt, body |-> body])]
      BY <1>8, <1>10, <1>13
    <2>2. packed \in [used : Nat, blocks : Seq([excerpt : E, body : Nat]), stopped : BOOLEAN]
      BY DEF Packings
    <2>3. /\ PackNext(packed, excerpt, maxChars, overhead) \in Packings(E)
          /\ PackNext(packed, excerpt, maxChars, overhead).used = cost + excerpt.label + overhead + body
          /\ PackNext(packed, excerpt, maxChars, overhead).blocks
               = Append(packed.blocks, [excerpt |-> excerpt, body |-> body])
          /\ PackNext(packed, excerpt, maxChars, overhead).stopped = packed.stopped
      BY <2>1, <2>2, <1>7, <1>9, <1>10 DEF Packings
    <2> QED BY <2>3, <1>11, <1>13 DEF cost, CostOf, RoomFor, BodyOf
  <1> QED BY <1>12, <1>13


LEMMA PackedAfterDef ==
  ASSUME NEW E \in SUBSET Excerpt, NEW excerpts \in Seq(E), NEW maxChars \in Nat,
         NEW overhead \in Nat
  PROVE  LET packed == PackedAfter(excerpts, maxChars, overhead)
         IN  /\ packed \in [0..Len(excerpts) -> Packings(E)]
             /\ packed[0] = NothingPacked
             /\ \A n \in 1..Len(excerpts) :
                  packed[n] = PackNext(packed[n - 1], excerpts[n], maxChars, overhead)
  <1> DEFINE N == Len(excerpts)
             V == Packings(E)
             Value(f, n) == IF n = 0 THEN NothingPacked
                           ELSE PackNext(f[n - 1], excerpts[n], maxChars, overhead)
             Defines(f) == f = [n \in 0..N |-> Value(f, n)]
             step == [p \in V \X (1..N) |-> PackNext(p[1], excerpts[p[2]], maxChars, overhead)]
             after == PackedAfter(excerpts, maxChars, overhead)
  <1>1. after = CHOOSE f : Defines(f)
    BY DEF PackedAfter
  <1>2. N \in Nat /\ \A n \in 1..N : excerpts[n] \in E
    BY LenProperties, ElementOfSeq
  <1>3. NothingPacked \in V
    BY EmptySeq DEF NothingPacked, Packings
  <1>4. \A p \in V, n \in 1..N : PackNext(p, excerpts[n], maxChars, overhead) \in V
    BY <1>2, PackNextStep
  <1>5. step \in [V \X (1..N) -> V]
    BY <1>4
  <1>6. \A p \in V, n \in 1..N : step[<<p, n>>] = PackNext(p, excerpts[n], maxChars, overhead)
    OBVIOUS
  <1> HIDE DEF step, V, N
  <1>7. PICK g \in [0..N -> V] :
          g[0] = NothingPacked /\ \A n \in 1..N : g[n] = step[<<g[n - 1], n>>]
    <2> DEFINE init == NothingPacked
    <2>1. init \in V
      BY <1>3
    <2> HIDE DEF init
    <2>2. N \in Nat
      BY <1>2
    <2>3. \E g \in [0..N -> V] : FollowsTo(g, init, step, N)
      BY <1>5, <2>1, <2>2, FiniteRecursion
    <2> QED BY <2>3 DEF init, FollowsTo
  <1>8. \A n \in 1..N : n - 1 \in 0..N
    BY <1>2
  <1>9. Defines(g)
    <2>1. ASSUME NEW n \in 0..N
          PROVE  g[n] = Value(g, n)
      <3>1. CASE n = 0
        BY <1>7, <3>1
      <3>2. CASE n # 0
        <4>1. n \in 1..N
          BY <1>2, <3>2
        <4> QED BY <1>6, <1>7, <1>8, <3>2, <4>1
      <3> QED BY <3>1, <3>2
    <2> HIDE DEF Value
    <2> QED BY <2>1
  <1>10. Defines(after)
    <2> HIDE DEF Defines, after
    <2> QED BY <1>1, <1>9
  <1>11. \A n \in 0..N : after[n] = Value(after, n)
    <2> HIDE DEF Value, after
    <2> QED BY <1>10
  <1>12. DOMAIN after = 0..N
    <2> HIDE DEF Value, after
    <2> QED BY <1>10
  <1> HIDE DEF after
  <1>13. after[0] = NothingPacked
    BY <1>2, <1>11
  <1>14. \A n \in 1..N : after[n] = PackNext(after[n - 1], excerpts[n], maxChars, overhead)
    BY <1>2, <1>11
  <1>15. \A n \in 0..N : after[n] \in V
    <2> DEFINE S == {n \in 0..N : after[n] \in V}
    <2>1. 0 \in S
      BY <1>2, <1>3, <1>13
    <2>2. \A n \in 1..N : n - 1 \in S => n \in S
      BY <1>2, <1>4, <1>14
    <2> HIDE DEF S
    <2>3. \A n \in 0..N : n \in S
      BY <1>2, <2>1, <2>2, UpTo
    <2> QED BY <2>3 DEF S
  <1>16. after = [n \in 0..N |-> after[n]]
    <2> HIDE DEF Value
    <2>1. after = [n \in 0..N |-> Value(after, n)]
      BY <1>10
    <2> QED BY <1>11, <2>1
  <1>17. after \in [0..N -> V]
    BY <1>15, <1>16
  <1> QED BY <1>13, <1>14, <1>17 DEF N, V, after

\* Is there room for a label, a frame and a character of the first excerpt?
FirstFits(excerpts, maxChars, overhead) ==
  excerpts # <<>> /\ excerpts[1].length > 0 /\ maxChars > excerpts[1].label + overhead

\* What has been packed after some excerpts.
Packed(packed, excerpts, n, maxChars, overhead) ==
  /\ packed.used <= maxChars
  /\ Len(packed.blocks) <= n /\ (~packed.stopped => Len(packed.blocks) = n)
  /\ packed.blocks = <<>> <=> packed.used = 0
  /\ \A i \in 1..Len(packed.blocks) :
       /\ packed.blocks[i].excerpt = excerpts[i]
       /\ i < Len(packed.blocks) => packed.blocks[i].body = excerpts[i].length
  /\ packed.blocks # <<>> =>
       LET last == packed.blocks[Len(packed.blocks)]
       IN  \/ last.body = last.excerpt.length
           \/ packed.used >= maxChars - last.excerpt.blank
  /\ FirstFits(excerpts, maxChars, overhead) /\ n > 0 => packed.blocks # <<>>

LEMMA RoomAndBody ==
  ASSUME NEW E \in SUBSET Excerpt, NEW packed \in Packings(E), NEW excerpt \in E,
         NEW maxChars \in Nat, NEW overhead \in Nat
  PROVE  LET room == RoomFor(packed, excerpt, maxChars, overhead)
             body == BodyOf(packed, excerpt, maxChars, overhead)
         IN  /\ CostOf(packed) \in Nat /\ CostOf(packed) >= packed.used
             /\ packed.blocks = <<>> => CostOf(packed) = packed.used
             /\ packed.blocks # <<>> => CostOf(packed) = packed.used + Separator
             /\ room \in Int /\ room = maxChars - CostOf(packed) - excerpt.label - overhead
             /\ body \in Nat
             /\ room <= 0 => body = 0
             /\ room > 0 => body <= room
             /\ room > 0 /\ excerpt.length > 0 => body > 0
             /\ room > 0 => body = excerpt.length \/ body >= room - excerpt.blank
  <1>1. Separator \in Nat
    BY GroundingAssumption
  <1>2. packed.used \in Nat
    BY DEF Packings
  <1>3. excerpt.label \in Nat /\ excerpt.length \in Nat /\ excerpt.blank \in Nat
    BY DEF Excerpt
  <1>4. /\ CostOf(packed) \in Nat /\ CostOf(packed) >= packed.used
        /\ packed.blocks = <<>> => CostOf(packed) = packed.used
        /\ packed.blocks # <<>> => CostOf(packed) = packed.used + Separator
    BY <1>1, <1>2 DEF CostOf
  <1>5. RoomFor(packed, excerpt, maxChars, overhead) \in Int
    BY <1>3, <1>4 DEF RoomFor
  <1> QED BY <1>3, <1>4, <1>5, TruncateFits DEF BodyOf, RoomFor

\* A block that fits what is left, and the end of the budget it leaves.
LEMMA BlockFits ==
  ASSUME NEW maxChars \in Nat, NEW cost \in Nat, NEW label \in Nat, NEW overhead \in Nat,
         NEW body \in Nat, NEW blank \in Nat, NEW limit \in Int,
         limit = maxChars - cost - label - overhead, limit > 0, body <= limit, body # 0
  PROVE  LET used == cost + label + overhead + body
         IN  /\ used <= maxChars /\ used > 0
             /\ body >= limit - blank => used >= maxChars - blank
             /\ cost < maxChars - label - overhead
  OBVIOUS

LEMMA NoneAfterACut ==
  ASSUME NEW maxChars \in Nat, NEW used \in Nat, NEW label \in Nat, NEW overhead \in Nat,
         NEW separator \in Nat, NEW blank \in Nat,
         used + separator < maxChars - label - overhead,
         blank <= separator + label + overhead
  PROVE  ~(used >= maxChars - blank)
  OBVIOUS

\* One turn of the loop keeps to the budget, to the order, and cuts nothing
\* but the last block.
LEMMA PackNextHolds ==
  ASSUME NEW E \in SUBSET Excerpt, NEW excerpts \in Seq(E), NEW maxChars \in Nat,
         NEW overhead \in Nat, BlanksFit(E, overhead), NEW k \in 1..Len(excerpts),
         NEW p \in Packings(E), Packed(p, excerpts, k - 1, maxChars, overhead),
         k = 1 => p = NothingPacked
  PROVE  Packed(PackNext(p, excerpts[k], maxChars, overhead), excerpts, k, maxChars, overhead)
  <1> DEFINE e == excerpts[k]
             next == PackNext(p, e, maxChars, overhead)
             cost == CostOf(p)
             limit == RoomFor(p, e, maxChars, overhead)
             body == BodyOf(p, e, maxChars, overhead)
  <1>1. k - 1 \in Nat /\ k \in Nat \ {0}
    BY LenProperties
  <1>2. Len(excerpts) \in Nat /\ e \in E /\ \A i \in 1..Len(excerpts) : excerpts[i] \in E
    BY LenProperties, ElementOfSeq
  <1>3. Separator \in Nat
    BY GroundingAssumption
  <1>4. e.label \in Nat /\ e.length \in Nat /\ e.blank \in Nat
    BY <1>2 DEF Excerpt
  <1>5. p.used \in Nat /\ p.blocks \in Seq([excerpt : E, body : Nat]) /\ Len(p.blocks) \in Nat
    BY LenProperties DEF Packings
  <1>6. /\ cost \in Nat /\ cost >= p.used /\ limit \in Int
        /\ limit = maxChars - cost - e.label - overhead
        /\ p.blocks = <<>> => cost = p.used
        /\ p.blocks # <<>> => cost = p.used + Separator
    BY ZenonT(60), <1>2, RoomAndBody
  <1>7. /\ p.stopped \/ body = 0 =>
             next.used = p.used /\ next.blocks = p.blocks /\ next.stopped
        /\ ~p.stopped /\ body # 0 =>
             /\ next.used = cost + e.label + overhead + body
             /\ next.blocks = Append(p.blocks, [excerpt |-> e, body |-> body])
             /\ ~next.stopped
    BY ZenonT(60), <1>2, PackNextStep
  <1>8. /\ body \in Nat
        /\ limit <= 0 => body = 0
        /\ limit > 0 => body <= limit
        /\ limit > 0 /\ e.length > 0 => body > 0
        /\ limit > 0 => body = e.length \/ body >= limit - e.blank
    BY <1>2, RoomAndBody
  <1>e. e = excerpts[k]
    OBVIOUS
  <1> HIDE DEF cost, limit, next, e
  <1> HIDE DEF body
  <1>9. CASE p.stopped \/ body = 0
    <2>1. next.used = p.used /\ next.blocks = p.blocks /\ next.stopped
      BY <1>7, <1>9
    <2>2. ASSUME FirstFits(excerpts, maxChars, overhead)
          PROVE  p.blocks # <<>>
      <3>1. CASE k > 1
        BY <1>1, <1>3, <2>2, <3>1 DEF Packed
      <3>2. CASE k = 1
        <4>1. SUFFICES ASSUME p.blocks = <<>>
                       PROVE  FALSE
          OBVIOUS
        <4>2. Len(p.blocks) = 0
          BY <1>3, <1>5, <3>2, <4>1 DEF Packed
        <4>3. p = NothingPacked
          BY  <3>2
        <4>4. ~p.stopped /\ p.used = 0
          BY <4>3 DEF NothingPacked
        <4>5. limit = maxChars - e.label - overhead
          BY <1>4, <1>6, <4>1, <4>4
        <4>6. limit > 0 /\ e.length > 0
          BY <1>4, <1>e, <2>2, <3>2, <4>5 DEF FirstFits
        <4> QED BY <1>8, <1>9, <4>4, <4>6
      <3> QED BY <1>1, <3>1, <3>2
    <2>3. Packed(next, excerpts, k, maxChars, overhead)
      BY <1>1, <1>3, <1>5, <2>1, <2>2 DEF Packed
    <2> QED BY <2>3 DEF next, e
  <1>10. CASE ~p.stopped /\ body # 0
    <2> DEFINE block == [excerpt |-> e, body |-> body]
               m == Len(p.blocks)
    <2>1. next.used = cost + e.label + overhead + body /\ next.blocks = Append(p.blocks, block)
      BY <1>7, <1>10
    <2>2. block \in [excerpt : E, body : Nat]
      BY <1>2, <1>8
    <2> HIDE DEF block
    <2>3. /\ Len(next.blocks) = m + 1 /\ next.blocks # <<>> /\ next.blocks[m + 1] = block
          /\ \A i \in 1..m : next.blocks[i] = p.blocks[i]
      <3> DEFINE T == [excerpt : E, body : Nat]
      <3>1. p.blocks \in Seq(T) /\ block \in T
        BY <1>5, <2>2
      <3> HIDE DEF T
      <3>2. /\ Len(Append(p.blocks, block)) = m + 1 /\ Append(p.blocks, block) # <<>>
            /\ Append(p.blocks, block)[m + 1] = block
            /\ \A i \in 1..m : Append(p.blocks, block)[i] = p.blocks[i]
        BY <3>1, AppendProperties
      <3> QED BY <2>1, <3>2
    <2>4. m = k - 1
      BY <1>10 DEF Packed
    <2>5. limit > 0
      BY <1>6, <1>8, <1>10
    <2>6. /\ next.used <= maxChars /\ next.used > 0
          /\ body >= limit - e.blank => next.used >= maxChars - e.blank
          /\ cost < maxChars - e.label - overhead
      <3>1. body <= limit /\ body # 0 /\ limit = maxChars - cost - e.label - overhead
        BY <1>6, <1>8, <1>10, <2>5
      <3> HIDE DEF body
      <3>2. body \in Nat /\ cost \in Nat /\ limit \in Int /\ e.label \in Nat /\ e.blank \in Nat
        BY <1>4, <1>6, <1>8
      <3>3. next.used = cost + e.label + overhead + body
        BY <2>1
      <3> DEFINE label == e.label
                 blank == e.blank
                 used == cost + label + overhead + body
      <3>4. label \in Nat /\ blank \in Nat /\ limit = maxChars - cost - label - overhead
        BY <3>1, <3>2
      <3> HIDE DEF body, label, blank
      <3>5. /\ used <= maxChars /\ used > 0
            /\ body >= limit - blank => used >= maxChars - blank
            /\ cost < maxChars - label - overhead
        BY <2>5, <3>1, <3>2, <3>4, BlockFits
      <3> QED BY <3>3, <3>5 DEF label, blank
    <2>7. block.excerpt = e /\ block.body = body
      BY DEF block
    <2>8. \/ block.body = e.length
          \/ next.used >= maxChars - e.blank
      BY <1>8, <2>5, <2>6, <2>7
    <2>9. ASSUME m > 0
          PROVE  p.blocks[m].body = excerpts[m].length
      <3>1. p.blocks # <<>> /\ m \in 1..m
        BY <1>5, <2>9
      <3>2. p.blocks[m].excerpt = excerpts[m]
        BY <1>3, <3>1 DEF Packed
      <3>3. \/ p.blocks[m].body = excerpts[m].length
            \/ p.used >= maxChars - excerpts[m].blank
        BY <1>3, <3>1, <3>2 DEF Packed
      <3>4. excerpts[m] \in E
        BY <1>2, <1>1, <1>5, <2>4, <2>9
      <3>5. excerpts[m].blank <= Separator + e.label + overhead /\ excerpts[m].blank \in Nat
        BY <1>2, <3>4 DEF BlanksFit, Excerpt
      <3>6. cost = p.used + Separator
        BY <1>6, <3>1
      <3>7. ~(p.used >= maxChars - excerpts[m].blank)
        BY <1>3, <1>4, <1>5, <2>6, <3>5, <3>6, NoneAfterACut
      <3> QED BY <3>3, <3>7
    <2>10. ASSUME NEW i \in 1..Len(next.blocks)
           PROVE  /\ next.blocks[i].excerpt = excerpts[i]
                  /\ i < Len(next.blocks) => next.blocks[i].body = excerpts[i].length
      <3>1. CASE i = m + 1
        BY <1>1, <1>5, <1>e, <2>3, <2>4, <2>7, <3>1
      <3>2. CASE i # m + 1
        <4>1. i \in 1..m /\ next.blocks[i] = p.blocks[i]
          BY SMTT(30), <1>5, <2>3, <3>2
        <4>2. CASE i = m
          BY <1>3, <2>9, <4>1, <4>2 DEF Packed
        <4>3. CASE i # m
          <5>1. i < Len(p.blocks)
            BY <1>5, <4>1, <4>3
          <5> QED BY <1>3, <4>1, <5>1 DEF Packed
        <4> QED BY <4>2, <4>3
      <3> QED BY <3>1, <3>2
    <2>11. next.blocks = <<>> <=> next.used = 0
      BY <2>3, <2>6
    <2>12. Len(next.blocks) = k
      BY <1>1, <2>3, <2>4
    <2>13. next.blocks[Len(next.blocks)] = block
      BY <2>3
    <2> HIDE DEF m
    <2>14. Packed(next, excerpts, k, maxChars, overhead)
      BY <1>1, <2>3, <2>6, <2>7, <2>8, <2>10, <2>11, <2>12, <2>13 DEF Packed
    <2> QED BY <2>14 DEF next, e
  <1> QED BY <1>9, <1>10

LEMMA PackingHolds ==
  ASSUME NEW E \in SUBSET Excerpt, NEW excerpts \in Seq(E), NEW maxChars \in Nat,
         NEW overhead \in Nat, BlanksFit(E, overhead), NEW n \in 0..Len(excerpts)
  PROVE  Packed(PackedAfter(excerpts, maxChars, overhead)[n], excerpts, n, maxChars, overhead)
  <1> DEFINE after == PackedAfter(excerpts, maxChars, overhead)
             Holds(k) == Packed(after[k], excerpts, k, maxChars, overhead)
             S == {k \in 0..Len(excerpts) : Holds(k)}
  <1>1. /\ after \in [0..Len(excerpts) -> Packings(E)] /\ after[0] = NothingPacked
        /\ \A k \in 1..Len(excerpts) :
             after[k] = PackNext(after[k - 1], excerpts[k], maxChars, overhead)
    BY PackedAfterDef
  <1> HIDE DEF after
  <1>2. Len(excerpts) \in Nat
    BY LenProperties
  <1>3. Holds(0)
    BY <1>1 DEF Packed, NothingPacked, FirstFits
  <1>4. ASSUME NEW k \in 1..Len(excerpts), Holds(k - 1)
        PROVE  Holds(k)
    <2>1. k - 1 \in 0..Len(excerpts)
      BY <1>2
    <2>2. /\ after[k - 1] \in Packings(E) /\ (k = 1 => after[k - 1] = NothingPacked)
          /\ after[k] = PackNext(after[k - 1], excerpts[k], maxChars, overhead)
      BY SMTT(30), <1>1, <2>1
    <2> QED BY <1>4, <2>2, PackNextHolds
  <1> HIDE DEF Holds
  <1>5. 0 \in S /\ \A k \in 1..Len(excerpts) : k - 1 \in S => k \in S
    BY <1>2, <1>3, <1>4
  <1> HIDE DEF S
  <1>6. n \in S
    BY <1>2, <1>5, UpTo
  <1> QED BY <1>6 DEF S, Holds, after

LEMMA PackHolds ==
  ASSUME NEW E \in SUBSET Excerpt, NEW excerpts \in Seq(E), NEW maxChars \in Nat,
         NEW overhead \in Nat, BlanksFit(E, overhead)
  PROVE  LET packed == Pack(excerpts, maxChars, overhead)
         IN  /\ packed.used \in Nat /\ packed.used <= maxChars
             /\ Len(packed.blocks) \in Nat
             /\ \A i \in DOMAIN packed.blocks :
                  /\ packed.blocks[i].excerpt = excerpts[i]
                  /\ i < Len(packed.blocks) => packed.blocks[i].body = excerpts[i].length
             /\ FirstFits(excerpts, maxChars, overhead) => packed.blocks # <<>>
  <1> DEFINE n == Len(excerpts)
             packed == PackedAfter(excerpts, maxChars, overhead)[n]
             Block == [excerpt : E, body : Nat]
  <1>1. n \in Nat /\ n \in 0..n
    BY LenProperties
  <1>2. packed \in Packings(E)
    BY <1>1, PackedAfterDef
  <1>3. Packed(packed, excerpts, n, maxChars, overhead)
    BY <1>1, PackingHolds
  <1>4. packed.used \in Nat /\ packed.blocks \in Seq(Block)
    BY <1>2 DEF Packings
  <1> HIDE DEF packed, Block
  <1>5. Len(packed.blocks) \in Nat /\ DOMAIN packed.blocks = 1..Len(packed.blocks)
    BY <1>4, LenProperties
  <1>6. FirstFits(excerpts, maxChars, overhead) => n > 0
    <2>1. excerpts # <<>> => n > 0
      BY EmptySeq, LenProperties
    <2> QED BY <2>1 DEF FirstFits
  <1>7. Pack(excerpts, maxChars, overhead) = packed
    BY DEF Pack, packed
  <1> QED BY <1>3, <1>4, <1>5, <1>6, <1>7 DEF Packed

\* What the facts, the excerpts and what separates them take together.
LEMMA SharedBudget ==
  ASSUME NEW maxChars \in Nat, NEW facts \in Nat, NEW header \in Nat, NEW used \in Nat,
         facts <= maxChars,
         used <= Larger(0, maxChars - facts - header - (IF facts = 0 THEN 0 ELSE Separator))
  PROVE  /\ Joined(facts, IF used = 0 THEN 0 ELSE header + used) <= maxChars
         /\ header = 0 => Joined(facts, used) <= maxChars
  <1>1. Separator \in Nat
    BY GroundingAssumption
  <1> QED BY <1>1 DEF Joined, Larger

LEMMA FactsFit ==
  ASSUME NEW facts \in Nat, NEW maxChars \in Nat
  PROVE  /\ FactsSection(facts, maxChars) \in Nat
         /\ FactsSection(facts, maxChars) <= maxChars
         /\ facts = 0 => FactsSection(facts, maxChars) = 0
  <1>1. FactsHeader \in Nat
    BY GroundingAssumption
  <1>2. FactsHeader + facts \in Nat /\ maxChars \in Int
    BY <1>1
  <1>3. /\ Truncate(FactsHeader + facts, maxChars, 0) \in Nat
        /\ maxChars <= 0 => Truncate(FactsHeader + facts, maxChars, 0) = 0
        /\ maxChars > 0 => Truncate(FactsHeader + facts, maxChars, 0) <= maxChars
    BY <1>2, TruncateFits
  <1> QED BY <1>3 DEF FactsSection

\* Both contexts of any evidence are within any budget, and cut nothing but
\* their last block (_truncate, _pack, graph_answer_context; synthesis_context).
LEMMA ContextsFit ==
  ASSUME NEW E \in SUBSET Excerpt, NEW excerpts \in Seq(E), NEW facts \in Nat,
         NEW maxChars \in Nat, NEW overhead \in Nat, BlanksFit(E, overhead)
  PROVE  PacksInBudget([facts |-> facts, excerpts |-> excerpts], maxChars, overhead)
  <1> DEFINE retrieval == [facts |-> facts, excerpts |-> excerpts]
             Kept(context) ==
               /\ context.length <= maxChars
               /\ \A i \in DOMAIN context.blocks :
                    /\ context.blocks[i].excerpt = excerpts[i]
                    /\ i < Len(context.blocks) => context.blocks[i].body = excerpts[i].length
               /\ facts = 0 /\ excerpts # <<>> /\ excerpts[1].length > 0
                    /\ maxChars > ExcerptsHeader + excerpts[1].label + overhead
                    => context.blocks # <<>>
             section == FactsSection(facts, maxChars)
             gap == IF section = 0 THEN 0 ELSE Separator
  <1>1. section \in Nat /\ section <= maxChars /\ (facts = 0 => section = 0)
    BY FactsFit
  <1>2. ExcerptsHeader \in Nat /\ Separator \in Nat
    BY GroundingAssumption
  <1>3. excerpts # <<>> => excerpts[1].label \in Nat
    <2>1. excerpts # <<>> => excerpts[1] \in E
      BY EmptySeq, LenProperties, ElementOfSeq
    <2> QED BY <2>1 DEF Excerpt
  <1> HIDE DEF section
  <1>4. ASSUME NEW header \in {0, ExcerptsHeader}
        PROVE  LET room == Larger(0, maxChars - section - header - gap)
                   packed == Pack(excerpts, room, overhead)
               IN  /\ packed.used \in Nat /\ packed.used <= room
                   /\ \A i \in DOMAIN packed.blocks :
                        /\ packed.blocks[i].excerpt = excerpts[i]
                        /\ i < Len(packed.blocks) => packed.blocks[i].body = excerpts[i].length
                   /\ facts = 0 /\ excerpts # <<>> /\ excerpts[1].length > 0
                        /\ maxChars > ExcerptsHeader + excerpts[1].label + overhead
                        => packed.blocks # <<>>
    <2> DEFINE room == Larger(0, maxChars - section - header - gap)
    <2>1. room \in Nat
      BY <1>1, <1>2 DEF Larger
    <2>2. facts = 0 => room >= maxChars - ExcerptsHeader
      BY <1>1, <1>2 DEF Larger
    <2> HIDE DEF room
    <2>3. facts = 0 /\ excerpts # <<>> /\ excerpts[1].length > 0
            /\ maxChars > ExcerptsHeader + excerpts[1].label + overhead
          => FirstFits(excerpts, room, overhead)
      BY <1>2, <1>3, <2>1, <2>2 DEF FirstFits
    <2>4. LET packed == Pack(excerpts, room, overhead)
          IN  /\ packed.used \in Nat /\ packed.used <= room
              /\ Len(packed.blocks) \in Nat
              /\ \A i \in DOMAIN packed.blocks :
                   /\ packed.blocks[i].excerpt = excerpts[i]
                   /\ i < Len(packed.blocks) => packed.blocks[i].body = excerpts[i].length
              /\ FirstFits(excerpts, room, overhead) => packed.blocks # <<>>
      BY <2>1, PackHolds
    <2> QED BY <2>3, <2>4 DEF room
  <1>5. Kept(GraphAnswerContext(retrieval, maxChars, overhead))
    <2> DEFINE room == Larger(0, maxChars - section - gap)
               packed == Pack(excerpts, room, overhead)
    <2>1. room = Larger(0, maxChars - section - 0 - gap)
      BY <1>1, <1>2
    <2>2. /\ packed.used \in Nat
          /\ packed.used <= Larger(0, maxChars - section - 0 - gap)
          /\ \A i \in DOMAIN packed.blocks :
               /\ packed.blocks[i].excerpt = excerpts[i]
               /\ i < Len(packed.blocks) => packed.blocks[i].body = excerpts[i].length
          /\ facts = 0 /\ excerpts # <<>> /\ excerpts[1].length > 0
               /\ maxChars > ExcerptsHeader + excerpts[1].label + overhead
               => packed.blocks # <<>>
      <3> HIDE DEF gap
      <3> QED BY <1>4, <2>1
    <2>3. GraphAnswerContext(retrieval, maxChars, overhead) =
            [length |-> Joined(section, packed.used), blocks |-> packed.blocks, facts |-> section]
      BY DEF GraphAnswerContext, section
    <2> HIDE DEF packed, room
    <2>4. Joined(section, packed.used) <= maxChars
      BY <1>1, <2>2, SharedBudget
    <2> QED BY <2>2, <2>3, <2>4
  <1>6. Kept(SynthesisContext(retrieval, maxChars, overhead))
    <2> DEFINE room == Larger(0, maxChars - section - ExcerptsHeader - gap)
               packed == Pack(excerpts, room, overhead)
               body == IF packed.used = 0 THEN 0 ELSE ExcerptsHeader + packed.used
    <2>2. /\ packed.used \in Nat
          /\ packed.used <= room
          /\ \A i \in DOMAIN packed.blocks :
               /\ packed.blocks[i].excerpt = excerpts[i]
               /\ i < Len(packed.blocks) => packed.blocks[i].body = excerpts[i].length
          /\ facts = 0 /\ excerpts # <<>> /\ excerpts[1].length > 0
               /\ maxChars > ExcerptsHeader + excerpts[1].label + overhead
               => packed.blocks # <<>>
      <3> HIDE DEF gap
      <3> QED BY <1>4
    <2>3. SynthesisContext(retrieval, maxChars, overhead) =
            [length |-> Joined(section, body), blocks |-> packed.blocks, facts |-> section]
      BY DEF SynthesisContext, section
    <2>4. packed.used <= Larger(0, maxChars - section - ExcerptsHeader - gap)
      BY <2>2
    <2> HIDE DEF packed, room
    <2>5. Joined(section, body) <= maxChars
      BY <1>1, <1>2, <2>2, <2>4, SharedBudget
    <2> HIDE DEF body
    <2> QED BY <2>2, <2>3, <2>5
  <1> QED BY <1>5, <1>6 DEF PacksInBudget

\* A context sized by the budget leaves the answer its whole cap.
LEMMA AnswerKeepsItsCap ==
  ASSUME NEW contextTokens \in Nat, NEW generationTokens \in Nat \ {0}
  PROVE  BudgetsAgree(contextTokens, generationTokens)
  <1> DEFINE tokens == contextTokens - generationTokens - PromptHeadroom
  <1>1. /\ PromptHeadroom \in Nat /\ CtxHeadroom \in Nat /\ CtxHeadroom <= PromptHeadroom
        /\ MinContext \in Nat /\ CharsPerToken \in Nat \ {0}
    BY GroundingAssumption
  <1>2. tokens \in Int
    BY <1>1
  <1> HIDE DEF tokens
  <1>3. SUFFICES ASSUME tokens * CharsPerToken > MinContext
                 PROVE  FitMaxTokens((tokens * CharsPerToken) \div CharsPerToken
                                       + PromptHeadroom - CtxHeadroom,
                                     generationTokens, contextTokens) = generationTokens
    BY <1>1, <1>2 DEF BudgetsAgree, AnswerContextMaxChars, Larger, tokens
  <1>4. (tokens * CharsPerToken) \div CharsPerToken = tokens
    BY <1>1, <1>2
  <1>5. contextTokens - (tokens + PromptHeadroom - CtxHeadroom) - CtxHeadroom = generationTokens
    BY <1>1 DEF tokens
  <1> QED BY <1>4, <1>5 DEF FitMaxTokens, Smaller

-----------------------------------------------------------------------------
(* Texts *)

Text == Seq(Alphabet)
Shown == Seq(BOOLEAN \X Alphabet)

LEMMA Slice ==
  ASSUME NEW S, NEW s \in Seq(S), NEW m \in Nat, NEW n \in m..Len(s)
  PROVE  /\ SubSeq(s, m + 1, n) \in Seq(S)
         /\ Len(SubSeq(s, m + 1, n)) = n - m
         /\ \A i \in 1..(n - m) : SubSeq(s, m + 1, n)[i] = s[m + i]
  <1>1. Len(s) \in Nat /\ m + 1 \in Int /\ n \in Int
    BY LenProperties
  <1>2. \A i \in (m + 1)..n : s[i] \in S
    BY <1>1, ElementOfSeq
  <1>3. /\ SubSeq(s, m + 1, n) \in Seq(S)
        /\ Len(SubSeq(s, m + 1, n)) = IF m + 1 <= n THEN n - (m + 1) + 1 ELSE 0
        /\ \A i \in 1..(n - (m + 1) + 1) : SubSeq(s, m + 1, n)[i] = s[(m + 1) + i - 1]
    BY <1>1, <1>2, SubSeqProperties
  <1>4. \A i \in 1..(n - m) : i \in 1..(n - (m + 1) + 1) /\ (m + 1) + i - 1 = m + i
    BY <1>1
  <1> QED BY <1>1, <1>3, <1>4

LEMMA MarkedText ==
  ASSUME NEW text \in Text, NEW reasoning \in BOOLEAN
  PROVE  /\ Marked(text, reasoning) \in Shown
         /\ Len(Marked(text, reasoning)) = Len(text)
         /\ \A i \in 1..Len(text) : Marked(text, reasoning)[i] = <<reasoning, text[i]>>
  <1>1. Len(text) \in Nat /\ \A i \in 1..Len(text) : text[i] \in Alphabet
    BY LenProperties, ElementOfSeq DEF Text
  <1>2. Marked(text, reasoning) \in [1..Len(text) -> BOOLEAN \X Alphabet]
    BY <1>1 DEF Marked
  <1>3. Marked(text, reasoning) \in Shown
    BY <1>1, <1>2, SeqDef DEF Shown
  <1>4. DOMAIN Marked(text, reasoning) = 1..Len(text)
    BY DEF Marked
  <1>5. DOMAIN Marked(text, reasoning) = 1..Len(Marked(text, reasoning))
        /\ Len(Marked(text, reasoning)) \in Nat
    BY <1>3, LenProperties DEF Shown
  <1>6. Len(Marked(text, reasoning)) = Len(text)
    BY <1>1, <1>4, <1>5
  <1> QED BY <1>3, <1>6 DEF Marked

\* A text in three pieces, by its places.
LEMMA Adjacent ==
  ASSUME NEW S, NEW s \in Seq(S), NEW m \in Nat, NEW k \in m..Len(s), NEW n \in k..Len(s)
  PROVE  SubSeq(s, m + 1, k) \o SubSeq(s, k + 1, n) = SubSeq(s, m + 1, n)
  <1>1. Len(s) \in Nat
    BY LenProperties
  <1>2. m + 1 \in 1..Len(s) + 1 /\ k \in (m + 1) - 1..Len(s) /\ n \in k..Len(s)
    BY <1>1
  <1> QED BY <1>2, ConcatAdjacentSubSeq

-----------------------------------------------------------------------------
(* Tags in a text *)

LEMMA TagFacts ==
  ASSUME NEW tag \in Tags
  PROVE  /\ tag \in Text /\ Len(tag) \in Nat \ {0}
         /\ \A other \in Tags : \A i \in 2..Len(tag) : tag[i] # other[1]
  <1>1. tag \in Seq(Alphabet) /\ tag # <<>>
    BY TagsAssumption
  <1> QED BY <1>1, EmptySeq, TagsAssumption DEF Text

LEMMA TwoTags == OpenTag \in Tags /\ CloseTag \in Tags
  BY DEF Tags

\* Where a tag stands, no other begins before its end.
LEMMA NoOverlap ==
  ASSUME NEW text, NEW tag \in Tags, NEW other \in Tags, NEW i \in Nat, NEW j \in Nat,
         Occurs(text, tag, i), text[j] = other[1], i < j
  PROVE  j >= i + Len(tag)
  <1>1. Len(tag) \in Nat \ {0} /\ \A n \in 2..Len(tag) : tag[n] # other[1]
    BY TagFacts
  <1>2. SUFFICES ASSUME j < i + Len(tag)
                 PROVE  FALSE
    BY <1>1
  <1> DEFINE n == j - i + 1
  <1>3. n \in 2..Len(tag) /\ n \in 1..Len(tag) /\ i + n - 1 = j
    BY <1>1, <1>2
  <1> HIDE DEF n
  <1>4. text[j] = tag[n]
    BY <1>3 DEF Occurs
  <1> QED BY <1>1, <1>3, <1>4

LEMMA FirstCharacter ==
  ASSUME NEW text, NEW tag \in Tags, NEW i \in Nat, Occurs(text, tag, i)
  PROVE  text[i] = tag[1]
  <1>1. Len(tag) \in Nat \ {0}
    BY TagFacts
  <1>2. 1 \in 1..Len(tag) /\ i + 1 - 1 = i
    BY <1>1
  <1> QED BY <1>2 DEF Occurs

LEMMA TagsApart ==
  ASSUME NEW text, NEW tag \in Tags, NEW other \in Tags, NEW i \in Nat, NEW j \in Nat,
         Occurs(text, tag, i), Occurs(text, other, j), i < j
  PROVE  j >= i + Len(tag)
  BY FirstCharacter, NoOverlap

LEMMA OneTag ==
  ASSUME NEW text, NEW i \in Nat, Occurs(text, OpenTag, i), Occurs(text, CloseTag, i)
  PROVE  FALSE
  <1>1. PICK j \in 1..Len(OpenTag) : j <= Len(CloseTag) /\ OpenTag[j] # CloseTag[j]
    BY TagsAssumption
  <1>2. Len(OpenTag) \in Nat /\ Len(CloseTag) \in Nat
    BY TwoTags, TagFacts
  <1>3. j \in 1..Len(CloseTag)
    BY <1>1, <1>2
  <1> QED BY <1>1, <1>3 DEF Occurs

\* Find finds the first.
LEMMA Found ==
  ASSUME NEW text \in Text, NEW tag, NEW n \in Nat
  PROVE  LET i == FindAfter(text, tag, n)
         IN  \/ i = 0 /\ \A j \in n + 1..Len(text) : ~Occurs(text, tag, j)
             \/ /\ i \in n + 1..Len(text) /\ Occurs(text, tag, i)
                /\ \A j \in n + 1..(i - 1) : ~Occurs(text, tag, j)
  <1> DEFINE S == Places(text, tag, n)
             i == FindAfter(text, tag, n)
  <1>1. Len(text) \in Nat
    BY LenProperties DEF Text
  <1>2. CASE S = {}
    BY <1>2 DEF Places, FindAfter
  <1>3. CASE S # {}
    <2>1. S \subseteq Nat
      BY <1>1 DEF Places
    <2> HIDE DEF S
    <2>2. \E k \in S : \A j \in S : k <= j
      BY <1>3, <2>1, Least
    <2>3. i = CHOOSE k \in S : \A j \in S : k <= j
      BY <1>3 DEF FindAfter, S
    <2>4. i \in S /\ \A j \in S : i <= j
      <3> HIDE DEF i
      <3> QED BY <2>2, <2>3
    <2> HIDE DEF i
    <2>5. i \in n + 1..Len(text) /\ Occurs(text, tag, i)
      BY <2>4 DEF S, Places
    <2>6. ASSUME NEW j \in n + 1..(i - 1)
          PROVE  ~Occurs(text, tag, j)
      <3>1. j \in n + 1..Len(text) /\ ~(i <= j)
        BY <1>1, <2>5
      <3>2. j \notin S
        BY <2>4, <3>1
      <3> QED BY <3>1, <3>2 DEF S, Places
    <2> QED BY <2>5, <2>6 DEF i
  <1> QED BY <1>2, <1>3

\* A tag of a piece of a text is a tag of the text.
LEMMA OccursInSlice ==
  ASSUME NEW text \in Text, NEW m \in Nat, NEW n \in m..Len(text), NEW tag \in Tags,
         NEW i \in Nat \ {0}
  PROVE  Occurs(SubSeq(text, m + 1, n), tag, i)
           <=> m + i + Len(tag) - 1 <= n /\ Occurs(text, tag, m + i)
  <1> DEFINE piece == SubSeq(text, m + 1, n)
  <1>1. Len(text) \in Nat /\ Len(tag) \in Nat \ {0}
    BY LenProperties, TagFacts DEF Text
  <1>2. Len(piece) = n - m /\ \A j \in 1..(n - m) : piece[j] = text[m + j]
    BY Slice DEF Text
  <1> HIDE DEF piece
  <1>3. SUFFICES ASSUME m + i + Len(tag) - 1 <= n
                 PROVE  Occurs(piece, tag, i) <=> Occurs(text, tag, m + i)
    BY <1>1, <1>2 DEF Occurs, piece
  <1>4. ASSUME NEW j \in 1..Len(tag)
        PROVE  piece[i + j - 1] = text[m + i + j - 1]
    <2>1. i + j - 1 \in 1..(n - m) /\ m + (i + j - 1) = m + i + j - 1
      BY <1>1, <1>3
    <2> QED BY <1>2, <2>1
  <1>5. i + Len(tag) - 1 <= Len(piece) /\ m + i + Len(tag) - 1 <= Len(text)
    BY <1>1, <1>2, <1>3
  <1> QED BY <1>4, <1>5 DEF Occurs

-----------------------------------------------------------------------------
(* Reading a text *)

Readings == [skip : Nat, reasoning : BOOLEAN, orphans : Nat, shown : Shown,
             before : Text, said : Text]

LEMMA EmptyTexts == <<>> \in Text /\ <<>> \in Shown /\ Unread \in Readings
  <1>1. <<>> \in Text /\ <<>> \in Shown
    BY EmptySeq DEF Text, Shown
  <1> QED BY <1>1 DEF Unread, Readings

LEMMA Longer ==
  ASSUME NEW text \in Text, NEW other \in Text, NEW c \in Alphabet, NEW shown \in Shown,
         NEW reasoning \in BOOLEAN
  PROVE  /\ text \o other \in Text /\ Append(text, c) \in Text
         /\ Append(shown, <<reasoning, c>>) \in Shown
  BY AppendProperties, ConcatProperties DEF Text, Shown

LEMMA ReadSkip ==
  ASSUME NEW text, NEW i, NEW r \in Readings, r.skip > 0
  PROVE  Read(r, text, i) = [r EXCEPT !.skip = r.skip - 1] /\ Read(r, text, i) \in Readings
  BY DEF Read, Readings

LEMMA ReadOpen ==
  ASSUME NEW text, NEW i, NEW r \in Readings, r.skip = 0, ~r.reasoning, Occurs(text, OpenTag, i)
  PROVE  Read(r, text, i) = Opened(r) /\ Opened(r) \in Readings
  <1>1. Read(r, text, i) = Opened(r)
    BY DEF Read
  <1>2. Len(OpenTag) - 1 \in Nat
    BY TagFacts, TwoTags
  <1> QED BY <1>1, <1>2 DEF Opened, Readings

LEMMA ReadClose ==
  ASSUME NEW text, NEW i, NEW r \in Readings, r.skip = 0, r.reasoning, Occurs(text, CloseTag, i)
  PROVE  Read(r, text, i) = Closed(r) /\ Closed(r) \in Readings
  <1>1. Read(r, text, i) = Closed(r)
    BY DEF Read
  <1>2. Len(CloseTag) - 1 \in Nat
    BY TagFacts, TwoTags
  <1> QED BY <1>1, <1>2 DEF Closed, Readings

LEMMA ReadOrphan ==
  ASSUME NEW text, NEW i \in Nat, NEW r \in Readings, r.skip = 0, ~r.reasoning,
         Occurs(text, CloseTag, i)
  PROVE  Read(r, text, i) = Orphaned(r) /\ Orphaned(r) \in Readings
  <1>1. ~Occurs(text, OpenTag, i)
    BY OneTag
  <1>2. Read(r, text, i) = Orphaned(r)
    BY <1>1 DEF Read
  <1> DEFINE skip == Len(CloseTag) - 1
             orphans == r.orphans + 1
             before == r.before \o r.said
  <1>3. skip \in Nat /\ orphans \in Nat
    BY TagFacts, TwoTags DEF Readings
  <1>4. before \in Text
    <2>1. r.before \in Text /\ r.said \in Text
      BY DEF Readings
    <2> QED BY <2>1, ConcatProperties DEF Text
  <1>5. Orphaned(r) = [r EXCEPT !.skip = skip, !.orphans = orphans, !.before = before, !.said = <<>>]
    BY DEF Orphaned
  <1> HIDE DEF skip, orphans, before
  <1>6. Orphaned(r) \in Readings
    BY <1>3, <1>4, <1>5, EmptyTexts DEF Readings
  <1> QED BY <1>2, <1>6

LEMMA ReadQuiet ==
  ASSUME NEW text \in Text, NEW i \in 1..Len(text), NEW r \in Readings, r.skip = 0,
         ~Occurs(text, CloseTag, i), r.reasoning \/ ~Occurs(text, OpenTag, i)
  PROVE  Read(r, text, i) = Told(r, text[i]) /\ Told(r, text[i]) \in Readings
  <1>1. Read(r, text, i) = Told(r, text[i])
    BY DEF Read
  <1> DEFINE c == text[i]
             shown == Append(r.shown, <<r.reasoning, c>>)
             said == IF r.reasoning THEN r.said ELSE Append(r.said, c)
  <1>2. c \in Alphabet
    BY ElementOfSeq DEF Text
  <1>3. r.shown \in Shown /\ r.said \in Text /\ r.reasoning \in BOOLEAN
    BY DEF Readings
  <1> HIDE DEF c
  <1>4. shown \in Shown /\ said \in Text
    BY <1>2, <1>3, Longer
  <1>5. Told(r, c) = [r EXCEPT !.shown = shown, !.said = said]
    BY Zenon DEF Told
  <1> HIDE DEF shown, said
  <1>6. Told(r, c) \in Readings
    BY <1>4, <1>5 DEF Readings
  <1> QED BY <1>1, <1>6 DEF c

LEMMA ReadIs ==
  ASSUME NEW text \in Text, NEW i \in 1..Len(text), NEW r \in Readings
  PROVE  Read(r, text, i) \in Readings
  <1>1. r.skip \in Nat /\ r.reasoning \in BOOLEAN /\ i \in Nat
    BY DEF Readings
  <1>2. CASE r.skip > 0
    BY <1>2, ReadSkip
  <1>3. CASE r.skip = 0 /\ ~r.reasoning /\ Occurs(text, OpenTag, i)
    BY <1>3, ReadOpen
  <1>4. CASE r.skip = 0 /\ ~r.reasoning /\ Occurs(text, CloseTag, i)
    BY <1>1, <1>4, ReadOrphan
  <1>5. CASE r.skip = 0 /\ r.reasoning /\ Occurs(text, CloseTag, i)
    BY <1>5, ReadClose
  <1>6. CASE r.skip = 0 /\ ~Occurs(text, CloseTag, i) /\ (r.reasoning \/ ~Occurs(text, OpenTag, i))
    BY <1>6, ReadQuiet
  <1> QED BY <1>1, <1>2, <1>3, <1>4, <1>5, <1>6

LEMMA ReadToDef ==
  ASSUME NEW text \in Text
  PROVE  /\ ReadTo(text) \in [0..Len(text) -> Readings]
         /\ ReadTo(text)[0] = Unread
         /\ \A n \in 1..Len(text) : ReadTo(text)[n] = Read(ReadTo(text)[n - 1], text, n)
  <1> DEFINE N == Len(text)
             Value(f, n) == IF n = 0 THEN Unread ELSE Read(f[n - 1], text, n)
             Defines(f) == f = [n \in 0..N |-> Value(f, n)]
             step == [p \in Readings \X (1..N) |-> Read(p[1], text, p[2])]
             f == ReadTo(text)
  <1>1. f = CHOOSE g : Defines(g)
    BY DEF ReadTo
  <1>2. N \in Nat
    BY LenProperties DEF Text
  <1>3. Unread \in Readings
    BY EmptyTexts
  <1>4. \A r \in Readings, n \in 1..N : Read(r, text, n) \in Readings
    BY ReadIs
  <1>5. step \in [Readings \X (1..N) -> Readings]
    BY <1>4
  <1>6. \A r \in Readings, n \in 1..N : step[<<r, n>>] = Read(r, text, n)
    OBVIOUS
  <1> HIDE DEF step, N, f
  <1>7. PICK g \in [0..N -> Readings] : FollowsTo(g, Unread, step, N)
    BY <1>2, <1>3, <1>5, FiniteRecursion
  <1>8. g[0] = Unread /\ \A n \in 1..N : g[n] = Read(g[n - 1], text, n)
    <2>1. \A n \in 1..N : n - 1 \in 0..N
      BY <1>2
    <2> QED BY <1>6, <1>7, <2>1 DEF FollowsTo
  <1>9. Defines(g)
    <2>1. \A n \in 0..N : n # 0 => n \in 1..N
      BY <1>2
    <2>2. \A n \in 0..N : g[n] = Value(g, n)
      BY <1>8, <2>1
    <2> HIDE DEF Value
    <2> QED BY <2>2
  <1>10. Defines(f)
    <2> HIDE DEF Defines
    <2> QED BY <1>1, <1>9
  <1>11. f[0] = Unread /\ \A n \in 1..N : f[n] = Read(f[n - 1], text, n)
    <2>1. \A n \in 0..N : f[n] = Value(f, n)
      <3> HIDE DEF Value
      <3> QED BY <1>10
    <2> QED BY <1>2, <2>1
  <1>12. \A n \in 0..N : f[n] \in Readings
    <2> DEFINE S == {n \in 0..N : f[n] \in Readings}
    <2>1. 0 \in S
      BY <1>2, <1>3, <1>11
    <2>2. \A n \in 1..N : n - 1 \in S => n \in S
      BY <1>2, <1>4, <1>11
    <2> HIDE DEF S
    <2>3. \A n \in 0..N : n \in S
      BY <1>2, <2>1, <2>2, UpTo
    <2> QED BY <2>3 DEF S
  <1>13. f \in [0..N -> Readings]
    <2>1. f = [n \in 0..N |-> Value(f, n)]
      BY <1>10
    <2> HIDE DEF Value
    <2>2. \A n \in 0..N : Value(f, n) \in Readings
      BY <1>12, <2>1
    <2> QED BY <2>1, <2>2
  <1> QED BY <1>11, <1>13 DEF N, f

LEMMA AppendConcat ==
  ASSUME NEW S, NEW s \in Seq(S), NEW t \in Seq(S), NEW x \in S
  PROVE  s \o Append(t, x) = Append(s \o t, x)
  <1>1. <<x>> \in Seq(S)
    BY EmptySeq, AppendProperties, AppendIsConcat, ConcatEmptySeq
  <1>2. Append(t, x) = t \o <<x>>
    BY AppendIsConcat
  <1>3. s \o t \in Seq(S)
    BY ConcatProperties
  <1>4. Append(s \o t, x) = (s \o t) \o <<x>>
    BY <1>3, AppendIsConcat
  <1>5. (s \o t) \o <<x>> = s \o (t \o <<x>>)
    BY <1>1, ConcatAssociative
  <1> QED BY <1>2, <1>4, <1>5

LEMMA TextAppend ==
  ASSUME NEW text \in Text, NEW piece \in Text, NEW c \in Alphabet
  PROVE  text \o Append(piece, c) = Append(text \o piece, c)
  <1>1. text \in Seq(Alphabet) /\ piece \in Seq(Alphabet)
    BY DEF Text
  <1> QED BY <1>1, AppendConcat

LEMMA ShownAppend ==
  ASSUME NEW shown \in Shown, NEW piece \in Shown, NEW reasoning \in BOOLEAN, NEW c \in Alphabet
  PROVE  shown \o Append(piece, <<reasoning, c>>) = Append(shown \o piece, <<reasoning, c>>)
  <1>1. shown \in Seq(BOOLEAN \X Alphabet) /\ piece \in Seq(BOOLEAN \X Alphabet)
    BY DEF Shown
  <1>2. <<reasoning, c>> \in BOOLEAN \X Alphabet
    OBVIOUS
  <1> DEFINE S == BOOLEAN \X Alphabet
             x == <<reasoning, c>>
  <1>3. shown \in Seq(S) /\ piece \in Seq(S) /\ x \in S
    BY <1>1, <1>2
  <1> HIDE DEF S, x
  <1>4. shown \o Append(piece, x) = Append(shown \o piece, x)
    BY <1>3, AppendConcat
  <1> QED BY <1>4 DEF x

LEMMA SliceAppend ==
  ASSUME NEW S, NEW s \in Seq(S), NEW m \in Nat, NEW n \in Nat, m <= n, n + 1 <= Len(s)
  PROVE  SubSeq(s, m + 1, n + 1) = Append(SubSeq(s, m + 1, n), s[n + 1])
  <1>1. Len(s) \in Nat
    BY LenProperties
  <1>2. m + 1 \in 1..Len(s) /\ n + 1 \in m + 1..Len(s) /\ (n + 1) - 1 = n /\ n \in m..Len(s)
        /\ n + 1 \in 1..Len(s)
    BY <1>1
  <1> DEFINE k == m + 1
             l == n + 1
  <1>3. SubSeq(s, k, l) = SubSeq(s, k, l - 1) \o <<s[l]>>
    <2>1. k \in 1..Len(s) /\ l \in k..Len(s)
      BY <1>2
    <2> HIDE DEF k, l
    <2> QED BY <2>1, SubSeqRecursiveSecond
  <1>4. SubSeq(s, m + 1, n) \in Seq(S)
    BY <1>2, Slice
  <1>5. s[n + 1] \in S
    BY <1>2, ElementOfSeq
  <1>6. Append(SubSeq(s, m + 1, n), s[n + 1]) = SubSeq(s, m + 1, n) \o <<s[n + 1]>>
    BY <1>4, <1>5, AppendIsConcat
  <1> QED BY <1>2, <1>3, <1>6

LEMMA NoSlice ==
  ASSUME NEW S, NEW s \in Seq(S), NEW n \in 0..Len(s)
  PROVE  SubSeq(s, n + 1, n) = <<>>
  <1>1. n + 1 \in Int /\ n \in Int /\ n < n + 1
    BY LenProperties
  <1> QED BY <1>1, SubSeqEmpty

LEMMA MarkedNone ==
  ASSUME NEW reasoning \in BOOLEAN
  PROVE  Marked(<<>>, reasoning) = <<>>
  <1>1. /\ Marked(<<>>, reasoning) \in Shown /\ Len(Marked(<<>>, reasoning)) = Len(<<>>)
    BY EmptyTexts, MarkedText
  <1>2. Len(<<>>) = 0
    BY EmptySeq
  <1> QED BY <1>1, <1>2, EmptySeq DEF Shown

LEMMA MarkedMore ==
  ASSUME NEW text \in Text, NEW reasoning \in BOOLEAN, NEW c \in Alphabet
  PROVE  Marked(Append(text, c), reasoning) = Append(Marked(text, reasoning), <<reasoning, c>>)
  <1> DEFINE longer == Append(text, c)
             more == Append(Marked(text, reasoning), <<reasoning, c>>)
             N == Len(text)
  <1>1. /\ longer \in Text /\ Len(longer) = N + 1 /\ longer[N + 1] = c
        /\ \A i \in 1..N : longer[i] = text[i]
    BY AppendProperties DEF Text
  <1>2. N \in Nat
    BY LenProperties DEF Text
  <1>3. /\ Marked(text, reasoning) \in Shown /\ Len(Marked(text, reasoning)) = N
        /\ \A i \in 1..N : Marked(text, reasoning)[i] = <<reasoning, text[i]>>
    BY MarkedText
  <1>4. /\ more \in Shown /\ Len(more) = N + 1 /\ more[N + 1] = <<reasoning, c>>
        /\ \A i \in 1..N : more[i] = Marked(text, reasoning)[i]
    BY <1>3, AppendProperties DEF Shown
  <1> HIDE DEF longer, more, N
  <1>5. /\ Marked(longer, reasoning) \in Shown /\ Len(Marked(longer, reasoning)) = N + 1
        /\ \A i \in 1..N + 1 : Marked(longer, reasoning)[i] = <<reasoning, longer[i]>>
    BY <1>1, MarkedText
  <1>6. \A i \in 1..N + 1 : Marked(longer, reasoning)[i] = more[i]
    <2>1. ASSUME NEW i \in 1..N
          PROVE  Marked(longer, reasoning)[i] = more[i]
      <3>1. i \in 1..N + 1
        BY <1>2
      <3> QED BY ZenonT(60), <1>1, <1>3, <1>4, <1>5, <3>1
    <2>2. Marked(longer, reasoning)[N + 1] = more[N + 1]
      <3>1. N + 1 \in 1..N + 1
        BY <1>2
      <3>2. Marked(longer, reasoning)[N + 1] = <<reasoning, longer[N + 1]>>
        BY <1>5, <3>1
      <3> QED BY <1>1, <1>4, <3>2
    <2>3. \A i \in 1..N + 1 : i = N + 1 \/ i \in 1..N
      BY <1>2
    <2> QED BY <2>1, <2>2, <2>3
  <1>7. Marked(longer, reasoning) = more
    BY <1>4, <1>5, <1>6, SeqEqual DEF Shown
  <1> QED BY <1>7 DEF longer, more

-----------------------------------------------------------------------------
(* A piece of a text without a tag, and a tag                               *)

Advanced(q, r, piece) ==
  /\ q.skip = 0 /\ q.reasoning = r.reasoning /\ q.orphans = r.orphans /\ q.before = r.before
  /\ q.shown = r.shown \o Marked(piece, r.reasoning)
  /\ q.said = IF r.reasoning THEN r.said ELSE r.said \o piece

\* No tag that means anything begins in a piece of the text.
Quiet(text, reasoning, n, m) ==
  \A i \in n + 1..m :
    ~Occurs(text, CloseTag, i) /\ (reasoning \/ ~Occurs(text, OpenTag, i))

LEMMA ReadPiece ==
  ASSUME NEW text \in Text, NEW n \in Nat, NEW m \in n..Len(text),
         NEW r, r = ReadTo(text)[n], r.skip = 0, Quiet(text, r.reasoning, n, m)
  PROVE  Advanced(ReadTo(text)[m], r, SubSeq(text, n + 1, m))
  <1> DEFINE R == ReadTo(text)
             piece(k) == SubSeq(text, n + 1, n + k)
             S == {k \in 0..(m - n) : Advanced(R[n + k], r, piece(k))}
  <1>1. Len(text) \in Nat /\ n \in 0..Len(text) /\ m - n \in Nat
    BY LenProperties DEF Text
  <1>2. /\ R \in [0..Len(text) -> Readings]
        /\ \A i \in 1..Len(text) : R[i] = Read(R[i - 1], text, i)
    BY ReadToDef
  <1> HIDE DEF R
  <1>3. r = R[n] /\ r \in Readings
    BY <1>1, <1>2 DEF R
  <1>4. /\ r.reasoning \in BOOLEAN /\ r.shown \in Shown /\ r.said \in Text
    BY <1>3 DEF Readings
  <1>5. ASSUME NEW k \in 0..(m - n)
        PROVE  /\ piece(k) \in Text /\ Marked(piece(k), r.reasoning) \in Shown
    <2>1. n + k \in n..Len(text)
      BY <1>1
    <2>2. piece(k) \in Text
      BY <2>1, Slice DEF Text
    <2> QED BY <1>4, <2>2, MarkedText
  <1>6. Advanced(R[n + 0], r, piece(0))
    <2>1. piece(0) = <<>> /\ n + 0 = n
      BY <1>1, NoSlice DEF Text
    <2>2. Marked(<<>>, r.reasoning) = <<>>
      BY <1>4, MarkedNone
    <2>3. r.shown \o <<>> = r.shown /\ r.said \o <<>> = r.said
      BY <1>4, ConcatEmptySeq DEF Shown, Text
    <2> HIDE DEF piece
    <2> QED BY <1>3, <2>1, <2>2, <2>3 DEF Advanced
  <1>7. ASSUME NEW k \in 1..(m - n), Advanced(R[n + (k - 1)], r, piece(k - 1))
        PROVE  Advanced(R[n + k], r, piece(k))
    <2> DEFINE i == n + k
               q == R[n + (k - 1)]
               c == text[i]
    <2>1. i \in 1..Len(text) /\ i \in n + 1..m /\ i - 1 = n + (k - 1) /\ i - 1 \in 0..Len(text)
          /\ k - 1 \in 0..(m - n)
      BY <1>1
    <2>2. q \in Readings /\ R[i] = Read(q, text, i)
      BY <1>2, <2>1
    <2>3. c \in Alphabet
      BY <2>1, ElementOfSeq DEF Text
    <2>4. piece(k) = Append(piece(k - 1), c)
      <3>1. n + (k - 1) \in Nat /\ n <= n + (k - 1) /\ (n + (k - 1)) + 1 = i /\ i <= Len(text)
        BY <1>1
      <3>2. SubSeq(text, n + 1, (n + (k - 1)) + 1)
              = Append(SubSeq(text, n + 1, n + (k - 1)), text[(n + (k - 1)) + 1])
        BY ZenonT(60), <3>1, SliceAppend DEF Text
      <3> QED BY <3>1, <3>2
    <2>5. piece(k - 1) \in Text /\ Marked(piece(k - 1), r.reasoning) \in Shown
      BY <1>5, <2>1
    <2> HIDE DEF piece, c, i, q
    <2>6. ~Occurs(text, CloseTag, i) /\ (r.reasoning \/ ~Occurs(text, OpenTag, i))
      BY <2>1 DEF Quiet
    <2>7. Advanced(q, r, piece(k - 1))
      BY <1>7 DEF q
    <2>8. q.skip = 0 /\ q.reasoning = r.reasoning
      BY <2>7 DEF Advanced
    <2>9. R[i] = Told(q, c)
      BY <2>1, <2>2, <2>6, <2>8, ReadQuiet DEF c
    <2>10. /\ R[i].skip = q.skip /\ R[i].reasoning = q.reasoning /\ R[i].orphans = q.orphans
           /\ R[i].before = q.before /\ R[i].shown = Append(q.shown, <<q.reasoning, c>>)
           /\ R[i].said = IF q.reasoning THEN q.said ELSE Append(q.said, c)
      BY SMTT(30), <2>2, <2>9 DEF Readings, Told
    <2>11. Append(q.shown, <<r.reasoning, c>>) = r.shown \o Marked(piece(k), r.reasoning)
      <3>1. Marked(piece(k), r.reasoning)
              = Append(Marked(piece(k - 1), r.reasoning), <<r.reasoning, c>>)
        BY SMTT(30), <1>4, <2>3, <2>4, <2>5, MarkedMore
      <3>3. r.shown \o Append(Marked(piece(k - 1), r.reasoning), <<r.reasoning, c>>)
              = Append(r.shown \o Marked(piece(k - 1), r.reasoning), <<r.reasoning, c>>)
        <4> DEFINE some == Marked(piece(k - 1), r.reasoning)
                   all == r.shown
                   kind == r.reasoning
        <4>1. some \in Shown /\ all \in Shown /\ kind \in BOOLEAN /\ c \in Alphabet
          BY <1>4, <2>3, <2>5
        <4> HIDE DEF some, all, kind
        <4>2. all \o Append(some, <<kind, c>>) = Append(all \o some, <<kind, c>>)
          BY <4>1, ShownAppend
        <4> QED BY ZenonT(60), <4>2 DEF some, all, kind
      <3> QED BY ZenonT(60), <2>7, <3>1, <3>3 DEF Advanced
    <2>12. ~r.reasoning => Append(q.said, c) = r.said \o piece(k)
      <3>1. r.said \o Append(piece(k - 1), c) = Append(r.said \o piece(k - 1), c)
        BY ZenonT(60), <1>4, <2>3, <2>5, TextAppend
      <3> QED BY <2>4, <2>7, <3>1 DEF Advanced
    <2>13. Advanced(R[i], r, piece(k))
      <3>1. r.reasoning => R[i].said = r.said
        BY <2>7, <2>8, <2>10 DEF Advanced
      <3>2. ~r.reasoning => R[i].said = r.said \o piece(k)
        BY <2>8, <2>10, <2>12
      <3> QED BY ZenonT(60), <2>7, <2>8, <2>10, <2>11, <3>1, <3>2 DEF Advanced
    <2> QED BY <2>13 DEF i
  <1> HIDE DEF piece
  <1>8. 0 \in S /\ \A k \in 1..(m - n) : k - 1 \in S => k \in S
    <2>1. 0 \in 0..(m - n) /\ \A k \in 1..(m - n) : k \in 0..(m - n)
      BY <1>1
    <2> QED BY <1>6, <1>7, <2>1
  <1> HIDE DEF S
  <1>9. m - n \in S
    <2>1. \A k \in 0..(m - n) : k \in S
      BY <1>1, <1>8, UpTo
    <2> QED BY <1>1, <2>1
  <1>10. n + (m - n) = m
    BY <1>1
  <1> QED BY <1>9, <1>10 DEF S, R, piece

\* A tag that was entered is passed over whole.
LEMMA SkipTag ==
  ASSUME NEW text \in Text, NEW n \in Nat, NEW k \in Nat, n + k <= Len(text),
         ReadTo(text)[n].skip = k
  PROVE  ReadTo(text)[n + k] = [ReadTo(text)[n] EXCEPT !.skip = 0]
  <1> DEFINE R == ReadTo(text)
             S == {j \in 0..k : R[n + j] = [R[n] EXCEPT !.skip = k - j]}
  <1>1. Len(text) \in Nat /\ n \in 0..Len(text)
    BY LenProperties DEF Text
  <1>2. /\ R \in [0..Len(text) -> Readings]
        /\ \A i \in 1..Len(text) : R[i] = Read(R[i - 1], text, i)
    BY ReadToDef
  <1>3. R[n].skip = k
    OBVIOUS
  <1> HIDE DEF R
  <1>4. R[n] \in Readings
    BY <1>1, <1>2
  <1>5. 0 \in S
    <2>1. n + 0 = n /\ k - 0 = k /\ 0 \in 0..k
      BY <1>1
    <2>2. R[n] = [R[n] EXCEPT !.skip = k]
      BY <1>3, <1>4 DEF Readings
    <2> QED BY <2>1, <2>2
  <1>6. ASSUME NEW j \in 1..k, j - 1 \in S
        PROVE  j \in S
    <2> DEFINE i == n + j
               left == k - (j - 1)
    <2>1. i \in 1..Len(text) /\ i - 1 = n + (j - 1) /\ left \in Nat \ {0} /\ left - 1 = k - j
          /\ j \in 0..k /\ i - 1 \in 0..Len(text)
      BY <1>1
    <2>2. R[i - 1] = [R[n] EXCEPT !.skip = left]
      BY <1>6, <2>1
    <2>3. R[i - 1] \in Readings /\ R[i] = Read(R[i - 1], text, i)
      BY <1>2, <2>1
    <2> HIDE DEF i, left
    <2>4. R[i - 1].skip = left
      BY <1>4, <2>2 DEF Readings
    <2>5. R[i - 1].skip > 0
      BY <2>1, <2>4
    <2>6. R[i] = [R[i - 1] EXCEPT !.skip = left - 1]
      <3>1. Read(R[i - 1], text, i) = [R[i - 1] EXCEPT !.skip = R[i - 1].skip - 1]
        BY <2>3, <2>5, ReadSkip
      <3> QED BY <2>3, <2>4, <3>1
    <2>7. R[i] = [R[n] EXCEPT !.skip = left - 1]
      BY <1>4, <2>2, <2>6 DEF Readings
    <2> QED BY <2>1, <2>7 DEF i
  <1> HIDE DEF S
  <1>7. k \in S
    <2>1. \A j \in 0..k : j \in S
      BY <1>5, <1>6, UpTo
    <2> QED BY <2>1
  <1>8. k - k = 0
    OBVIOUS
  <1> QED BY <1>7, <1>8 DEF S, R

\* A tag changes the state and shows nothing.
Turned(q, r, tag) ==
  /\ q.skip = 0 /\ q.shown = r.shown /\ (q.reasoning <=> tag = OpenTag)
  /\ IF ~r.reasoning /\ tag = CloseTag
     THEN q.orphans = r.orphans + 1 /\ q.before = r.before \o r.said /\ q.said = <<>>
     ELSE q.orphans = r.orphans /\ q.before = r.before /\ q.said = r.said

LEMMA PassTag ==
  ASSUME NEW text \in Text, NEW n \in 0..Len(text), NEW r, r = ReadTo(text)[n], r.skip = 0,
         NEW tag \in Tags, Occurs(text, tag, n + 1), r.reasoning => tag = CloseTag
  PROVE  n + Len(tag) \in n + 1..Len(text) /\ Turned(ReadTo(text)[n + Len(tag)], r, tag)
  <1> DEFINE R == ReadTo(text)
             k == Len(tag) - 1
             m == n + 1
             q == R[n + Len(tag)]
  <1>1. Len(text) \in Nat /\ Len(tag) \in Nat \ {0} /\ k \in Nat
    BY LenProperties, TagFacts DEF Text
  <1>2. m + Len(tag) - 1 <= Len(text)
    BY DEF Occurs
  <1>3. m \in 1..Len(text) /\ m + k <= Len(text) /\ n + Len(tag) = m + k /\ m - 1 = n
        /\ m \in Nat /\ n + Len(tag) \in n + 1..Len(text)
    BY <1>1, <1>2
  <1>4. r \in Readings /\ R[m] = Read(r, text, m) /\ R[m] \in Readings
    <2>1. /\ R \in [0..Len(text) -> Readings]
          /\ \A i \in 1..Len(text) : R[i] = Read(R[i - 1], text, i)
      BY ReadToDef
    <2>2. m \in 0..Len(text)
      BY <1>3
    <2> QED BY <1>3, <2>1, <2>2
  <1>5. R[m].skip = k => q = [R[m] EXCEPT !.skip = 0]
    BY <1>1, <1>3, SkipTag
  <1>6. Occurs(text, tag, m) /\ r.skip = 0 /\ (r.reasoning => tag = CloseTag)
    OBVIOUS
  <1>7. OpenTag # CloseTag
    BY TagsAssumption
  <1> HIDE DEF R, k, m, q
  <1>8. CASE ~r.reasoning /\ tag = OpenTag
    <2>1. R[m] = Opened(r)
      BY <1>4, <1>6, <1>8, ReadOpen
    <2>2. R[m].skip = k
      BY <1>4, <1>8, <2>1 DEF Opened, Readings, k
    <2>3. q = [Opened(r) EXCEPT !.skip = 0]
      BY <1>5, <2>1, <2>2
    <2> QED BY <1>3, <1>4, <1>7, <1>8, <2>3 DEF Opened, Turned, Readings, q, R
  <1>9. CASE r.reasoning /\ tag = CloseTag
    <2>1. R[m] = Closed(r)
      BY <1>4, <1>6, <1>9, ReadClose
    <2>2. R[m].skip = k
      BY <1>4, <1>9, <2>1 DEF Closed, Readings, k
    <2>3. q = [Closed(r) EXCEPT !.skip = 0]
      BY <1>5, <2>1, <2>2
    <2> QED BY <1>3, <1>4, <1>7, <1>9, <2>3 DEF Closed, Turned, Readings, q, R
  <1>10. CASE ~r.reasoning /\ tag = CloseTag
    <2>1. R[m] = Orphaned(r)
      BY <1>3, <1>4, <1>6, <1>10, ReadOrphan
    <2>2. R[m].skip = k
      BY <1>4, <1>10, <2>1 DEF Orphaned, Readings, k
    <2>3. q = [Orphaned(r) EXCEPT !.skip = 0]
      BY <1>5, <2>1, <2>2
    <2> DEFINE orphans == r.orphans + 1
               before == r.before \o r.said
               skip == Len(CloseTag) - 1
    <2>4. q = [[r EXCEPT !.skip = skip, !.orphans = orphans, !.before = before, !.said = <<>>]
                 EXCEPT !.skip = 0]
      BY <2>3 DEF Orphaned
    <2> HIDE DEF orphans, before, skip
    <2>5. /\ q.skip = 0 /\ q.shown = r.shown /\ q.reasoning = r.reasoning
          /\ q.orphans = orphans /\ q.before = before /\ q.said = <<>>
      BY <1>4, <2>4 DEF Readings
    <2> QED BY <1>3, <1>7, <1>10, <2>5 DEF Turned, q, R, orphans, before
  <1> QED BY <1>6, <1>8, <1>9, <1>10, TagsAssumption DEF Tags

\* What was shown stays, and an orphan stays counted.
Beyond(q, r) ==
  /\ Len(r.shown) <= Len(q.shown) /\ r.shown = Upto(q.shown, Len(r.shown))
  /\ r.orphans <= q.orphans

LEMMA Prefix ==
  ASSUME NEW S, NEW s \in Seq(S), NEW x \in S
  PROVE  /\ Upto(s, Len(s)) = s
         /\ \A n \in 0..Len(s) : Upto(Append(s, x), n) = Upto(s, n)
  <1>1. Upto(s, Len(s)) = s
    BY SubSeqFull DEF Upto
  <1>2. ASSUME NEW n \in 0..Len(s)
        PROVE  Upto(Append(s, x), n) = Upto(s, n)
    <2> DEFINE t == Append(s, x)
    <2>1. t \in Seq(S) /\ Len(t) = Len(s) + 1 /\ \A i \in 1..Len(s) : t[i] = s[i]
      BY AppendProperties
    <2>2. Len(s) \in Nat
      BY LenProperties
    <2> HIDE DEF t
    <2>3. n \in 0..Len(s) /\ n \in 0..Len(t) /\ 0 \in Nat
      BY <2>1, <2>2
    <2>4. /\ SubSeq(s, 0 + 1, n) \in Seq(S) /\ SubSeq(t, 0 + 1, n) \in Seq(S)
          /\ Len(SubSeq(s, 0 + 1, n)) = n - 0 /\ Len(SubSeq(t, 0 + 1, n)) = n - 0
          /\ \A i \in 1..(n - 0) : SubSeq(s, 0 + 1, n)[i] = s[0 + i]
          /\ \A i \in 1..(n - 0) : SubSeq(t, 0 + 1, n)[i] = t[0 + i]
      BY <2>1, <2>3, Slice
    <2>5. \A i \in 1..(n - 0) : 0 + i = i /\ i \in 1..Len(s)
      BY <2>2, <2>3
    <2>6. SubSeq(t, 0 + 1, n) = SubSeq(s, 0 + 1, n)
      BY <2>1, <2>4, <2>5, SeqEqual
    <2> QED BY <2>6 DEF Upto, t
  <1> QED BY <1>1, <1>2

LEMMA ShownPrefix ==
  ASSUME NEW shown \in Shown, NEW reasoning \in BOOLEAN, NEW c \in Alphabet
  PROVE  /\ Len(Append(shown, <<reasoning, c>>)) = Len(shown) + 1
         /\ Upto(shown, Len(shown)) = shown
         /\ \A n \in 0..Len(shown) : Upto(Append(shown, <<reasoning, c>>), n) = Upto(shown, n)
  <1> DEFINE S == BOOLEAN \X Alphabet
             x == <<reasoning, c>>
  <1>1. shown \in Seq(S) /\ x \in S
    BY DEF Shown
  <1> HIDE DEF S, x
  <1>2. Len(Append(shown, x)) = Len(shown) + 1
    BY <1>1, AppendProperties
  <1>3. /\ Upto(shown, Len(shown)) = shown
        /\ \A n \in 0..Len(shown) : Upto(Append(shown, x), n) = Upto(shown, n)
    BY <1>1, Prefix
  <1> QED BY <1>2, <1>3 DEF x

\* One character read shows one more or none, and forgets nothing.
LEMMA ReadGrows ==
  ASSUME NEW text \in Text, NEW i \in 1..Len(text), NEW r \in Readings
  PROVE  LET q == Read(r, text, i)
         IN  /\ q.shown = r.shown \/ \E b \in BOOLEAN, c \in Alphabet : q.shown = Append(r.shown, <<b, c>>)
             /\ r.orphans <= q.orphans
             /\ q.orphans = 0 => r.orphans = 0 /\ q.before = r.before
  <1> DEFINE q == Read(r, text, i)
  <1>1. r.skip \in Nat /\ r.reasoning \in BOOLEAN /\ i \in Nat /\ r.orphans \in Nat
    BY DEF Readings
  <1>2. CASE r.skip > 0
    <2>1. q = [r EXCEPT !.skip = r.skip - 1]
      BY <1>2, ReadSkip
    <2>2. q.shown = r.shown /\ q.orphans = r.orphans /\ q.before = r.before
      BY <2>1 DEF Readings
    <2> QED BY <1>1, <2>2
  <1>3. CASE r.skip = 0 /\ ~r.reasoning /\ Occurs(text, OpenTag, i)
    <2>1. q = Opened(r)
      BY <1>3, ReadOpen
    <2>2. q.shown = r.shown /\ q.orphans = r.orphans /\ q.before = r.before
      BY <2>1 DEF Readings, Opened
    <2> QED BY <1>1, <2>2
  <1>4. CASE r.skip = 0 /\ ~r.reasoning /\ Occurs(text, CloseTag, i)
    <2>1. q = Orphaned(r)
      BY <1>1, <1>4, ReadOrphan
    <2>2. q.shown = r.shown /\ q.orphans = r.orphans + 1
      BY <2>1 DEF Readings, Orphaned
    <2> QED BY <1>1, <2>2
  <1>5. CASE r.skip = 0 /\ r.reasoning /\ Occurs(text, CloseTag, i)
    <2>1. q = Closed(r)
      BY <1>5, ReadClose
    <2>2. q.shown = r.shown /\ q.orphans = r.orphans /\ q.before = r.before
      BY <2>1 DEF Readings, Closed
    <2> QED BY <1>1, <2>2
  <1>6. CASE r.skip = 0 /\ ~Occurs(text, CloseTag, i) /\ (r.reasoning \/ ~Occurs(text, OpenTag, i))
    <2>1. q = Told(r, text[i])
      BY <1>6, ReadQuiet
    <2>2. text[i] \in Alphabet
      BY ElementOfSeq DEF Text
    <2>3. q.shown = Append(r.shown, <<r.reasoning, text[i]>>) /\ q.orphans = r.orphans /\ q.before = r.before
      BY <2>1 DEF Readings, Told
    <2> QED BY <1>1, <2>2, <2>3
  <1> QED BY <1>1, <1>2, <1>3, <1>4, <1>5, <1>6

\* What was shown stays, and an orphan stays counted.
LEMMA Grows ==
  ASSUME NEW text \in Text, NEW n \in 0..Len(text), NEW m \in n..Len(text)
  PROVE  Beyond(ReadTo(text)[m], ReadTo(text)[n])
  <1> DEFINE R == ReadTo(text)
             S == {k \in 0..(m - n) : Beyond(R[n + k], R[n])}
  <1>1. Len(text) \in Nat /\ m - n \in Nat /\ n \in Nat
    BY LenProperties DEF Text
  <1>2. /\ R \in [0..Len(text) -> Readings]
        /\ \A i \in 1..Len(text) : R[i] = Read(R[i - 1], text, i)
    BY ReadToDef
  <1> HIDE DEF R
  <1>3. R[n] \in Readings
    BY <1>2
  <1> DEFINE old == R[n].shown
  <1>4. old \in Shown /\ Len(old) \in Nat /\ R[n].orphans \in Nat
    BY <1>3, LenProperties DEF Readings, Shown
  <1>5. 0 \in S
    <2>1. n + 0 = n /\ 0 \in 0..(m - n)
      BY <1>1
    <2>2. Upto(old, Len(old)) = old
      BY <1>4, SubSeqFull DEF Upto, Shown
    <2>3. Beyond(R[n], R[n])
      BY <1>4, <2>2 DEF Beyond
    <2> QED BY <2>1, <2>3
  <1>6. ASSUME NEW k \in 1..(m - n), k - 1 \in S
        PROVE  k \in S
    <2> DEFINE i == n + k
               p == R[n + (k - 1)]
               q == R[i]
    <2>1. i \in 1..Len(text) /\ i - 1 = n + (k - 1) /\ i \in 0..Len(text) /\ i - 1 \in 0..Len(text)
          /\ k \in 0..(m - n)
      BY <1>1
    <2>2. p \in Readings /\ q \in Readings /\ q = Read(p, text, i)
      BY <1>2, <2>1
    <2>3. Beyond(p, R[n])
      BY <1>6
    <2> HIDE DEF i, p, q, old
    <2>4. /\ q.shown = p.shown \/ \E b \in BOOLEAN, c \in Alphabet : q.shown = Append(p.shown, <<b, c>>)
          /\ p.orphans <= q.orphans
      BY <2>1, <2>2, ReadGrows
    <2>5. p.shown \in Shown /\ p.orphans \in Nat /\ q.orphans \in Nat /\ Len(p.shown) \in Nat
      BY <2>2, LenProperties DEF Readings, Shown
    <2>6. Len(old) \in 0..Len(p.shown) /\ old = Upto(p.shown, Len(old)) /\ R[n].orphans <= p.orphans
      BY <1>4, <2>3, <2>5 DEF Beyond, old
    <2>7. Len(old) <= Len(q.shown) /\ old = Upto(q.shown, Len(old))
      <3>1. CASE q.shown = p.shown
        BY <1>4, <2>5, <2>6, <3>1
      <3>2. ASSUME NEW b \in BOOLEAN, NEW c \in Alphabet, q.shown = Append(p.shown, <<b, c>>)
            PROVE  Len(old) <= Len(q.shown) /\ old = Upto(q.shown, Len(old))
        <4>1. Len(q.shown) = Len(p.shown) + 1
              /\ Upto(q.shown, Len(old)) = Upto(p.shown, Len(old))
          BY <2>5, <2>6, <3>2, ShownPrefix
        <4> QED BY <1>4, <2>5, <2>6, <4>1
      <3> QED BY <2>4, <3>1, <3>2
    <2>8. R[n].orphans <= q.orphans
      BY <1>4, <2>4, <2>5, <2>6
    <2>9. Beyond(q, R[n])
      BY <2>7, <2>8 DEF Beyond, old
    <2> QED BY <2>1, <2>9 DEF q, i
  <1> HIDE DEF S
  <1>7. m - n \in S
    <2>1. \A k \in 0..(m - n) : k \in S
      BY <1>1, <1>5, <1>6, UpTo
    <2> QED BY <1>1, <2>1
  <1>8. n + (m - n) = m
    BY <1>1
  <1> QED BY <1>7, <1>8 DEF S, R

LEMMA SliceOfSlice ==
  ASSUME NEW S, NEW s \in Seq(S), NEW m \in Nat, NEW n \in m..Len(s),
         NEW a \in 0..(n - m), NEW b \in a..(n - m)
  PROVE  SubSeq(SubSeq(s, m + 1, n), a + 1, b) = SubSeq(s, (m + a) + 1, m + b)
  <1> DEFINE piece == SubSeq(s, m + 1, n)
             p == m + a
             q == m + b
  <1>1. Len(s) \in Nat
    BY LenProperties
  <1>2. /\ piece \in Seq(S) /\ Len(piece) = n - m
        /\ \A i \in 1..(n - m) : piece[i] = s[m + i]
    BY Slice
  <1>3. a \in Nat /\ b \in a..Len(piece) /\ p \in Nat /\ q \in p..Len(s) /\ q - p = b - a
    BY <1>1, <1>2
  <1>4. \A i \in 1..(b - a) : a + i \in 1..(n - m) /\ m + (a + i) = p + i
    BY <1>1
  <1> HIDE DEF piece, p, q
  <1>5. /\ SubSeq(piece, a + 1, b) \in Seq(S) /\ Len(SubSeq(piece, a + 1, b)) = b - a
        /\ \A i \in 1..(b - a) : SubSeq(piece, a + 1, b)[i] = piece[a + i]
    BY <1>2, <1>3, Slice
  <1>6. /\ SubSeq(s, p + 1, q) \in Seq(S) /\ Len(SubSeq(s, p + 1, q)) = q - p
        /\ \A i \in 1..(q - p) : SubSeq(s, p + 1, q)[i] = s[p + i]
    BY <1>3, Slice
  <1>7. \A i \in 1..(b - a) : SubSeq(piece, a + 1, b)[i] = SubSeq(s, p + 1, q)[i]
    BY ZenonT(60), <1>2, <1>3, <1>4, <1>5, <1>6
  <1>8. SubSeq(piece, a + 1, b) = SubSeq(s, p + 1, q)
    <2> DEFINE x == SubSeq(piece, a + 1, b)
               y == SubSeq(s, p + 1, q)
    <2>1. x \in Seq(S) /\ y \in Seq(S) /\ Len(x) = Len(y) /\ \A i \in 1..Len(x) : x[i] = y[i]
      BY <1>3, <1>5, <1>6, <1>7
    <2> HIDE DEF x, y
    <2> QED BY <2>1, SeqEqual DEF x, y
  <1> QED BY <1>8 DEF piece, p, q

\* The beginning and the end of a piece of a text.
LEMMA PiecesOfPiece ==
  ASSUME NEW text \in Text, NEW m \in Nat, NEW n \in m..Len(text), NEW k \in 0..(n - m)
  PROVE  /\ Upto(SubSeq(text, m + 1, n), k) = SubSeq(text, m + 1, m + k)
         /\ After(SubSeq(text, m + 1, n), k) = SubSeq(text, (m + k) + 1, n)
         /\ Len(SubSeq(text, m + 1, n)) = n - m
  <1> DEFINE piece == SubSeq(text, m + 1, n)
  <1>1. Len(text) \in Nat /\ text \in Seq(Alphabet)
    BY LenProperties DEF Text
  <1>2. Len(piece) = n - m
    BY <1>1, Slice
  <1>3. 0 \in 0..(n - m) /\ k \in 0..(n - m) /\ m + 0 = m /\ 0 + 1 = 1 /\ m + (n - m) = n
        /\ n - m \in k..(n - m)
    BY <1>1
  <1>4. SubSeq(piece, 0 + 1, k) = SubSeq(text, (m + 0) + 1, m + k)
    BY <1>1, <1>3, SliceOfSlice
  <1>5. SubSeq(piece, k + 1, n - m) = SubSeq(text, (m + k) + 1, m + (n - m))
    BY SMTT(30), <1>1, <1>3, SliceOfSlice
  <1> HIDE DEF piece
  <1> QED BY <1>2, <1>3, <1>4, <1>5 DEF Upto, After, piece

LEMMA PieceIsText ==
  ASSUME NEW text \in Text, NEW n \in 0..Len(text)
  PROVE  /\ Upto(text, n) \in Text /\ Len(Upto(text, n)) = n
         /\ After(text, n) \in Text /\ Len(After(text, n)) = Len(text) - n
         /\ Upto(text, n) \o After(text, n) = text
  <1>1. Len(text) \in Nat /\ text \in Seq(Alphabet)
    BY LenProperties DEF Text
  <1>2. 0 \in Nat /\ n \in 0..Len(text) /\ n \in Nat /\ Len(text) \in n..Len(text)
        /\ 0 + 1 = 1 /\ n - 0 = n
    BY <1>1
  <1>3. SubSeq(text, 0 + 1, n) \in Seq(Alphabet) /\ Len(SubSeq(text, 0 + 1, n)) = n - 0
    BY <1>1, <1>2, Slice
  <1>4. /\ SubSeq(text, n + 1, Len(text)) \in Seq(Alphabet)
        /\ Len(SubSeq(text, n + 1, Len(text))) = Len(text) - n
    BY <1>1, <1>2, Slice
  <1>5. SubSeq(text, 0 + 1, n) \o SubSeq(text, n + 1, Len(text)) = SubSeq(text, 0 + 1, Len(text))
    BY <1>1, <1>2, Adjacent
  <1>6. SubSeq(text, 1, Len(text)) = text
    BY <1>1, SubSeqFull
  <1> QED BY ZenonT(60), <1>2, <1>3, <1>4, <1>5, <1>6 DEF Upto, After, Text

-----------------------------------------------------------------------------
(* The splitter                                                             *)

Splitters == [pending : Text, reasoning : BOOLEAN, orphan : BOOLEAN, shown : Shown]

LEMMA EmitIs ==
  ASSUME NEW s \in Splitters, NEW n \in 0..Len(s.pending)
  PROVE  LET e == Emit(s, n)
         IN  /\ e \in Splitters /\ e.reasoning = s.reasoning /\ e.orphan = s.orphan
             /\ e.shown = s.shown \o Marked(Upto(s.pending, n), s.reasoning)
             /\ e.pending = After(s.pending, n)
  <1> DEFINE shown == s.shown \o Marked(Upto(s.pending, n), s.reasoning)
             pending == After(s.pending, n)
  <1>1. /\ s.pending \in Text /\ s.shown \in Shown /\ s.reasoning \in BOOLEAN
        /\ s.orphan \in BOOLEAN
    BY DEF Splitters
  <1>2. Upto(s.pending, n) \in Text /\ pending \in Text
    BY <1>1, PieceIsText
  <1>3. Marked(Upto(s.pending, n), s.reasoning) \in Shown
    BY <1>1, <1>2, MarkedText
  <1>4. shown \in Shown
    BY <1>1, <1>3, ConcatProperties DEF Shown
  <1>5. Emit(s, n) = [s EXCEPT !.shown = shown, !.pending = pending]
    BY DEF Emit
  <1> HIDE DEF shown, pending
  <1>6. /\ Emit(s, n) \in Splitters /\ Emit(s, n).shown = shown /\ Emit(s, n).pending = pending
        /\ Emit(s, n).reasoning = s.reasoning /\ Emit(s, n).orphan = s.orphan
    BY <1>1, <1>2, <1>4, <1>5 DEF Splitters
  <1> QED BY <1>6 DEF shown, pending

LEMMA ConsumeIs ==
  ASSUME NEW s \in Splitters, NEW tag \in Tags, NEW i \in 1..Len(s.pending),
         Occurs(s.pending, tag, i)
  PROVE  LET e == Consume(s, i, tag)
         IN  /\ e \in Splitters /\ e.reasoning = s.reasoning /\ e.orphan = s.orphan
             /\ e.shown = Emit(s, i - 1).shown
             /\ e.pending = After(Emit(s, i - 1).pending, Len(tag))
             /\ i - 1 + Len(tag) <= Len(s.pending)
  <1> DEFINE before == Emit(s, i - 1)
             pending == After(before.pending, Len(tag))
  <1>1. s.pending \in Text /\ Len(s.pending) \in Nat /\ Len(tag) \in Nat \ {0}
    BY LenProperties, TagFacts DEF Splitters, Text
  <1>2. i - 1 + Len(tag) <= Len(s.pending) /\ i - 1 \in 0..Len(s.pending)
    BY <1>1 DEF Occurs
  <1>3. /\ before \in Splitters /\ before.reasoning = s.reasoning /\ before.orphan = s.orphan
        /\ before.shown = s.shown \o Marked(Upto(s.pending, i - 1), s.reasoning)
        /\ before.pending = After(s.pending, i - 1)
    BY <1>2, EmitIs
  <1>4. before.pending \in Text /\ Len(before.pending) = Len(s.pending) - (i - 1)
    BY ZenonT(60), <1>1, <1>2, <1>3, PieceIsText
  <1>5. Len(tag) \in 0..Len(before.pending)
    BY <1>1, <1>2, <1>4
  <1> HIDE DEF before
  <1>6. pending \in Text
    BY <1>4, <1>5, PieceIsText
  <1>7. Consume(s, i, tag) = [before EXCEPT !.pending = pending]
    BY DEF Consume, before
  <1> HIDE DEF pending
  <1>8. /\ Consume(s, i, tag) \in Splitters /\ Consume(s, i, tag).pending = pending
        /\ Consume(s, i, tag).reasoning = before.reasoning
        /\ Consume(s, i, tag).orphan = before.orphan /\ Consume(s, i, tag).shown = before.shown
    BY <1>3, <1>6, <1>7 DEF Splitters
  <1> QED BY <1>2, <1>3, <1>8 DEF pending, before

\* What is kept back is the longest beginning of a tag.
LEMMA KeptBack ==
  ASSUME NEW text \in Text, NEW tags
  PROVE  /\ PartialTagSuffix(text, tags) \in 0..Len(text)
         /\ \A n \in 1..Len(text) : \A tag \in tags :
              n < Len(tag) /\ (\A j \in 1..n : text[Len(text) - n + j] = tag[j])
                => n <= PartialTagSuffix(text, tags)
  <1> DEFINE ends == {n \in 1 .. Len(text) : \E tag \in tags :
                        n < Len(tag) /\ \A j \in 1 .. n : text[Len(text) - n + j] = tag[j]}
             k == PartialTagSuffix(text, tags)
  <1>1. Len(text) \in Nat
    BY LenProperties DEF Text
  <1>2. k = IF ends = {} THEN 0 ELSE CHOOSE n \in ends : \A m \in ends : m <= n
    BY DEF PartialTagSuffix
  <1>3. ends \subseteq 0..Len(text)
    BY <1>1
  <1>4. \A n \in 1..Len(text) : \A tag \in tags :
          n < Len(tag) /\ (\A j \in 1..n : text[Len(text) - n + j] = tag[j]) => n \in ends
    OBVIOUS
  <1> HIDE DEF ends, k
  <1>5. CASE ends = {}
    BY <1>1, <1>2, <1>4, <1>5 DEF k
  <1>6. CASE ends # {}
    <2>1. \E n \in ends : \A m \in ends : m <= n
      BY <1>1, <1>3, <1>6, Longest
    <2>2. k \in ends /\ \A m \in ends : m <= k
      BY <1>2, <1>6, <2>1
    <2> QED BY <1>3, <1>4, <2>2 DEF k
  <1> QED BY <1>5, <1>6

\* Some of a text is pending: what is behind it was read, and is shown as read.
At(text, c, p, s) ==
  /\ s.pending = SubSeq(text, c + 1, p) /\ ReadTo(text)[c].skip = 0
  /\ s.reasoning = ReadTo(text)[c].reasoning /\ s.shown = ReadTo(text)[c].shown
  /\ s.orphan <=> ReadTo(text)[c].orphans > 0

\* Nothing that is pending is a tag.
Settled(s) == Quiet(s.pending, s.reasoning, 0, Len(s.pending))

LEMMA ReadingAt ==
  ASSUME NEW text \in Text, NEW c \in 0..Len(text)
  PROVE  /\ ReadTo(text)[c] \in Readings
         /\ ReadTo(text)[c].shown \in Shown /\ ReadTo(text)[c].reasoning \in BOOLEAN
         /\ ReadTo(text)[c].orphans \in Nat /\ ReadTo(text)[c].before \in Text
         /\ ReadTo(text)[c].said \in Text
  <1>1. ReadTo(text)[c] \in Readings
    BY ReadToDef
  <1> QED BY <1>1 DEF Readings

LEMMA PendingIs ==
  ASSUME NEW text \in Text, NEW p \in 0..Len(text), NEW c \in 0..p, NEW s \in Splitters,
         At(text, c, p, s)
  PROVE  /\ s.pending \in Text /\ Len(s.pending) = p - c
         /\ \A i \in 1..(p - c) : s.pending[i] = text[c + i]
         /\ \A tag \in Tags : \A i \in Nat \ {0} :
              Occurs(s.pending, tag, i) <=> c + i + Len(tag) - 1 <= p /\ Occurs(text, tag, c + i)
  <1>1. Len(text) \in Nat /\ text \in Seq(Alphabet)
    BY LenProperties DEF Text
  <1>2. c \in Nat /\ p \in c..Len(text)
    BY <1>1
  <1>3. s.pending = SubSeq(text, c + 1, p)
    BY DEF At
  <1>4. /\ Len(SubSeq(text, c + 1, p)) = p - c
        /\ \A i \in 1..(p - c) : SubSeq(text, c + 1, p)[i] = text[c + i]
    BY <1>1, <1>2, Slice
  <1>5. \A tag \in Tags : \A i \in Nat \ {0} :
          Occurs(SubSeq(text, c + 1, p), tag, i)
            <=> c + i + Len(tag) - 1 <= p /\ Occurs(text, tag, c + i)
    BY <1>2, OccursInSlice
  <1>6. s.pending \in Text
    BY DEF Splitters
  <1> QED BY <1>3, <1>4, <1>5, <1>6

LEMMA EmitAt ==
  ASSUME NEW text \in Text, NEW p \in 0..Len(text), NEW c \in 0..p, NEW s \in Splitters,
         At(text, c, p, s), NEW n \in 0..(p - c), Quiet(text, s.reasoning, c, c + n)
  PROVE  At(text, c + n, p, Emit(s, n))
  <1> DEFINE r == ReadTo(text)[c]
             q == ReadTo(text)[c + n]
             piece == SubSeq(text, c + 1, c + n)
             e == Emit(s, n)
  <1>1. Len(text) \in Nat /\ c \in Nat /\ p \in c..Len(text) /\ c + n \in c..Len(text)
        /\ c \in 0..Len(text)
    BY LenProperties DEF Text
  <1>2. /\ s.pending = SubSeq(text, c + 1, p) /\ r.skip = 0 /\ s.reasoning = r.reasoning
        /\ s.shown = r.shown /\ (s.orphan <=> r.orphans > 0)
    BY DEF At
  <1>3. Len(s.pending) = p - c
    BY PendingIs
  <1>4. Upto(s.pending, n) = piece /\ After(s.pending, n) = SubSeq(text, (c + n) + 1, p)
    <2>1. /\ Upto(SubSeq(text, c + 1, p), n) = SubSeq(text, c + 1, c + n)
          /\ After(SubSeq(text, c + 1, p), n) = SubSeq(text, (c + n) + 1, p)
      <3> HIDE DEF piece, r, q, e
      <3> QED BY SMTT(30), <1>1, PiecesOfPiece
    <2> QED BY <1>2, <2>1
  <1>5. /\ e.reasoning = s.reasoning /\ e.orphan = s.orphan
        /\ e.shown = s.shown \o Marked(Upto(s.pending, n), s.reasoning)
        /\ e.pending = After(s.pending, n)
    BY <1>3, EmitIs
  <1>6. Advanced(q, r, piece)
    <2>1. Quiet(text, r.reasoning, c, c + n)
      BY <1>2
    <2> QED BY <1>1, <1>2, <2>1, ReadPiece
  <1> HIDE DEF r, q, piece, e
  <1>7. /\ q.skip = 0 /\ q.reasoning = r.reasoning /\ q.orphans = r.orphans
        /\ q.shown = r.shown \o Marked(piece, r.reasoning)
    BY <1>6 DEF Advanced
  <1>8. /\ e.pending = SubSeq(text, (c + n) + 1, p) /\ q.skip = 0 /\ e.reasoning = q.reasoning
        /\ e.shown = q.shown /\ (e.orphan <=> q.orphans > 0)
    BY <1>2, <1>4, <1>5, <1>7
  <1> QED BY <1>8 DEF At, q, e

\* Characters that are quiet in what is pending, and none of which begins a
\* tag that is not all there yet, are quiet.
LEMMA QuietPiece ==
  ASSUME NEW text \in Text, NEW p \in 0..Len(text), NEW c \in 0..p, NEW s \in Splitters,
         At(text, c, p, s), NEW n \in 0..(p - c),
         Quiet(s.pending, s.reasoning, 0, n),
         NEW tags, CloseTag \in tags, s.reasoning \/ OpenTag \in tags,
         \A i \in 1..n : \A tag \in tags :
           c + i + Len(tag) - 1 > p => ~Occurs(text, tag, c + i)
  PROVE  Quiet(text, s.reasoning, c, c + n)
  <1>1. Len(text) \in Nat /\ c \in Nat /\ p \in Nat /\ n \in Nat
    BY LenProperties DEF Text
  <1>2. ASSUME NEW j \in c + 1..(c + n)
        PROVE  ~Occurs(text, CloseTag, j) /\ (s.reasoning \/ ~Occurs(text, OpenTag, j))
    <2> DEFINE i == j - c
    <2>1. i \in 1..n /\ i \in 0 + 1..n /\ c + i = j /\ i \in Nat \ {0}
      BY <1>1
    <2> HIDE DEF i
    <2>2. ~Occurs(s.pending, CloseTag, i) /\ (s.reasoning \/ ~Occurs(s.pending, OpenTag, i))
      BY <2>1 DEF Quiet
    <2>3. \A tag \in Tags \cap tags : ~Occurs(s.pending, tag, i) => ~Occurs(text, tag, c + i)
      <3>1. ASSUME NEW tag \in Tags \cap tags, ~Occurs(s.pending, tag, i)
            PROVE  ~Occurs(text, tag, c + i)
        <4>1. Len(tag) \in Nat
          BY TagFacts
        <4>2. Occurs(s.pending, tag, i) <=> c + i + Len(tag) - 1 <= p /\ Occurs(text, tag, c + i)
          BY <2>1, PendingIs
        <4>3. c + i + Len(tag) - 1 > p => ~Occurs(text, tag, c + i)
          BY <2>1
        <4> QED BY <1>1, <2>1, <3>1, <4>1, <4>2, <4>3
      <3> QED BY <3>1
    <2>4. CloseTag \in Tags \cap tags /\ (s.reasoning \/ OpenTag \in Tags \cap tags)
      BY TwoTags
    <2> QED BY <2>1, <2>2, <2>3, <2>4
  <1> QED BY <1>2 DEF Quiet

\* Nothing is a tag: all but a beginning of one is shown.
LEMMA HoldBackAt ==
  ASSUME NEW text \in Text, NEW p \in 0..Len(text), NEW c \in 0..p, NEW s \in Splitters,
         At(text, c, p, s), Settled(s),
         NEW tags, CloseTag \in tags, s.reasoning \/ OpenTag \in tags, tags \subseteq Tags
  PROVE  /\ \E d \in c..p : At(text, d, p, HoldBack(s, tags))
         /\ Settled(HoldBack(s, tags)) /\ HoldBack(s, tags) \in Splitters
  <1> DEFINE held == PartialTagSuffix(s.pending, tags)
             n == Len(s.pending) - held
             e == Emit(s, n)
  <1>1. Len(text) \in Nat /\ c \in Nat /\ p \in Nat /\ c <= p
    BY LenProperties DEF Text
  <1>2. /\ s.pending \in Text /\ Len(s.pending) = p - c
        /\ \A i \in 1..(p - c) : s.pending[i] = text[c + i]
    BY PendingIs
  <1>3. /\ held \in 0..(p - c)
        /\ \A k \in 1..(p - c) : \A tag \in tags :
             k < Len(tag) /\ (\A j \in 1..k : s.pending[(p - c) - k + j] = tag[j]) => k <= held
    BY <1>2, KeptBack
  <1> HIDE DEF held
  <1>4. n = p - c - held /\ n \in 0..(p - c) /\ n \in 0..Len(s.pending)
    BY <1>1, <1>2, <1>3
  <1>5. ASSUME NEW i \in 1..n, NEW tag \in tags, c + i + Len(tag) - 1 > p, Occurs(text, tag, c + i)
        PROVE  FALSE
    <2> DEFINE k == p - c - i + 1
    <2>1. Len(tag) \in Nat
      BY TagFacts
    <2>2. k \in 1..(p - c) /\ k < Len(tag) /\ k > held
      BY SMTT(30), <1>1, <1>3, <1>4, <1>5, <2>1
    <2>3. ASSUME NEW j \in 1..k
          PROVE  s.pending[(p - c) - k + j] = tag[j]
      <3>1. (p - c) - k + j \in 1..(p - c) /\ c + ((p - c) - k + j) = (c + i) + j - 1
            /\ j \in 1..Len(tag)
        BY <1>1, <1>4, <2>1, <2>2
      <3>2. text[(c + i) + j - 1] = tag[j]
        BY <1>5, <3>1 DEF Occurs
      <3> HIDE DEF k
      <3> QED BY <1>2, <3>1, <3>2
    <2> HIDE DEF k
    <2>4. k <= held
      BY <1>3, <2>2, <2>3
    <2> QED BY <1>3, <2>2, <2>4
  <1>6. Quiet(text, s.reasoning, c, c + n)
    <2>1. Quiet(s.pending, s.reasoning, 0, n)
      <3>1. \A i \in 0 + 1..n : i \in 0 + 1..Len(s.pending)
        BY <1>1, <1>2, <1>4
      <3> QED BY <3>1 DEF Quiet, Settled
    <2> HIDE DEF n
    <2> QED BY <1>4, <1>5, <2>1, QuietPiece
  <1> HIDE DEF n
  <1>7. At(text, c + n, p, e) /\ c + n \in c..p
    <2>1. c + n \in c..p
      BY <1>1, <1>4
    <2> QED BY <1>4, <1>6, <2>1, EmitAt
  <1>8. e \in Splitters /\ e.reasoning = s.reasoning /\ e.pending = After(s.pending, n)
    BY <1>4, EmitIs
  <1>9. Settled(e)
    <2>1. Len(e.pending) = p - (c + n) /\ c + n \in 0..p
      <3>1. c + n \in 0..p
        BY <1>1, <1>4
      <3> QED BY <1>7, <1>8, <3>1, PendingIs
    <2>2. ASSUME NEW i \in 0 + 1..Len(e.pending), NEW tag \in Tags, Occurs(e.pending, tag, i)
          PROVE  n + i \in 0 + 1..Len(s.pending) /\ Occurs(s.pending, tag, n + i)
      <3>1. i \in Nat \ {0} /\ n + i \in Nat \ {0} /\ n + i \in 0 + 1..Len(s.pending)
            /\ c + (n + i) = (c + n) + i
        <4>1. Len(e.pending) = p - (c + n) /\ Len(s.pending) = p - c /\ n \in 0..(p - c)
          BY <1>2, <1>4, <2>1
        <4> HIDE DEF e
        <4> QED BY <1>1, <4>1
      <3>2. (c + n) + i + Len(tag) - 1 <= p /\ Occurs(text, tag, (c + n) + i)
        BY <1>7, <1>8, <2>1, <2>2, <3>1, PendingIs
      <3>3. Occurs(s.pending, tag, n + i)
        BY <3>1, <3>2, PendingIs
      <3> QED BY <3>1, <3>3
    <2>3. \A i \in 0 + 1..Len(s.pending) :
            ~Occurs(s.pending, CloseTag, i) /\ (s.reasoning \/ ~Occurs(s.pending, OpenTag, i))
      BY DEF Settled, Quiet
    <2>4. \A i \in 0 + 1..Len(e.pending) :
            ~Occurs(e.pending, CloseTag, i) /\ (e.reasoning \/ ~Occurs(e.pending, OpenTag, i))
      <3> HIDE DEF e
      <3> QED BY <1>8, <2>2, <2>3, TwoTags
    <2> HIDE DEF e
    <2> QED BY <2>4 DEF Settled, Quiet
  <1>10. HoldBack(s, tags) = e
    BY DEF HoldBack, n, held
  <1> HIDE DEF e
  <1> QED BY <1>7, <1>8, <1>9, <1>10

\* A tag that means something is all there: what is before it is shown.
LEMMA ConsumeAt ==
  ASSUME NEW text \in Text, NEW p \in 0..Len(text), NEW c \in 0..p, NEW s \in Splitters,
         At(text, c, p, s), NEW tag \in Tags, NEW i \in 1..Len(s.pending),
         Occurs(s.pending, tag, i), s.reasoning => tag = CloseTag,
         \A j \in 1..(i - 1) :
           ~Occurs(s.pending, CloseTag, j) /\ (s.reasoning \/ ~Occurs(s.pending, OpenTag, j)),
         NEW orphan \in BOOLEAN, orphan <=> s.orphan \/ (~s.reasoning /\ tag = CloseTag)
  PROVE  LET e == [Consume(s, i, tag) EXCEPT !.reasoning = (tag = OpenTag), !.orphan = orphan]
         IN  /\ e \in Splitters /\ Len(e.pending) < Len(s.pending)
             /\ \E d \in c..p : At(text, d, p, e)
  <1> DEFINE n == i - 1
             d == c + n + Len(tag)
             used == Consume(s, i, tag)
             e == [used EXCEPT !.reasoning = (tag = OpenTag), !.orphan = orphan]
             r == ReadTo(text)[c + n]
             q == ReadTo(text)[(c + n) + Len(tag)]
  <1>1. Len(text) \in Nat /\ c \in Nat /\ p \in Nat /\ c <= p /\ p <= Len(text)
        /\ Len(tag) \in Nat \ {0}
    BY LenProperties, TagFacts DEF Text
  <1>2. /\ s.pending \in Text /\ Len(s.pending) = p - c
        /\ Occurs(s.pending, tag, i) <=> c + i + Len(tag) - 1 <= p /\ Occurs(text, tag, c + i)
    <2>1. Len(s.pending) = p - c
      BY PendingIs
    <2>2. i \in Nat \ {0}
      BY <1>1, <2>1
    <2> QED BY <2>1, <2>2, PendingIs
  <1>3. c + i + Len(tag) - 1 <= p /\ Occurs(text, tag, c + i)
    BY <1>2
  <1>4. n \in 0..(p - c) /\ c + i = (c + n) + 1 /\ d \in c..p /\ c + n \in 0..Len(text)
        /\ n + Len(tag) <= p - c /\ n \in 0..Len(s.pending) /\ d = (c + n) + Len(tag)
    BY <1>1, <1>2, <1>3
  <1>5. Quiet(text, s.reasoning, c, c + n)
    <2>1. Quiet(s.pending, s.reasoning, 0, n)
      BY DEF Quiet
    <2>2. \A j \in 1..n : \A other \in Tags :
            c + j + Len(other) - 1 > p => ~Occurs(text, other, c + j)
      <3>1. ASSUME NEW j \in 1..n, NEW other \in Tags, c + j + Len(other) - 1 > p,
                   Occurs(text, other, c + j)
            PROVE  FALSE
        <4>1. c + j \in Nat /\ c + i \in Nat /\ c + j < c + i
          BY <1>1, <1>4
        <4>2. c + i >= c + j + Len(other)
          BY <1>3, <3>1, <4>1, TagsApart
        <4>3. Len(other) \in Nat
          BY TagFacts
        <4> QED BY <1>1, <1>3, <1>4, <3>1, <4>2, <4>3
      <3> QED BY <3>1
    <2>3. n \in 0..(p - c)
      BY <1>4
    <2> HIDE DEF n
    <2> QED BY <2>1, <2>2, <2>3, TwoTags, QuietPiece
  <1> HIDE DEF n, d
  <1> DEFINE b == Emit(s, n)
  <1>6. At(text, c + n, p, b)
    BY <1>4, <1>5, EmitAt
  <1>7. /\ b.reasoning = s.reasoning /\ b.orphan = s.orphan
        /\ b.shown = s.shown \o Marked(Upto(s.pending, n), s.reasoning)
        /\ b.pending = After(s.pending, n)
    BY <1>4, EmitIs
  <1>8. /\ used \in Splitters /\ used.reasoning = s.reasoning /\ used.orphan = s.orphan
        /\ used.shown = b.shown /\ used.pending = After(b.pending, Len(tag))
    <2>1. n = i - 1
      BY DEF n
    <2>2. /\ used \in Splitters /\ used.reasoning = s.reasoning /\ used.orphan = s.orphan
          /\ used.shown = Emit(s, i - 1).shown
          /\ used.pending = After(Emit(s, i - 1).pending, Len(tag))
      BY ConsumeIs
    <2> HIDE DEF used
    <2> QED BY <2>1, <2>2
  <1> HIDE DEF b, used
  <1>9. /\ e \in Splitters /\ e.reasoning = (tag = OpenTag) /\ e.orphan = orphan
        /\ e.shown = used.shown /\ e.pending = used.pending
    BY <1>8 DEF Splitters
  <1> HIDE DEF e
  <1>10. /\ b.pending = SubSeq(text, (c + n) + 1, p) /\ r.skip = 0 /\ b.reasoning = r.reasoning
         /\ b.shown = r.shown /\ (b.orphan <=> r.orphans > 0)
    BY <1>6 DEF At
  <1>11. e.pending = SubSeq(text, d + 1, p) /\ Len(e.pending) = p - d
    <2>1. After(SubSeq(text, (c + n) + 1, p), Len(tag)) = SubSeq(text, ((c + n) + Len(tag)) + 1, p)
      <3>1. c + n \in Nat /\ p \in c + n..Len(text) /\ Len(tag) \in 0..(p - (c + n))
        BY <1>1, <1>4
      <3> HIDE DEF r
      <3> QED BY <3>1, PiecesOfPiece
    <2>2. e.pending = SubSeq(text, d + 1, p)
      BY <1>4, <1>8, <1>9, <1>10, <2>1
    <2>3. d \in Nat /\ p \in d..Len(text)
      BY <1>1, <1>4
    <2>4. Len(SubSeq(text, d + 1, p)) = p - d
      BY <2>3, Slice DEF Text
    <2> QED BY <2>2, <2>4
  <1>12. Turned(q, r, tag)
    <2>1. r.skip = 0 /\ Occurs(text, tag, (c + n) + 1) /\ (r.reasoning => tag = CloseTag)
          /\ r = ReadTo(text)[c + n]
      BY <1>3, <1>4, <1>7, <1>10
    <2> HIDE DEF r
    <2> QED BY <1>4, <2>1, PassTag
  <1>13. r.orphans \in Nat /\ q.orphans \in Nat /\ q.reasoning \in BOOLEAN
    <2>1. d \in 0..Len(text)
      BY <1>1, <1>4
    <2> QED BY <1>4, <2>1, ReadingAt
  <1> HIDE DEF r, q
  <1>14. /\ q.skip = 0 /\ q.shown = r.shown /\ (q.reasoning <=> tag = OpenTag)
         /\ IF ~r.reasoning /\ tag = CloseTag THEN q.orphans = r.orphans + 1
            ELSE q.orphans = r.orphans
    BY <1>12 DEF Turned
  <1>15. orphan <=> q.orphans > 0
    <2>1. CASE ~r.reasoning /\ tag = CloseTag
      BY <1>7, <1>10, <1>13, <1>14, <2>1
    <2>2. CASE ~(~r.reasoning /\ tag = CloseTag)
      BY <1>7, <1>10, <1>14, <2>2
    <2> QED BY <2>1, <2>2
  <1>16. q = ReadTo(text)[d]
    BY <1>4 DEF q
  <1>17. At(text, d, p, e)
    <2>1. e.reasoning = q.reasoning
      BY <1>9, <1>13, <1>14
    <2>2. e.shown = q.shown
      BY <1>8, <1>9, <1>10, <1>14
    <2>3. e.orphan <=> q.orphans > 0
      BY <1>9, <1>15
    <2> QED BY <1>11, <1>14, <1>16, <2>1, <2>2, <2>3 DEF At
  <1>18. Len(e.pending) < Len(s.pending)
    BY SMTT(30), <1>1, <1>2, <1>4, <1>11
  <1> QED BY <1>4, <1>9, <1>17, <1>18 DEF e, used

\* One round: either nothing more is a tag, or less is pending.
LEMMA ScanOnceIs ==
  ASSUME NEW text \in Text, NEW p \in 0..Len(text), NEW c \in 0..p, NEW s \in Splitters,
         At(text, c, p, s)
  PROVE  /\ ScanOnce(s) \in Splitters /\ \E d \in c..p : At(text, d, p, ScanOnce(s))
         /\ IF Settled(s) THEN Settled(ScanOnce(s)) ELSE Len(ScanOnce(s).pending) < Len(s.pending)
  <1> DEFINE open == Find(s.pending, OpenTag)
             close == Find(s.pending, CloseTag)
             N == Len(s.pending)
  <1>1. /\ s.pending \in Text /\ s.reasoning \in BOOLEAN /\ s.orphan \in BOOLEAN
        /\ s \in [pending : Text, reasoning : BOOLEAN, orphan : BOOLEAN, shown : Shown]
    BY DEF Splitters
  <1>2. N \in Nat /\ 0 + 1 = 1
    BY <1>1, LenProperties DEF Text
  <1>3. \/ open = 0 /\ \A j \in 1..N : ~Occurs(s.pending, OpenTag, j)
        \/ /\ open \in 1..N /\ Occurs(s.pending, OpenTag, open)
           /\ \A j \in 1..(open - 1) : ~Occurs(s.pending, OpenTag, j)
    BY <1>1, <1>2, Found DEF Find
  <1>4. \/ close = 0 /\ \A j \in 1..N : ~Occurs(s.pending, CloseTag, j)
        \/ /\ close \in 1..N /\ Occurs(s.pending, CloseTag, close)
           /\ \A j \in 1..(close - 1) : ~Occurs(s.pending, CloseTag, j)
    BY <1>1, <1>2, Found DEF Find
  <1>5. Settled(s) <=> \A j \in 1..N :
          ~Occurs(s.pending, CloseTag, j) /\ (s.reasoning \/ ~Occurs(s.pending, OpenTag, j))
    BY <1>2 DEF Settled, Quiet
  <1>6. OpenTag # CloseTag
    BY TagsAssumption
  <1> HIDE DEF open, close
  <1>7. CASE s.reasoning /\ close = 0
    <2>1. ScanOnce(s) = HoldBack(s, {CloseTag})
      BY <1>7 DEF ScanOnce, ScanReasoning, close
    <2>2. Settled(s)
      BY <1>2, <1>4, <1>5, <1>7
    <2>3. CloseTag \in {CloseTag} /\ {CloseTag} \subseteq Tags
      BY TwoTags
    <2> QED BY <1>7, <2>1, <2>2, <2>3, HoldBackAt
  <1>8. CASE s.reasoning /\ close # 0
    <2> DEFINE used == Consume(s, close, CloseTag)
               e == [used EXCEPT !.reasoning = (CloseTag = OpenTag), !.orphan = s.orphan]
    <2>1. close \in 1..N /\ Occurs(s.pending, CloseTag, close)
          /\ \A j \in 1..(close - 1) :
               ~Occurs(s.pending, CloseTag, j) /\ (s.reasoning \/ ~Occurs(s.pending, OpenTag, j))
      BY <1>4, <1>8
    <2>2. e \in Splitters /\ Len(e.pending) < N /\ \E d \in c..p : At(text, d, p, e)
      BY ZenonT(60), <1>1, <1>8, <2>1, TwoTags, ConsumeAt
    <2>3. used \in Splitters /\ used.orphan = s.orphan
      BY <2>1, TwoTags, ConsumeIs
    <2>4. ScanOnce(s) = [used EXCEPT !.reasoning = FALSE]
      BY <1>8 DEF ScanOnce, ScanReasoning, close
    <2> HIDE DEF used
    <2>5. ScanOnce(s) = e
      BY <1>6, <2>3, <2>4 DEF Splitters
    <2>6. ~Settled(s)
      BY <1>5, <2>1
    <2> HIDE DEF e
    <2> QED BY <2>2, <2>5, <2>6
  <1>9. CASE ~s.reasoning /\ open = 0 /\ close = 0
    <2>1. ScanOnce(s) = HoldBack(s, Tags)
      BY <1>9 DEF ScanOnce, ScanAnswer, open, close
    <2>2. Settled(s)
      BY <1>2, <1>3, <1>4, <1>5, <1>9
    <2> QED BY <1>9, <2>1, <2>2, TwoTags, HoldBackAt
  <1>10. CASE ~s.reasoning /\ open # 0 /\ (close = 0 \/ open < close)
    <2> DEFINE used == Consume(s, open, OpenTag)
               e == [used EXCEPT !.reasoning = (OpenTag = OpenTag), !.orphan = s.orphan]
    <2>1. open \in 1..N /\ Occurs(s.pending, OpenTag, open)
      BY <1>3, <1>10
    <2>2. \A j \in 1..(open - 1) :
            ~Occurs(s.pending, CloseTag, j) /\ (s.reasoning \/ ~Occurs(s.pending, OpenTag, j))
      <3>1. \A j \in 1..(open - 1) : j \in 1..N /\ (close # 0 => j \in 1..(close - 1))
        BY <1>2, <1>4, <1>10, <2>1
      <3> QED BY <1>3, <1>4, <1>10, <3>1
    <2>3. e \in Splitters /\ Len(e.pending) < N /\ \E d \in c..p : At(text, d, p, e)
      BY ZenonT(60), <1>1, <1>6, <1>10, <2>1, <2>2, TwoTags, ConsumeAt
    <2>4. used \in Splitters /\ used.orphan = s.orphan
      BY <2>1, TwoTags, ConsumeIs
    <2>5. ScanOnce(s) = [used EXCEPT !.reasoning = TRUE]
      BY <1>10 DEF ScanOnce, ScanAnswer, open, close
    <2> HIDE DEF used
    <2>6. ScanOnce(s) = e
      BY <2>4, <2>5 DEF Splitters
    <2>7. ~Settled(s)
      BY <1>5, <1>10, <2>1
    <2> HIDE DEF e
    <2> QED BY <2>3, <2>6, <2>7
  <1>11. CASE ~s.reasoning /\ ~(open = 0 /\ close = 0) /\ ~(open # 0 /\ (close = 0 \/ open < close))
    <2> DEFINE used == Consume(s, close, CloseTag)
               e == [used EXCEPT !.reasoning = (CloseTag = OpenTag), !.orphan = TRUE]
    <2>1. close \in 1..N /\ Occurs(s.pending, CloseTag, close)
      BY <1>3, <1>4, <1>11
    <2>2. \A j \in 1..(close - 1) :
            ~Occurs(s.pending, CloseTag, j) /\ (s.reasoning \/ ~Occurs(s.pending, OpenTag, j))
      <3>1. \A j \in 1..(close - 1) : j \in 1..N /\ (open # 0 => j \in 1..(open - 1))
        BY <1>2, <1>3, <1>11, <2>1
      <3> QED BY <1>3, <1>4, <2>1, <3>1
    <2>3. e \in Splitters /\ Len(e.pending) < N /\ \E d \in c..p : At(text, d, p, e)
      BY <1>1, <1>11, <2>1, <2>2, TwoTags, ConsumeAt
    <2>4. used \in Splitters /\ used.reasoning = FALSE
      BY <1>1, <1>11, <2>1, TwoTags, ConsumeIs
    <2>5. ScanOnce(s) = [used EXCEPT !.orphan = TRUE]
      BY <1>11 DEF ScanOnce, ScanAnswer, open, close
    <2> HIDE DEF used
    <2>6. ScanOnce(s) = e
      BY <1>6, <2>4, <2>5 DEF Splitters
    <2>7. ~Settled(s)
      BY <1>5, <2>1
    <2> HIDE DEF e
    <2> QED BY <2>3, <2>6, <2>7
  <1> QED BY <1>1, <1>7, <1>8, <1>9, <1>10, <1>11



\* A round leaves a splitter.
LEMMA ScanOnceType ==
  ASSUME NEW s \in Splitters
  PROVE  ScanOnce(s) \in Splitters
  <1> DEFINE open == Find(s.pending, OpenTag)
             close == Find(s.pending, CloseTag)
             N == Len(s.pending)
  <1>1. s.pending \in Text /\ s.reasoning \in BOOLEAN
    BY DEF Splitters
  <1>2. N \in Nat /\ 0 + 1 = 1
    BY <1>1, LenProperties DEF Text
  <1>3. open = 0 \/ (open \in 1..N /\ Occurs(s.pending, OpenTag, open))
    BY <1>1, <1>2, Found DEF Find
  <1>4. close = 0 \/ (close \in 1..N /\ Occurs(s.pending, CloseTag, close))
    BY <1>1, <1>2, Found DEF Find
  <1>5. ASSUME NEW tags
        PROVE  HoldBack(s, tags) \in Splitters
    <2> DEFINE held == PartialTagSuffix(s.pending, tags)
    <2>1. held \in 0..N
      BY <1>1, KeptBack
    <2> HIDE DEF held
    <2>2. N - held \in 0..N
      BY <1>2, <2>1
    <2>3. Emit(s, N - held) \in Splitters
      BY <2>2, EmitIs
    <2> QED BY <2>3 DEF HoldBack, held
  <1>6. open # 0 => [Consume(s, open, OpenTag) EXCEPT !.reasoning = TRUE] \in Splitters
    <2> DEFINE used == Consume(s, open, OpenTag)
    <2>1. open # 0 => used \in Splitters
      BY <1>3, TwoTags, ConsumeIs
    <2> HIDE DEF used
    <2> QED BY <2>1 DEF Splitters, used
  <1>7. close # 0 => /\ [Consume(s, close, CloseTag) EXCEPT !.reasoning = FALSE] \in Splitters
                     /\ [Consume(s, close, CloseTag) EXCEPT !.orphan = TRUE] \in Splitters
    <2> DEFINE used == Consume(s, close, CloseTag)
    <2>1. close # 0 => used \in Splitters
      BY <1>4, TwoTags, ConsumeIs
    <2> HIDE DEF used
    <2> QED BY <2>1 DEF Splitters, used
  <1>8. ScanReasoning(s) \in Splitters
    BY <1>5, <1>7 DEF ScanReasoning
  <1>9. ScanAnswer(s) \in Splitters
    BY <1>5, <1>6, <1>7 DEF ScanAnswer
  <1> QED BY <1>8, <1>9 DEF ScanOnce

LEMMA RoundsDef ==
  ASSUME NEW s \in Splitters
  PROVE  /\ Rounds(s) \in [0..Len(s.pending) -> Splitters]
         /\ Rounds(s)[0] = s
         /\ \A n \in 1..Len(s.pending) : Rounds(s)[n] = ScanOnce(Rounds(s)[n - 1])
  <1> DEFINE N == Len(s.pending)
             C == Splitters
             Turn(r, n) == ScanOnce(r)
             Value(f, n) == IF n = 0 THEN s ELSE Turn(f[n - 1], n)
             Defines(f) == f = [n \in 0..N |-> Value(f, n)]
             step == [p \in C \X (1..N) |-> Turn(p[1], p[2])]
             f == Rounds(s)
  <1>1. f = CHOOSE g : Defines(g)
    BY DEF Rounds
  <1>2. N \in Nat
    BY LenProperties DEF Splitters, Text
  <1>3. s \in C
    OBVIOUS
  <1>4. \A r \in C, n \in 1..N : Turn(r, n) \in C
    BY ScanOnceType
  <1> HIDE DEF Turn
  <1>5. step \in [C \X (1..N) -> C]
    BY <1>4
  <1>6. \A r \in C, n \in 1..N : step[<<r, n>>] = Turn(r, n)
    OBVIOUS
  <1> HIDE DEF step, N, f, C
  <1>7. PICK g \in [0..N -> C] : FollowsTo(g, s, step, N)
    BY <1>2, <1>3, <1>5, FiniteRecursion
  <1>8. g[0] = s /\ \A n \in 1..N : g[n] = Turn(g[n - 1], n)
    <2>1. \A n \in 1..N : n - 1 \in 0..N
      BY <1>2
    <2> QED BY <1>6, <1>7, <2>1 DEF FollowsTo
  <1>9. Defines(g)
    <2>1. \A n \in 0..N : n # 0 => n \in 1..N
      BY <1>2
    <2>2. \A n \in 0..N : g[n] = Value(g, n)
      BY <1>8, <2>1
    <2> HIDE DEF Value
    <2> QED BY <2>2
  <1>10. Defines(f)
    <2> HIDE DEF Defines
    <2> QED BY <1>1, <1>9
  <1>11. f[0] = s /\ \A n \in 1..N : f[n] = Turn(f[n - 1], n)
    <2>1. \A n \in 0..N : f[n] = Value(f, n)
      <3> HIDE DEF Value
      <3> QED BY <1>10
    <2> QED BY <1>2, <2>1
  <1>12. \A n \in 0..N : f[n] \in C
    <2> DEFINE S == {n \in 0..N : f[n] \in C}
    <2>1. 0 \in S
      BY <1>2, <1>3, <1>11
    <2>2. \A n \in 1..N : n - 1 \in S => n \in S
      BY <1>2, <1>4, <1>11
    <2> HIDE DEF S
    <2>3. \A n \in 0..N : n \in S
      BY <1>2, <2>1, <2>2, UpTo
    <2> QED BY <2>3 DEF S
  <1>13. f \in [0..N -> C]
    <2>1. f = [n \in 0..N |-> Value(f, n)]
      BY <1>10
    <2> HIDE DEF Value
    <2>2. \A n \in 0..N : Value(f, n) \in C
      BY <1>12, <2>1
    <2> QED BY <2>1, <2>2
  <1> QED BY <1>11, <1>13 DEF N, f, Turn, C

\* The rounds of one feed: in the end nothing that is pending is a tag.
LEMMA ScanIs ==
  ASSUME NEW text \in Text, NEW p \in 0..Len(text), NEW s \in Splitters,
         \E c \in 0..p : At(text, c, p, s)
  PROVE  /\ Scan(s) \in Splitters /\ Settled(Scan(s))
         /\ \E c \in 0..p : At(text, c, p, Scan(s))
  <1> DEFINE N == Len(s.pending)
             round == Rounds(s)
             Good(n) == /\ \E c \in 0..p : At(text, c, p, round[n])
                        /\ Settled(round[n]) \/ Len(round[n].pending) <= N - n
             S == {n \in 0..N : Good(n)}
  <1>1. N \in Nat
    BY LenProperties DEF Splitters, Text
  <1>2. /\ round \in [0..N -> Splitters] /\ round[0] = s
        /\ \A n \in 1..N : round[n] = ScanOnce(round[n - 1])
    BY RoundsDef
  <1> HIDE DEF round
  <1>3. 0 \in S
    BY <1>1, <1>2
  <1>4. ASSUME NEW n \in 1..N, n - 1 \in S
        PROVE  n \in S
    <2> DEFINE old == round[n - 1]
               new == round[n]
    <2>1. n - 1 \in 0..N /\ n \in 0..N
      BY <1>1
    <2>2. old \in Splitters /\ new = ScanOnce(old) /\ new \in Splitters
      BY <1>2, <2>1
    <2>3. PICK c \in 0..p : At(text, c, p, old)
      BY <1>4
    <2>4. Settled(old) \/ Len(old.pending) <= N - (n - 1)
      BY <1>4
    <2> HIDE DEF old, new, N
    <2>5. /\ \E d \in c..p : At(text, d, p, new)
          /\ IF Settled(old) THEN Settled(new) ELSE Len(new.pending) < Len(old.pending)
      BY <2>2, <2>3, ScanOnceIs
    <2>6. \E d \in 0..p : At(text, d, p, new)
      <3>1. \A d \in c..p : d \in 0..p
        OBVIOUS
      <3> QED BY <2>5, <3>1
    <2>7. Len(new.pending) \in Nat /\ Len(old.pending) \in Nat
      BY <2>2, LenProperties DEF Splitters, Text
    <2>8. Settled(new) \/ Len(new.pending) <= N - n
      BY <1>1, <2>4, <2>5, <2>7
    <2> QED BY <2>1, <2>6, <2>8 DEF new
  <1> HIDE DEF S
  <1>5. N \in S
    <2>1. \A n \in 0..N : n \in S
      BY <1>1, <1>3, <1>4, UpTo
    <2> QED BY <1>1, <2>1
  <1>6. Good(N)
    BY <1>5 DEF S
  <1>7. round[N] \in Splitters
    BY <1>1, <1>2
  <1>8. Settled(round[N])
    <2> DEFINE left == Len(round[N].pending)
    <2>1. left \in Nat
      BY <1>7, LenProperties DEF Splitters, Text
    <2>2. Settled(round[N]) \/ left <= N - N
      BY <1>6
    <2> HIDE DEF left
    <2>3. CASE left = 0
      <3>1. Quiet(round[N].pending, round[N].reasoning, 0, left)
        BY <2>3 DEF Quiet
      <3> QED BY <3>1 DEF Settled, left
    <2> QED BY <1>1, <2>1, <2>2, <2>3
  <1>9. Scan(s) = round[N]
    BY DEF Scan, round
  <1> QED BY <1>6, <1>7, <1>8, <1>9

LEMMA FeedType ==
  ASSUME NEW s \in Splitters, NEW delta \in Text
  PROVE  /\ [s EXCEPT !.pending = s.pending \o delta] \in Splitters /\ Feed(s, delta) \in Splitters
  <1> DEFINE pending == s.pending \o delta
             fed == [s EXCEPT !.pending = pending]
  <1>1. s.pending \in Text
    BY DEF Splitters
  <1>2. pending \in Text
    BY <1>1, ConcatProperties DEF Text
  <1> HIDE DEF pending
  <1>3. fed \in Splitters
    BY <1>2 DEF Splitters
  <1> HIDE DEF fed
  <1>4. Scan(fed) \in Splitters
    <2>1. Len(fed.pending) \in Nat
      BY <1>3, LenProperties DEF Splitters, Text
    <2>2. Len(fed.pending) \in 0..Len(fed.pending)
      BY <2>1
    <2> QED BY <1>3, <2>2, RoundsDef DEF Scan
  <1> QED BY <1>3, <1>4 DEF Feed, fed, pending

LEMMA FedToDef ==
  ASSUME NEW deltas \in Seq(Text)
  PROVE  /\ FedTo(deltas) \in [0..Len(deltas) -> Splitters]
         /\ FedTo(deltas)[0] = NewSplitter
         /\ \A n \in 1..Len(deltas) : FedTo(deltas)[n] = Feed(FedTo(deltas)[n - 1], deltas[n])
  <1> DEFINE N == Len(deltas)
             C == Splitters
             Turn(r, n) == Feed(r, deltas[n])
             Value(f, n) == IF n = 0 THEN NewSplitter ELSE Turn(f[n - 1], n)
             Defines(f) == f = [n \in 0..N |-> Value(f, n)]
             step == [p \in C \X (1..N) |-> Turn(p[1], p[2])]
             f == FedTo(deltas)
  <1>1. f = CHOOSE g : Defines(g)
    BY DEF FedTo
  <1>2. N \in Nat
    BY LenProperties
  <1>3. NewSplitter \in C
    BY EmptyTexts DEF NewSplitter, Splitters
  <1>4. \A r \in C, n \in 1..N : Turn(r, n) \in C
    BY FeedType, ElementOfSeq
  <1> HIDE DEF Turn
  <1>5. step \in [C \X (1..N) -> C]
    BY <1>4
  <1>6. \A r \in C, n \in 1..N : step[<<r, n>>] = Turn(r, n)
    OBVIOUS
  <1> HIDE DEF step, N, f, C
  <1>7. PICK g \in [0..N -> C] : FollowsTo(g, NewSplitter, step, N)
    BY <1>2, <1>3, <1>5, FiniteRecursion
  <1>8. g[0] = NewSplitter /\ \A n \in 1..N : g[n] = Turn(g[n - 1], n)
    <2>1. \A n \in 1..N : n - 1 \in 0..N
      BY <1>2
    <2> QED BY <1>6, <1>7, <2>1 DEF FollowsTo
  <1>9. Defines(g)
    <2>1. \A n \in 0..N : n # 0 => n \in 1..N
      BY <1>2
    <2>2. \A n \in 0..N : g[n] = Value(g, n)
      BY <1>8, <2>1
    <2> HIDE DEF Value
    <2> QED BY <2>2
  <1>10. Defines(f)
    <2> HIDE DEF Defines
    <2> QED BY <1>1, <1>9
  <1>11. f[0] = NewSplitter /\ \A n \in 1..N : f[n] = Turn(f[n - 1], n)
    <2>1. \A n \in 0..N : f[n] = Value(f, n)
      <3> HIDE DEF Value
      <3> QED BY <1>10
    <2> QED BY <1>2, <2>1
  <1>12. \A n \in 0..N : f[n] \in C
    <2> DEFINE S == {n \in 0..N : f[n] \in C}
    <2>1. 0 \in S
      BY <1>2, <1>3, <1>11
    <2>2. \A n \in 1..N : n - 1 \in S => n \in S
      BY <1>2, <1>4, <1>11
    <2> HIDE DEF S
    <2>3. \A n \in 0..N : n \in S
      BY <1>2, <2>1, <2>2, UpTo
    <2> QED BY <2>3 DEF S
  <1>13. f \in [0..N -> C]
    <2>1. f = [n \in 0..N |-> Value(f, n)]
      BY <1>10
    <2> HIDE DEF Value
    <2>2. \A n \in 0..N : Value(f, n) \in C
      BY <1>12, <2>1
    <2> QED BY <2>1, <2>2
  <1> QED BY <1>11, <1>13 DEF N, f, Turn, C

LEMMA JoinedToDef ==
  ASSUME NEW A, NEW parts \in Seq(Seq(A))
  PROVE  /\ JoinedTo(parts) \in [0..Len(parts) -> Seq(A)]
         /\ JoinedTo(parts)[0] = <<>>
         /\ \A n \in 1..Len(parts) : JoinedTo(parts)[n] = JoinedTo(parts)[n - 1] \o parts[n]
  <1> DEFINE N == Len(parts)
             C == Seq(A)
             Turn(r, n) == r \o parts[n]
             Value(f, n) == IF n = 0 THEN <<>> ELSE Turn(f[n - 1], n)
             Defines(f) == f = [n \in 0..N |-> Value(f, n)]
             step == [p \in C \X (1..N) |-> Turn(p[1], p[2])]
             f == JoinedTo(parts)
  <1>1. f = CHOOSE g : Defines(g)
    BY DEF JoinedTo
  <1>2. N \in Nat
    BY LenProperties
  <1>3. <<>> \in C
    BY EmptySeq
  <1>4. \A r \in C, n \in 1..N : Turn(r, n) \in C
    BY ElementOfSeq, ConcatProperties
  <1> HIDE DEF Turn
  <1>5. step \in [C \X (1..N) -> C]
    BY <1>4
  <1>6. \A r \in C, n \in 1..N : step[<<r, n>>] = Turn(r, n)
    OBVIOUS
  <1> HIDE DEF step, N, f, C
  <1>7. PICK g \in [0..N -> C] : FollowsTo(g, <<>>, step, N)
    BY <1>2, <1>3, <1>5, FiniteRecursion
  <1>8. g[0] = <<>> /\ \A n \in 1..N : g[n] = Turn(g[n - 1], n)
    <2>1. \A n \in 1..N : n - 1 \in 0..N
      BY <1>2
    <2> QED BY <1>6, <1>7, <2>1 DEF FollowsTo
  <1>9. Defines(g)
    <2>1. \A n \in 0..N : n # 0 => n \in 1..N
      BY <1>2
    <2>2. \A n \in 0..N : g[n] = Value(g, n)
      BY <1>8, <2>1
    <2> HIDE DEF Value
    <2> QED BY <2>2
  <1>10. Defines(f)
    <2> HIDE DEF Defines
    <2> QED BY <1>1, <1>9
  <1>11. f[0] = <<>> /\ \A n \in 1..N : f[n] = Turn(f[n - 1], n)
    <2>1. \A n \in 0..N : f[n] = Value(f, n)
      <3> HIDE DEF Value
      <3> QED BY <1>10
    <2> QED BY <1>2, <2>1
  <1>12. \A n \in 0..N : f[n] \in C
    <2> DEFINE S == {n \in 0..N : f[n] \in C}
    <2>1. 0 \in S
      BY <1>2, <1>3, <1>11
    <2>2. \A n \in 1..N : n - 1 \in S => n \in S
      BY <1>2, <1>4, <1>11
    <2> HIDE DEF S
    <2>3. \A n \in 0..N : n \in S
      BY <1>2, <2>1, <2>2, UpTo
    <2> QED BY <2>3 DEF S
  <1>13. f \in [0..N -> C]
    <2>1. f = [n \in 0..N |-> Value(f, n)]
      BY <1>10
    <2> HIDE DEF Value
    <2>2. \A n \in 0..N : Value(f, n) \in C
      BY <1>12, <2>1
    <2> QED BY <2>1, <2>2
  <1> QED BY <1>11, <1>13 DEF N, f, Turn, C

-----------------------------------------------------------------------------
(* Deltas in a row                                                          *)

Begins(piece, text) == Len(piece) <= Len(text) /\ Upto(text, Len(piece)) = piece

LEMMA BeginsConcat ==
  ASSUME NEW text \in Text, NEW piece \in Text, NEW more \in Text, Begins(piece \o more, text)
  PROVE  /\ Begins(piece, text) /\ Len(piece \o more) = Len(piece) + Len(more)
         /\ more = SubSeq(text, Len(piece) + 1, Len(piece \o more))
  <1> DEFINE both == piece \o more
             m == Len(piece)
             n == Len(more)
  <1>1. m \in Nat /\ n \in Nat /\ Len(text) \in Nat
    BY LenProperties DEF Text
  <1>2. /\ both \in Text /\ Len(both) = m + n
        /\ \A i \in 1..m + n : both[i] = IF i <= m THEN piece[i] ELSE more[i - m]
    BY ConcatProperties DEF Text
  <1>3. Len(both) <= Len(text) /\ Upto(text, Len(both)) = both
    BY DEF Begins
  <1> HIDE DEF both, m, n
  <1>4. 0 \in Nat /\ m \in 0..Len(text) /\ m + n \in 0..Len(text) /\ m \in Nat /\ m + n \in m..Len(text)
        /\ 0 + 1 = 1 /\ m - 0 = m /\ (m + n) - 0 = m + n /\ (m + n) - m = n
    BY <1>1, <1>2, <1>3
  <1>5. \A i \in 1..m + n : both[i] = text[i]
    <2>1. \A i \in 1..((m + n) - 0) : SubSeq(text, 0 + 1, m + n)[i] = text[0 + i]
      BY <1>4, Slice DEF Text
    <2>2. both = SubSeq(text, 0 + 1, m + n)
      BY <1>2, <1>3, <1>4 DEF Upto
    <2>3. \A i \in 1..m + n : 0 + i = i
      OBVIOUS
    <2> QED BY <1>4, <2>1, <2>2, <2>3
  <1>6. \A i \in 1..m : piece[i] = text[i]
    <2>1. ASSUME NEW i \in 1..m
          PROVE  piece[i] = text[i]
      <3>1. i \in 1..m + n /\ i <= m
        BY <1>1
      <3> QED BY <1>2, <1>5, <3>1
    <2> QED BY <2>1
  <1>7. \A i \in 1..n : more[i] = text[m + i]
    <2>1. ASSUME NEW i \in 1..n
          PROVE  more[i] = text[m + i]
      <3>1. m + i \in 1..m + n /\ ~(m + i <= m) /\ (m + i) - m = i
        BY <1>1
      <3> QED BY <1>2, <1>5, <3>1
    <2> QED BY <2>1
  <1>8. Upto(text, m) = piece
    <2> DEFINE x == SubSeq(text, 0 + 1, m)
    <2>1. /\ x \in Seq(Alphabet) /\ Len(x) = m - 0
          /\ \A i \in 1..(m - 0) : x[i] = text[0 + i]
      BY <1>4, Slice DEF Text
    <2>2. \A i \in 1..m : 0 + i = i
      OBVIOUS
    <2>3. piece \in Seq(Alphabet) /\ Len(piece) = m
      BY DEF Text, m
    <2> HIDE DEF x
    <2>4. \A i \in 1..Len(x) : x[i] = piece[i]
      <3>1. Len(x) = m /\ \A i \in 1..m : x[i] = text[0 + i]
        BY <1>4, <2>1
      <3> QED BY <1>6, <2>2, <3>1
    <2>5. x = piece
      BY <1>4, <2>1, <2>3, <2>4, SeqEqual
    <2> QED BY <1>4, <2>5 DEF Upto, x
  <1>9. more = SubSeq(text, m + 1, m + n)
    <2> DEFINE x == SubSeq(text, m + 1, m + n)
    <2>1. /\ x \in Seq(Alphabet) /\ Len(x) = (m + n) - m
          /\ \A i \in 1..((m + n) - m) : x[i] = text[m + i]
      BY SMTT(30), <1>4, Slice DEF Text
    <2>2. more \in Seq(Alphabet) /\ Len(more) = n
      BY DEF Text, n
    <2> HIDE DEF x
    <2>3. \A i \in 1..Len(x) : x[i] = more[i]
      BY <1>4, <1>7, <2>1
    <2>4. x = more
      BY <1>4, <2>1, <2>2, <2>3, SeqEqual
    <2> QED BY <2>4 DEF x
  <1>10. Begins(piece, text)
    BY <1>4, <1>8 DEF Begins, m
  <1> QED BY <1>2, <1>9, <1>10 DEF both, m, n

LEMMA BeginsItself ==
  ASSUME NEW text \in Text
  PROVE  Begins(text, text)
  <1>1. Len(text) \in Nat /\ SubSeq(text, 1, Len(text)) = text
    BY LenProperties, SubSeqFull DEF Text
  <1> QED BY <1>1 DEF Begins, Upto

LEMMA JoinIs ==
  ASSUME NEW deltas \in Seq(Text)
  PROVE  /\ Join(deltas) \in Text /\ Join(deltas) = JoinedTo(deltas)[Len(deltas)]
         /\ JoinedTo(deltas)[0] = <<>>
         /\ \A n \in 0..Len(deltas) : JoinedTo(deltas)[n] \in Text
         /\ \A n \in 1..Len(deltas) :
              /\ deltas[n] \in Text
              /\ JoinedTo(deltas)[n] = JoinedTo(deltas)[n - 1] \o deltas[n]
  <1>1. deltas \in Seq(Seq(Alphabet)) /\ Len(deltas) \in Nat
    BY LenProperties DEF Text
  <1>2. /\ JoinedTo(deltas) \in [0..Len(deltas) -> Seq(Alphabet)]
        /\ JoinedTo(deltas)[0] = <<>>
        /\ \A n \in 1..Len(deltas) : JoinedTo(deltas)[n] = JoinedTo(deltas)[n - 1] \o deltas[n]
    BY <1>1, JoinedToDef
  <1>3. \A n \in 1..Len(deltas) : deltas[n] \in Text
    BY ElementOfSeq
  <1> HIDE DEF Text
  <1>4. \A n \in 0..Len(deltas) : JoinedTo(deltas)[n] \in Text
    BY <1>2 DEF Text
  <1>5. Len(deltas) \in 0..Len(deltas)
    BY <1>1
  <1>6. Join(deltas) = JoinedTo(deltas)[Len(deltas)]
    BY DEF Join
  <1> QED BY <1>2, <1>3, <1>4, <1>5, <1>6

\* The deltas are the text, piece by piece.
LEMMA JoinPieces ==
  ASSUME NEW deltas \in Seq(Text)
  PROVE  /\ \A n \in 0..Len(deltas) : Begins(JoinedTo(deltas)[n], Join(deltas))
         /\ \A n \in 1..Len(deltas) :
              /\ Len(JoinedTo(deltas)[n - 1]) <= Len(JoinedTo(deltas)[n])
              /\ deltas[n] = SubSeq(Join(deltas), Len(JoinedTo(deltas)[n - 1]) + 1,
                                    Len(JoinedTo(deltas)[n]))
  <1> DEFINE N == Len(deltas)
             T == Join(deltas)
             J == JoinedTo(deltas)
             S == {k \in 0..N : Begins(J[N - k], T)}
  <1>1. N \in Nat
    BY LenProperties
  <1>2. /\ T \in Text /\ T = J[N] /\ \A n \in 0..N : J[n] \in Text
        /\ \A n \in 1..N : deltas[n] \in Text /\ J[n] = J[n - 1] \o deltas[n]
    BY JoinIs
  <1> HIDE DEF N, T, J
  <1>3. ASSUME NEW n \in 1..N, Begins(J[n], T)
        PROVE  /\ Begins(J[n - 1], T) /\ Len(J[n - 1]) <= Len(J[n])
               /\ deltas[n] = SubSeq(T, Len(J[n - 1]) + 1, Len(J[n]))
    <2>1. n - 1 \in 0..N
      BY <1>1
    <2> DEFINE a == J[n - 1]
               b == deltas[n]
    <2>2. a \in Text /\ b \in Text /\ J[n] = a \o b
      BY <1>2, <2>1
    <2>3. Len(a) \in Nat /\ Len(b) \in Nat
      BY <2>2, LenProperties DEF Text
    <2> HIDE DEF a, b
    <2>4. Begins(a \o b, T)
      BY <1>3, <2>2
    <2>5. /\ Begins(a, T) /\ Len(a \o b) = Len(a) + Len(b)
          /\ b = SubSeq(T, Len(a) + 1, Len(a \o b))
      BY <1>2, <2>2, <2>4, BeginsConcat
    <2>6. Len(a) <= Len(a \o b)
      BY <2>3, <2>5
    <2> QED BY <2>2, <2>5, <2>6 DEF a, b
  <1>4. 0 \in S
    <2>1. N - 0 = N /\ 0 \in 0..N
      BY <1>1
    <2> QED BY <1>2, <2>1, BeginsItself
  <1>5. ASSUME NEW k \in 1..N, k - 1 \in S
        PROVE  k \in S
    <2> DEFINE n == N - (k - 1)
    <2>1. n \in 1..N /\ n - 1 = N - k /\ k \in 0..N
      BY <1>1
    <2>2. Begins(J[n], T)
      BY <1>5
    <2> HIDE DEF n
    <2>3. Begins(J[n - 1], T)
      BY <1>3, <2>1, <2>2
    <2> QED BY <2>1, <2>3
  <1> HIDE DEF S
  <1>6. \A k \in 0..N : k \in S
    BY <1>1, <1>4, <1>5, UpTo
  <1>7. ASSUME NEW n \in 0..N
        PROVE  Begins(J[n], T)
    <2>1. N - n \in 0..N /\ N - (N - n) = n
      BY <1>1
    <2>2. N - n \in S
      BY <1>6, <2>1
    <2> QED BY <2>1, <2>2 DEF S
  <1>8. \A n \in 1..N : n \in 0..N
    BY <1>1
  <1> QED BY <1>3, <1>7, <1>8 DEF N, T, J

\* The splitter after each delta: nothing of what came is lost, and what is
\* not pending is shown as it reads.
LEMMA FedAt ==
  ASSUME NEW deltas \in Seq(Text), NEW n \in 0..Len(deltas)
  PROVE  LET p == Len(JoinedTo(deltas)[n])
             s == FedTo(deltas)[n]
         IN  /\ p \in 0..Len(Join(deltas)) /\ s \in Splitters /\ Settled(s)
             /\ \E c \in 0..p : At(Join(deltas), c, p, s)
  <1> DEFINE N == Len(deltas)
             T == Join(deltas)
             J == JoinedTo(deltas)
             fed == FedTo(deltas)
             Good(k) == Settled(fed[k]) /\ \E c \in 0..Len(J[k]) : At(T, c, Len(J[k]), fed[k])
             S == {k \in 0..N : Good(k)}
  <1>1. N \in Nat
    BY LenProperties
  <1>2. /\ T \in Text /\ J[0] = <<>> /\ \A k \in 0..N : J[k] \in Text
        /\ \A k \in 1..N : deltas[k] \in Text
    BY JoinIs
  <1>3. /\ \A k \in 0..N : Begins(J[k], T)
        /\ \A k \in 1..N : /\ Len(J[k - 1]) <= Len(J[k])
                           /\ deltas[k] = SubSeq(T, Len(J[k - 1]) + 1, Len(J[k]))
    BY JoinPieces
  <1>4. /\ fed \in [0..N -> Splitters] /\ fed[0] = NewSplitter
        /\ \A k \in 1..N : fed[k] = Feed(fed[k - 1], deltas[k])
    BY FedToDef
  <1>5. Len(T) \in Nat
    BY <1>2, LenProperties DEF Text
  <1> HIDE DEF N, T, J, fed
  <1>6. \A k \in 0..N : Len(J[k]) \in 0..Len(T)
    <2>1. ASSUME NEW k \in 0..N
          PROVE  Len(J[k]) \in 0..Len(T)
      <3>1. Len(J[k]) \in Nat
        BY <1>2, LenProperties DEF Text
      <3>2. Len(J[k]) <= Len(T)
        BY <1>3 DEF Begins
      <3> QED BY <1>5, <3>1, <3>2
    <2> QED BY <2>1
  <1>7. 0 \in S
    <2>1. Len(J[0]) = 0 /\ Len(<<>>) = 0
      BY <1>2, EmptySeq
    <2>2. SubSeq(T, 0 + 1, 0) = <<>>
      BY <1>2, <1>5, NoSlice DEF Text
    <2>3. ReadTo(T)[0] = Unread
      BY <1>2, ReadToDef
    <2>4. At(T, 0, 0, NewSplitter)
      BY <2>2, <2>3 DEF At, NewSplitter, Unread
    <2>5. Settled(NewSplitter)
      BY <2>1 DEF Settled, Quiet, NewSplitter
    <2> QED BY <1>1, <1>4, <2>1, <2>4, <2>5
  <1>8. ASSUME NEW k \in 1..N, k - 1 \in S
        PROVE  k \in S
    <2> DEFINE s == fed[k - 1]
               p == Len(J[k - 1])
               m == Len(J[k])
               delta == deltas[k]
               pending == s.pending \o delta
               more == [s EXCEPT !.pending = pending]
    <2>1. k - 1 \in 0..N /\ k \in 0..N
      BY <1>1
    <2>2. s \in Splitters /\ fed[k] = Feed(s, delta) /\ delta \in Text
      BY <1>2, <1>4, <2>1
    <2>3. p \in 0..Len(T) /\ m \in 0..Len(T) /\ p <= m /\ delta = SubSeq(T, p + 1, m)
      BY <1>3, <1>6, <2>1
    <2>4. PICK c \in 0..p : At(T, c, p, s)
      BY <1>8
    <2>5. more \in Splitters
      BY <2>2, FeedType
    <2> HIDE DEF s, p, m, delta
    <2>6. pending = SubSeq(T, c + 1, m)
      <3>1. s.pending = SubSeq(T, c + 1, p)
        BY <2>4 DEF At
      <3>2. c \in Nat /\ p \in c..Len(T) /\ m \in p..Len(T)
        BY <1>5, <2>3
      <3>3. SubSeq(T, c + 1, p) \o SubSeq(T, p + 1, m) = SubSeq(T, c + 1, m)
        BY <1>2, <3>2, Adjacent DEF Text
      <3> QED BY <2>3, <3>1, <3>3
    <2> HIDE DEF pending
    <2>7. At(T, c, m, more)
      <3>1. /\ more.pending = pending /\ more.reasoning = s.reasoning /\ more.orphan = s.orphan
            /\ more.shown = s.shown
        BY <2>2 DEF Splitters
      <3> HIDE DEF more
      <3> QED BY <2>4, <2>6, <3>1 DEF At
    <2>8. c \in 0..m
      BY <1>5, <2>3
    <2> HIDE DEF more
    <2>9. Settled(Scan(more)) /\ \E d \in 0..m : At(T, d, m, Scan(more))
      BY <1>2, <2>3, <2>5, <2>7, <2>8, ScanIs
    <2>10. fed[k] = Scan(more)
      BY <2>2 DEF Feed, more, pending
    <2> QED BY <2>1, <2>9, <2>10 DEF m
  <1> HIDE DEF S
  <1>9. n \in S
    <2>1. n \in 0..N /\ \A k \in 0..N : k \in S
      BY <1>1, <1>7, <1>8, UpTo DEF N
    <2> QED BY <2>1
  <1>10. n \in 0..N
    BY DEF N
  <1>11. Good(n)
    BY <1>9 DEF S
  <1>12. fed[n] \in Splitters /\ Len(J[n]) \in 0..Len(T)
    BY <1>4, <1>6, <1>10
  <1> QED BY <1>11, <1>12 DEF T, J, fed

\* The text that came was read to its end.
LEMMA SplitReads ==
  ASSUME NEW deltas \in Seq(Text)
  PROVE  /\ Split(deltas).shown = Reading(Join(deltas)).shown
         /\ Split(deltas).orphan <=> Reading(Join(deltas)).orphans > 0
  <1> DEFINE N == Len(deltas)
             T == Join(deltas)
             s == FedTo(deltas)[N]
             p == Len(T)
  <1>1. N \in Nat /\ N \in 0..N
    BY LenProperties
  <1>2. T \in Text /\ T = JoinedTo(deltas)[N]
    BY JoinIs
  <1>3. p \in Nat /\ p \in 0..Len(T)
    BY <1>2, LenProperties DEF Text
  <1>4. s \in Splitters /\ Settled(s) /\ \E c \in 0..p : At(T, c, p, s)
    BY <1>1, <1>2, FedAt
  <1>5. PICK c \in 0..p : At(T, c, p, s)
    BY <1>4
  <1>6. Split(deltas) = Emit(s, Len(s.pending))
    BY DEF Split, Finalize
  <1> HIDE DEF N, T, s
  <1>7. Len(s.pending) = p - c
    BY <1>2, <1>3, <1>4, <1>5, PendingIs
  <1>8. Quiet(T, s.reasoning, c, c + (p - c))
    <2>1. Quiet(s.pending, s.reasoning, 0, p - c)
      BY <1>4, <1>7 DEF Settled
    <2>2. \A i \in 1..(p - c) : \A tag \in Tags :
            c + i + Len(tag) - 1 > p => ~Occurs(T, tag, c + i)
      BY DEF Occurs
    <2>3. p - c \in 0..(p - c)
      BY <1>3
    <2> HIDE DEF p
    <2> QED BY <1>2, <1>3, <1>4, <1>5, <2>1, <2>2, <2>3, TwoTags, QuietPiece
  <1>9. At(T, c + (p - c), p, Emit(s, p - c))
    <2>1. p - c \in 0..(p - c)
      BY <1>3
    <2> HIDE DEF p
    <2> QED BY <1>2, <1>3, <1>4, <1>5, <1>8, <2>1, EmitAt
  <1>10. c + (p - c) = p
    BY SMTT(30), <1>3
  <1>11. At(T, p, p, Split(deltas))
    BY ZenonT(60), <1>6, <1>7, <1>9, <1>10
  <1> QED BY <1>11 DEF At, Reading, T, p

LEMMA NothingTakenBack ==
  ASSUME NEW deltas \in Seq(Text), NEW n \in 0..Len(deltas)
  PROVE  LET shown == FedTo(deltas)[n].shown
             all == Reading(Join(deltas)).shown
         IN  Len(shown) <= Len(all) /\ shown = Upto(all, Len(shown))
  <1> DEFINE T == Join(deltas)
             p == Len(JoinedTo(deltas)[n])
             s == FedTo(deltas)[n]
  <1>1. T \in Text
    BY JoinIs
  <1>2. p \in 0..Len(T) /\ \E c \in 0..p : At(T, c, p, s)
    BY FedAt
  <1>3. PICK c \in 0..p : At(T, c, p, s)
    BY <1>2
  <1> HIDE DEF T, p, s
  <1>4. Len(T) \in Nat
    BY <1>1, LenProperties DEF Text
  <1>5. c \in 0..Len(T) /\ Len(T) \in c..Len(T)
    BY <1>2, <1>4
  <1>6. Beyond(ReadTo(T)[Len(T)], ReadTo(T)[c])
    BY <1>1, <1>5, Grows
  <1>7. s.shown = ReadTo(T)[c].shown
    BY <1>3 DEF At
  <1> QED BY <1>6, <1>7 DEF Beyond, Reading, T, s

-----------------------------------------------------------------------------
(* The complete text                                                        *)

\* What clean_response leaves of the text up to here.
Kept(r) == IF r.orphans = 0 THEN r.said ELSE (r.before \o CloseTag) \o r.said

\* Is the answer going on, between two characters?
Answering(r) == r.skip = 0 /\ ~r.reasoning

LEMMA NoneBefore ==
  ASSUME NEW text \in Text, NEW n \in 0..Len(text), ReadTo(text)[n].orphans = 0
  PROVE  ReadTo(text)[n].before = <<>>
  <1> DEFINE R == ReadTo(text)
             S == {k \in 0..Len(text) : R[k].orphans = 0 => R[k].before = <<>>}
  <1>1. Len(text) \in Nat
    BY LenProperties DEF Text
  <1>2. /\ R \in [0..Len(text) -> Readings] /\ R[0] = Unread
        /\ \A i \in 1..Len(text) : R[i] = Read(R[i - 1], text, i)
    BY ReadToDef
  <1> HIDE DEF R
  <1>3. 0 \in S
    BY <1>1, <1>2 DEF Unread
  <1>4. ASSUME NEW k \in 1..Len(text), k - 1 \in S
        PROVE  k \in S
    <2>1. k \in 0..Len(text) /\ k - 1 \in 0..Len(text)
      BY <1>1
    <2>2. R[k - 1] \in Readings /\ R[k] = Read(R[k - 1], text, k)
      BY <1>2, <2>1
    <2>3. R[k].orphans = 0 => R[k - 1].orphans = 0 /\ R[k].before = R[k - 1].before
      BY <2>2, ReadGrows
    <2> QED BY <1>4, <2>1, <2>3
  <1> HIDE DEF S
  <1>5. n \in S
    <2>1. \A k \in 0..Len(text) : k \in S
      BY <1>1, <1>3, <1>4, UpTo
    <2> QED BY <2>1
  <1> QED BY <1>5 DEF S, R

LEMMA KeptIsText ==
  ASSUME NEW text \in Text, NEW n \in 0..Len(text)
  PROVE  Kept(ReadTo(text)[n]) \in Text
  <1> DEFINE r == ReadTo(text)[n]
  <1>1. r.before \in Text /\ r.said \in Text
    BY ReadingAt
  <1>2. CloseTag \in Text
    BY TwoTags, TagFacts
  <1> HIDE DEF r
  <1>3. r.before \o CloseTag \in Text
    BY <1>1, <1>2, ConcatProperties DEF Text
  <1>4. (r.before \o CloseTag) \o r.said \in Text
    BY <1>1, <1>3, ConcatProperties DEF Text
  <1> QED BY <1>1, <1>4 DEF Kept, r

LEMMA TextConcat ==
  ASSUME NEW a \in Text, NEW b \in Text, NEW c \in Text
  PROVE  a \o b \in Text /\ (a \o b) \o c = a \o (b \o c) /\ a \o <<>> = a /\ <<>> \o a = a
  <1>1. a \in Seq(Alphabet) /\ b \in Seq(Alphabet) /\ c \in Seq(Alphabet)
    BY DEF Text
  <1>2. a \o b \in Text
    BY <1>1, ConcatProperties DEF Text
  <1> QED BY <1>1, <1>2, ConcatAssociative, ConcatEmptySeq

LEMMA TextAssoc ==
  ASSUME NEW a \in Text, NEW b \in Text, NEW c \in Text
  PROVE  (a \o b) \o c = a \o (b \o c)
  <1>1. a \in Seq(Alphabet) /\ b \in Seq(Alphabet) /\ c \in Seq(Alphabet)
    BY DEF Text
  <1> QED BY <1>1, ConcatAssociative

\* What was kept so far, and then two pieces that follow one another.
LEMMA Onward ==
  ASSUME NEW text \in Text, NEW kept \in Text, NEW n \in Nat, NEW p \in n..Len(text),
         NEW m \in p..Len(text)
  PROVE  (kept \o SubSeq(text, n + 1, p)) \o SubSeq(text, p + 1, m) = kept \o SubSeq(text, n + 1, m)
  <1>1. Len(text) \in Nat /\ p \in Nat
    BY LenProperties DEF Text
  <1>2. SubSeq(text, n + 1, p) \in Text
    BY <1>1, Slice DEF Text
  <1>3. SubSeq(text, p + 1, m) \in Text
    BY <1>1, Slice DEF Text
  <1>4. SubSeq(text, n + 1, p) \o SubSeq(text, p + 1, m) = SubSeq(text, n + 1, m)
    BY <1>1, Adjacent DEF Text
  <1> DEFINE a == SubSeq(text, n + 1, p)
             b == SubSeq(text, p + 1, m)
  <1>5. a \in Text /\ b \in Text /\ a \o b = SubSeq(text, n + 1, m)
    BY <1>2, <1>3, <1>4
  <1> HIDE DEF a, b
  <1>6. (kept \o a) \o b = kept \o (a \o b)
    BY <1>5, TextAssoc
  <1> QED BY <1>5, <1>6 DEF a, b

LEMMA TagIsSlice ==
  ASSUME NEW text \in Text, NEW tag \in Tags, NEW n \in Nat, Occurs(text, tag, n + 1)
  PROVE  n + Len(tag) <= Len(text) /\ SubSeq(text, n + 1, n + Len(tag)) = tag
  <1> DEFINE m == n + Len(tag)
             x == SubSeq(text, n + 1, m)
  <1>1. Len(text) \in Nat /\ Len(tag) \in Nat /\ tag \in Seq(Alphabet)
    BY LenProperties, TagFacts DEF Text
  <1>2. m \in n..Len(text) /\ m - n = Len(tag)
    BY <1>1 DEF Occurs
  <1>3. \A i \in 1..Len(tag) : text[n + 1 + i - 1] = tag[i]
    BY DEF Occurs
  <1> HIDE DEF m
  <1>4. x \in Seq(Alphabet) /\ Len(x) = m - n /\ \A i \in 1..(m - n) : x[i] = text[n + i]
    BY <1>1, <1>2, Slice DEF Text
  <1> HIDE DEF x
  <1>5. \A i \in 1..Len(tag) : n + 1 + i - 1 = n + i
    BY <1>1
  <1>6. x = tag
    BY <1>1, <1>2, <1>3, <1>4, <1>5, SeqEqual
  <1> QED BY <1>2, <1>6 DEF m, x

\* A piece of the answer in which nothing is a tag is kept,
LEMMA QuietAnswer ==
  ASSUME NEW text \in Text, NEW n \in 0..Len(text), NEW m \in n..Len(text),
         Answering(ReadTo(text)[n]), Quiet(text, FALSE, n, m)
  PROVE  /\ Answering(ReadTo(text)[m])
         /\ ReadTo(text)[m].orphans = ReadTo(text)[n].orphans
         /\ Kept(ReadTo(text)[m]) = Kept(ReadTo(text)[n]) \o SubSeq(text, n + 1, m)
  <1> DEFINE r == ReadTo(text)[n]
             q == ReadTo(text)[m]
             piece == SubSeq(text, n + 1, m)
  <1>1. Len(text) \in Nat /\ n \in Nat /\ m \in 0..Len(text)
    BY LenProperties DEF Text
  <1>2. r.skip = 0 /\ ~r.reasoning /\ r.reasoning \in BOOLEAN /\ r.said \in Text /\ r.before \in Text
    BY ReadingAt DEF Answering
  <1>3. piece \in Text
    BY <1>1, Slice DEF Text
  <1>4. Advanced(q, r, piece)
    <2>1. Quiet(text, r.reasoning, n, m)
      BY <1>2 DEF Quiet
    <2> QED BY <1>1, <1>2, <2>1, ReadPiece
  <1> HIDE DEF r, q, piece
  <1>5. /\ q.skip = 0 /\ q.reasoning = r.reasoning /\ q.orphans = r.orphans
        /\ q.before = r.before /\ q.said = r.said \o piece
    BY <1>2, <1>4 DEF Advanced
  <1>6. CloseTag \in Text
    BY TwoTags, TagFacts
  <1>7. r.before \o CloseTag \in Text
    BY <1>2, <1>6, TextConcat
  <1>8. ((r.before \o CloseTag) \o r.said) \o piece = (r.before \o CloseTag) \o (r.said \o piece)
    <2> DEFINE head == r.before \o CloseTag
               said == r.said
    <2>1. head \in Text /\ said \in Text /\ piece \in Text
      BY <1>2, <1>3, <1>7
    <2> HIDE DEF head, said
    <2>2. (head \o said) \o piece = head \o (said \o piece)
      BY ZenonT(60), <2>1, TextAssoc
    <2> QED BY <2>2 DEF head, said
  <1>9. Kept(q) = Kept(r) \o piece
    BY <1>5, <1>8 DEF Kept
  <1>10. Answering(q) /\ q.orphans = r.orphans
    BY <1>2, <1>5 DEF Answering
  <1> QED BY <1>9, <1>10 DEF q, r, piece

\* and so is the first closer that is orphaned.
LEMMA OrphanAnswer ==
  ASSUME NEW text \in Text, NEW n \in 0..Len(text), Answering(ReadTo(text)[n]),
         Occurs(text, CloseTag, n + 1)
  PROVE  /\ n + Len(CloseTag) \in n..Len(text) /\ Answering(ReadTo(text)[n + Len(CloseTag)])
         /\ ReadTo(text)[n + Len(CloseTag)].orphans = ReadTo(text)[n].orphans + 1
         /\ ReadTo(text)[n].orphans = 0 =>
              Kept(ReadTo(text)[n + Len(CloseTag)])
                = Kept(ReadTo(text)[n]) \o SubSeq(text, n + 1, n + Len(CloseTag))
  <1> DEFINE r == ReadTo(text)[n]
             q == ReadTo(text)[n + Len(CloseTag)]
  <1>1. Len(text) \in Nat /\ n \in Nat /\ OpenTag # CloseTag
    BY LenProperties, TagsAssumption DEF Text
  <1>2. r.skip = 0 /\ ~r.reasoning /\ r.said \in Text /\ r.orphans \in Nat
    BY ReadingAt DEF Answering
  <1>3. n + Len(CloseTag) \in n + 1..Len(text) /\ Turned(q, r, CloseTag)
    BY <1>2, TwoTags, PassTag
  <1>4. r.orphans = 0 => r.before = <<>>
    BY NoneBefore
  <1>5. SubSeq(text, n + 1, n + Len(CloseTag)) = CloseTag
    BY <1>1, TwoTags, TagIsSlice
  <1> HIDE DEF r, q
  <1>6. /\ q.skip = 0 /\ (q.reasoning <=> CloseTag = OpenTag) /\ q.orphans = r.orphans + 1
        /\ q.before = r.before \o r.said /\ q.said = <<>>
    BY <1>2, <1>3 DEF Turned
  <1>7. Answering(q)
    BY <1>1, <1>6 DEF Answering
  <1>8. ASSUME r.orphans = 0
        PROVE  Kept(q) = Kept(r) \o CloseTag
    <2>1. CloseTag \in Text
      BY TwoTags, TagFacts
    <2>2. <<>> \o r.said = r.said /\ r.said \o CloseTag \in Text
      BY <1>2, <2>1, TextConcat
    <2>3. (r.said \o CloseTag) \o <<>> = r.said \o CloseTag
      BY <2>2, TextConcat
    <2>4. q.orphans # 0
      BY <1>2, <1>6
    <2> QED BY <1>4, <1>6, <1>8, <2>2, <2>3, <2>4 DEF Kept
  <1>9. n + Len(CloseTag) \in n..Len(text)
    BY <1>1, <1>3
  <1> QED BY <1>5, <1>6, <1>7, <1>8, <1>9 DEF r, q

\* The answer between two blocks: all of it is kept, up to the second closer
\* that is orphaned.
LEMMA ReadAnswer ==
  ASSUME NEW text \in Text, NEW n \in 0..Len(text), NEW m \in n..Len(text),
         Answering(ReadTo(text)[n]), ReadTo(text)[m].orphans <= 1,
         \A i \in n + 1..m : ~Occurs(text, OpenTag, i),
         \A i \in n + 1..m : Occurs(text, CloseTag, i) => i + Len(CloseTag) - 1 <= m
  PROVE  /\ Answering(ReadTo(text)[m])
         /\ Kept(ReadTo(text)[m]) = Kept(ReadTo(text)[n]) \o SubSeq(text, n + 1, m)
  <1> DEFINE R == ReadTo(text)
             close == FindAfter(text, CloseTag, n)
             p == close - 1
             e == p + Len(CloseTag)
  <1>1. Len(text) \in Nat /\ n \in Nat /\ m \in Nat /\ m \in 0..Len(text)
        /\ Len(CloseTag) \in Nat \ {0}
    BY LenProperties, TwoTags, TagFacts DEF Text
  <1>2. \/ close = 0 /\ \A j \in n + 1..Len(text) : ~Occurs(text, CloseTag, j)
        \/ /\ close \in n + 1..Len(text) /\ Occurs(text, CloseTag, close)
           /\ \A j \in n + 1..(close - 1) : ~Occurs(text, CloseTag, j)
    BY <1>1, Found
  <1>3. Answering(R[n]) /\ R[m].orphans <= 1 /\ Kept(R[n]) \in Text
    BY KeptIsText
  <1>4. \A k \in 0..Len(text) : R[k].orphans \in Nat
    BY ReadingAt
  <1>5. \A j \in 0..Len(text), k \in 0..Len(text) : j <= k => R[j].orphans <= R[k].orphans
    <2>1. ASSUME NEW j \in 0..Len(text), NEW k \in 0..Len(text), j <= k
          PROVE  R[j].orphans <= R[k].orphans
      <3>1. k \in j..Len(text)
        BY <1>1, <2>1
      <3>2. Beyond(R[k], R[j])
        BY <3>1, Grows
      <3> QED BY <3>2 DEF Beyond
    <2> QED BY <2>1
  <1> HIDE DEF close
  <1>6. CASE close = 0 \/ close > m
    <2>1. Quiet(text, FALSE, n, m)
      <3>1. ASSUME NEW i \in n + 1..m
            PROVE  ~Occurs(text, CloseTag, i) /\ ~Occurs(text, OpenTag, i)
        <4>1. i \in n + 1..Len(text) /\ (close > m => i \in n + 1..(close - 1))
          BY <1>1, <1>2
        <4> QED BY <1>2, <1>6, <4>1
      <3> QED BY <3>1 DEF Quiet
    <2> QED BY <2>1, QuietAnswer
  <1>7. CASE close # 0 /\ close <= m
    <2>1. close \in n + 1..m /\ Occurs(text, CloseTag, close)
          /\ \A j \in n + 1..(close - 1) : ~Occurs(text, CloseTag, j)
      BY <1>1, <1>2, <1>7
    <2>2. close + Len(CloseTag) - 1 <= m
      BY <2>1
    <2>3. /\ p \in Nat /\ p \in n..m /\ p + 1 = close /\ p \in 0..Len(text) /\ p \in n..Len(text)
          /\ e \in Nat /\ e \in p..m /\ e \in 0..Len(text) /\ e <= m
          /\ e \in p..Len(text) /\ m \in e..Len(text) /\ e = p + Len(CloseTag)
      BY <1>1, <2>1, <2>2
    <2> HIDE DEF p, e
    <2>4. /\ Answering(R[p]) /\ R[p].orphans = R[n].orphans
          /\ Kept(R[p]) = Kept(R[n]) \o SubSeq(text, n + 1, p)
      <3>1. Quiet(text, FALSE, n, p)
        <4>1. \A i \in n + 1..p : i \in n + 1..m /\ i \in n + 1..(close - 1)
          BY <1>1, <2>3
        <4> QED BY <2>1, <4>1 DEF Quiet
      <3> QED BY <1>3, <2>3, <3>1, QuietAnswer
    <2>5. /\ Answering(R[e]) /\ R[e].orphans = R[p].orphans + 1
          /\ R[p].orphans = 0 => Kept(R[e]) = Kept(R[p]) \o SubSeq(text, p + 1, e)
      BY <2>1, <2>3, <2>4, OrphanAnswer
    <2>6. R[p].orphans = 0
      <3>1. R[e].orphans <= R[m].orphans
        BY <1>1, <1>5, <2>3
      <3>2. R[p].orphans \in Nat /\ R[e].orphans \in Nat /\ R[m].orphans \in Nat
        BY <1>1, <1>4, <2>3
      <3> QED BY SMTT(30), <1>3, <2>5, <3>1, <3>2
    <2>7. Quiet(text, FALSE, e, m)
      <3> DEFINE again == FindAfter(text, CloseTag, e)
                 g == again - 1
      <3>1. \/ again = 0 /\ \A j \in e + 1..Len(text) : ~Occurs(text, CloseTag, j)
            \/ /\ again \in e + 1..Len(text) /\ Occurs(text, CloseTag, again)
               /\ \A j \in e + 1..(again - 1) : ~Occurs(text, CloseTag, j)
        BY <2>3, Found
      <3> HIDE DEF again
      <3>2. CASE again = 0 \/ again > m
        <4>1. ASSUME NEW i \in e + 1..m
              PROVE  ~Occurs(text, CloseTag, i) /\ ~Occurs(text, OpenTag, i)
          <5>1. i \in e + 1..Len(text) /\ (again > m => i \in e + 1..(again - 1)) /\ i \in n + 1..m
            BY <1>1, <2>3, <3>1
          <5>2. ~Occurs(text, OpenTag, i)
            BY <5>1
          <5>3. ~Occurs(text, CloseTag, i)
            <6>1. CASE again = 0
              BY <1>1, <2>3, <3>1, <5>1, <6>1
            <6>2. CASE again > m
              <7>1. i \in e + 1..(again - 1)
                BY <5>1, <6>2
              <7>2. again \in e + 1..Len(text)
                BY <1>1, <3>1, <6>2
              <7> QED BY <3>1, <7>1, <7>2, <1>1
            <6> QED BY <3>2, <6>1, <6>2
          <5> QED BY <5>2, <5>3
        <4> QED BY <4>1 DEF Quiet
      <3>3. CASE again # 0 /\ again <= m
        <4>1. again \in e + 1..m /\ Occurs(text, CloseTag, again)
              /\ \A j \in e + 1..(again - 1) : ~Occurs(text, CloseTag, j)
          BY <1>1, <2>3, <3>1, <3>3
        <4>2. again \in n + 1..m
          BY <1>1, <2>3, <4>1
        <4>3. again + Len(CloseTag) - 1 <= m
          BY <4>1, <4>2
        <4>4. g \in e..Len(text) /\ g + 1 = again /\ g \in 0..Len(text) /\ g + Len(CloseTag) <= m
              /\ g + Len(CloseTag) \in 0..Len(text) /\ g \in 0..m
          BY <1>1, <2>3, <4>1, <4>3
        <4> HIDE DEF g
        <4>5. Quiet(text, FALSE, e, g)
          <5>1. \A i \in e + 1..g : i \in n + 1..m /\ i \in e + 1..(again - 1)
            BY <1>1, <2>3, <4>4
          <5> QED BY <4>1, <5>1 DEF Quiet
        <4>6. Answering(R[g]) /\ R[g].orphans = R[e].orphans
          BY <2>3, <2>5, <4>4, <4>5, QuietAnswer
        <4>7. R[g + Len(CloseTag)].orphans = R[g].orphans + 1
          BY <4>1, <4>4, <4>6, OrphanAnswer
        <4>8. R[g + Len(CloseTag)].orphans <= R[m].orphans /\ R[m].orphans \in Nat
              /\ R[g + Len(CloseTag)].orphans \in Nat
          BY <1>1, <1>4, <1>5, <4>4
        <4> QED BY <1>3, <2>5, <2>6, <4>6, <4>7, <4>8
      <3>4. again \in Nat
        BY <1>1, <2>3, <3>1
      <3>5. (again = 0 \/ again > m) \/ (again # 0 /\ again <= m)
        BY <1>1, <3>4
      <3> QED BY <3>2, <3>3, <3>5, Zenon
    <2>8. Answering(R[m]) /\ Kept(R[m]) = Kept(R[e]) \o SubSeq(text, e + 1, m)
      BY <2>3, <2>5, <2>7, QuietAnswer
    <2>9. Kept(R[e]) = Kept(R[n]) \o SubSeq(text, n + 1, e)
      <3>1. (Kept(R[n]) \o SubSeq(text, n + 1, p)) \o SubSeq(text, p + 1, e)
              = Kept(R[n]) \o SubSeq(text, n + 1, e)
        BY ZenonT(60), <1>1, <1>3, <2>3, Onward
      <3> QED BY <2>4, <2>5, <2>6, <3>1
    <2>10. Kept(R[m]) = Kept(R[n]) \o SubSeq(text, n + 1, m)
      <3>1. e \in n..Len(text)
        BY <1>1, <2>3
      <3>2. (Kept(R[n]) \o SubSeq(text, n + 1, e)) \o SubSeq(text, e + 1, m)
              = Kept(R[n]) \o SubSeq(text, n + 1, m)
        BY ZenonT(60), <1>1, <1>3, <2>3, <3>1, Onward
      <3> QED BY <2>8, <2>9, <3>2
    <2> QED BY <2>8, <2>10
  <1>8. close \in Nat
    BY <1>1, <1>2
  <1> QED BY SMTT(30), <1>1, <1>6, <1>7, <1>8


\* A block is passed over, and leaves the answer as it was;
LEMMA ReadBlock ==
  ASSUME NEW text \in Text, NEW n \in 0..Len(text), Answering(ReadTo(text)[n]),
         Occurs(text, OpenTag, n + 1), NEW m \in Nat, n + Len(OpenTag) <= m,
         Occurs(text, CloseTag, m + 1),
         \A i \in (n + Len(OpenTag)) + 1..m : ~Occurs(text, CloseTag, i)
  PROVE  /\ m + Len(CloseTag) \in m + 1..Len(text)
         /\ Answering(ReadTo(text)[m + Len(CloseTag)])
         /\ Kept(ReadTo(text)[m + Len(CloseTag)]) = Kept(ReadTo(text)[n])
  <1> DEFINE e == n + Len(OpenTag)
             r == ReadTo(text)[n]
             q == ReadTo(text)[e]
             v == ReadTo(text)[m]
             w == ReadTo(text)[m + Len(CloseTag)]
             piece == SubSeq(text, e + 1, m)
  <1>1. Len(text) \in Nat /\ n \in Nat /\ OpenTag # CloseTag /\ Len(CloseTag) \in Nat \ {0}
    BY LenProperties, TagsAssumption, TwoTags, TagFacts DEF Text
  <1>2. r.skip = 0 /\ ~r.reasoning
    BY DEF Answering
  <1>3. e \in n + 1..Len(text) /\ Turned(q, r, OpenTag)
    BY <1>2, TwoTags, PassTag
  <1>4. m \in 0..Len(text) /\ m \in e..Len(text)
    <2>1. m + 1 + Len(CloseTag) - 1 <= Len(text)
      BY DEF Occurs
    <2> HIDE DEF q, r
    <2> QED BY <1>1, <1>3, <2>1
  <1>5. q.skip = 0 /\ q.reasoning /\ q.orphans = r.orphans /\ q.before = r.before /\ q.said = r.said
    <2> HIDE DEF q, r
    <2> QED BY <1>1, <1>3 DEF Turned
  <1>6. Advanced(v, q, piece)
    <2>1. Quiet(text, q.reasoning, e, m)
      <3> HIDE DEF q
      <3> QED BY <1>5 DEF Quiet
    <2>2. e \in Nat
      BY <1>1, <1>3
    <2> HIDE DEF e
    <2> QED BY <1>4, <1>5, <2>1, <2>2, ReadPiece
  <1>7. /\ v.skip = 0 /\ v.reasoning /\ v.orphans = r.orphans /\ v.before = r.before
        /\ v.said = r.said
    <2> HIDE DEF q, r, v
    <2> QED BY <1>5, <1>6 DEF Advanced
  <1>8. m + Len(CloseTag) \in m + 1..Len(text) /\ Turned(w, v, CloseTag)
    BY <1>4, <1>7, TwoTags, PassTag
  <1> HIDE DEF r, v, w
  <1>9. /\ w.skip = 0 /\ ~w.reasoning /\ w.orphans = r.orphans /\ w.before = r.before
        /\ w.said = r.said
    BY <1>1, <1>7, <1>8 DEF Turned
  <1>10. Answering(w) /\ Kept(w) = Kept(r)
    BY <1>9 DEF Answering, Kept
  <1> QED BY <1>8, <1>10 DEF w, r

\* and so does one that is never closed.
LEMMA ReadUnclosed ==
  ASSUME NEW text \in Text, NEW n \in 0..Len(text), Answering(ReadTo(text)[n]),
         Occurs(text, OpenTag, n + 1),
         \A i \in (n + Len(OpenTag)) + 1..Len(text) : ~Occurs(text, CloseTag, i)
  PROVE  /\ Reading(text).orphans = ReadTo(text)[n].orphans
         /\ Reading(text).before = ReadTo(text)[n].before
         /\ Reading(text).said = ReadTo(text)[n].said
  <1> DEFINE e == n + Len(OpenTag)
             m == Len(text)
             r == ReadTo(text)[n]
             q == ReadTo(text)[e]
             v == ReadTo(text)[m]
             piece == SubSeq(text, e + 1, m)
  <1>1. m \in Nat /\ n \in Nat /\ OpenTag # CloseTag
    BY LenProperties, TagsAssumption DEF Text
  <1>2. r.skip = 0 /\ ~r.reasoning
    BY DEF Answering
  <1>3. e \in n + 1..m /\ Turned(q, r, OpenTag)
    BY <1>2, TwoTags, PassTag
  <1>4. q.skip = 0 /\ q.reasoning /\ q.orphans = r.orphans /\ q.before = r.before /\ q.said = r.said
    <2> HIDE DEF q, r
    <2> QED BY <1>1, <1>3 DEF Turned
  <1>5. Advanced(v, q, piece)
    <2>1. Quiet(text, q.reasoning, e, m)
      <3> HIDE DEF q
      <3> QED BY <1>4 DEF Quiet
    <2>2. e \in Nat /\ m \in e..Len(text)
      <3> HIDE DEF q, r
      <3> QED BY <1>1, <1>3
    <2> HIDE DEF e, m
    <2> QED BY <1>4, <2>1, <2>2, ReadPiece
  <1> HIDE DEF q, r, v
  <1>6. v.orphans = r.orphans /\ v.before = r.before /\ v.said = r.said
    BY <1>4, <1>5 DEF Advanced
  <1> QED BY <1>6 DEF v, r, Reading

\* One substitution: the first block from `at` on, if there is one.
Removed(text) == [kept : Text, at : 0..Len(text)]

LEMMA RemoveBlockIs ==
  ASSUME NEW text \in Text, NEW r \in Removed(text)
  PROVE  LET open == FindAfter(text, OpenTag, r.at)
             e == open - 1 + Len(OpenTag)
             close == FindAfter(text, CloseTag, e)
             at == close - 1 + Len(CloseTag)
             q == RemoveBlock(r, text)
         IN  /\ q \in Removed(text)
             /\ \/ /\ q = r
                   /\ \/ \A i \in r.at + 1..Len(text) : ~Occurs(text, OpenTag, i)
                      \/ /\ open \in r.at + 1..Len(text) /\ Occurs(text, OpenTag, open)
                         /\ \A i \in r.at + 1..(open - 1) : ~Occurs(text, OpenTag, i)
                         /\ \A i \in e + 1..Len(text) : ~Occurs(text, CloseTag, i)
                \/ /\ open \in r.at + 1..Len(text) /\ Occurs(text, OpenTag, open)
                   /\ \A i \in r.at + 1..(open - 1) : ~Occurs(text, OpenTag, i)
                   /\ close \in e + 1..Len(text) /\ Occurs(text, CloseTag, close)
                   /\ \A i \in e + 1..(close - 1) : ~Occurs(text, CloseTag, i)
                   /\ q.at = at /\ at \in r.at + 1..Len(text)
                   /\ q.kept = r.kept \o SubSeq(text, r.at + 1, open - 1)
  <1> DEFINE open == FindAfter(text, OpenTag, r.at)
             e == open - 1 + Len(OpenTag)
             close == FindAfter(text, CloseTag, e)
             at == close - 1 + Len(CloseTag)
             kept == r.kept \o SubSeq(text, r.at + 1, open - 1)
             q == RemoveBlock(r, text)
  <1>1. Len(text) \in Nat /\ Len(OpenTag) \in Nat \ {0} /\ Len(CloseTag) \in Nat \ {0}
    BY LenProperties, TwoTags, TagFacts DEF Text
  <1>2. r.kept \in Text /\ r.at \in 0..Len(text) /\ r.at \in Nat
    BY <1>1 DEF Removed
  <1>3. \/ open = 0 /\ \A i \in r.at + 1..Len(text) : ~Occurs(text, OpenTag, i)
        \/ /\ open \in r.at + 1..Len(text) /\ Occurs(text, OpenTag, open)
           /\ \A i \in r.at + 1..(open - 1) : ~Occurs(text, OpenTag, i)
    BY <1>2, Found
  <1>4. q = IF (IF open = 0 THEN 0 ELSE close) = 0 THEN r ELSE [kept |-> kept, at |-> at]
    BY DEF RemoveBlock
  <1> HIDE DEF open, q
  <1>5. CASE open = 0
    <2>1. q = r
      BY <1>4, <1>5
    <2>2. \A i \in r.at + 1..Len(text) : ~Occurs(text, OpenTag, i)
      BY <1>1, <1>2, <1>3, <1>5
    <2> QED BY <2>1, <2>2 DEF open, q
  <1>6. CASE open # 0
    <2>1. /\ open \in r.at + 1..Len(text) /\ Occurs(text, OpenTag, open)
          /\ \A i \in r.at + 1..(open - 1) : ~Occurs(text, OpenTag, i)
      BY <1>3, <1>6
    <2>2. e \in Nat
      BY <1>1, <1>2, <2>1
    <2>3. \/ close = 0 /\ \A i \in e + 1..Len(text) : ~Occurs(text, CloseTag, i)
          \/ /\ close \in e + 1..Len(text) /\ Occurs(text, CloseTag, close)
             /\ \A i \in e + 1..(close - 1) : ~Occurs(text, CloseTag, i)
      BY <2>2, Found
    <2>4. q = IF close = 0 THEN r ELSE [kept |-> kept, at |-> at]
      BY <1>4, <1>6
    <2> HIDE DEF close
    <2>5. CASE close = 0
      <3>1. q = r
        BY <2>4, <2>5
      <3>2. \A i \in e + 1..Len(text) : ~Occurs(text, CloseTag, i)
        BY <1>1, <2>2, <2>3, <2>5
      <3> QED BY <2>1, <3>1, <3>2 DEF open, q
    <2>6. CASE close # 0
      <3>1. /\ close \in e + 1..Len(text) /\ Occurs(text, CloseTag, close)
            /\ \A i \in e + 1..(close - 1) : ~Occurs(text, CloseTag, i)
        BY <2>3, <2>6
      <3>2. at \in r.at + 1..Len(text) /\ at \in 0..Len(text)
        <4>1. close + Len(CloseTag) - 1 <= Len(text)
          BY <3>1 DEF Occurs
        <4>2. close \in Nat /\ open \in Nat /\ e \in Nat /\ open > r.at /\ close > e /\ e >= open
          BY <1>1, <1>2, <2>1, <3>1
        <4>3. at \in Nat /\ at >= close /\ at <= Len(text)
          <5> HIDE DEF e
          <5> QED BY <1>1, <4>1, <4>2
        <4> HIDE DEF e, at
        <4>4. r.at + 1 <= at
          BY <1>2, <4>2, <4>3
        <4> QED BY <1>1, <1>2, <4>3, <4>4
      <3>3. kept \in Text
        <4>1. open - 1 \in r.at..Len(text)
          BY <1>1, <1>2, <2>1
        <4>2. SubSeq(text, r.at + 1, open - 1) \in Text
          BY <1>2, <4>1, Slice DEF Text
        <4> QED BY <1>2, <4>2, ConcatProperties DEF Text
      <3>4. q = [kept |-> kept, at |-> at]
        BY <2>4, <2>6
      <3> HIDE DEF kept, at
      <3>5. q \in Removed(text) /\ q.at = at /\ q.kept = kept
        BY <3>2, <3>3, <3>4 DEF Removed
      <3> QED BY <2>1, <3>1, <3>2, <3>5 DEF open, q, close, kept, at
    <2> QED BY <2>5, <2>6
  <1> QED BY <1>5, <1>6

LEMMA RemovalsDef ==
  ASSUME NEW text \in Text
  PROVE  /\ Removals(text) \in [0..Len(text) -> Removed(text)]
         /\ Removals(text)[0] = [kept |-> <<>>, at |-> 0]
         /\ \A n \in 1..Len(text) : Removals(text)[n] = RemoveBlock(Removals(text)[n - 1], text)
  <1> DEFINE N == Len(text)
             C == Removed(text)
             Turn(r, n) == RemoveBlock(r, text)
             Value(f, n) == IF n = 0 THEN [kept |-> <<>>, at |-> 0] ELSE Turn(f[n - 1], n)
             Defines(f) == f = [n \in 0..N |-> Value(f, n)]
             step == [p \in C \X (1..N) |-> Turn(p[1], p[2])]
             f == Removals(text)
  <1>1. f = CHOOSE g : Defines(g)
    BY DEF Removals
  <1>2. N \in Nat
    BY LenProperties DEF Text
  <1>3. [kept |-> <<>>, at |-> 0] \in C
    <2>1. 0 \in 0..Len(text)
      BY LenProperties DEF Text
    <2> QED BY <2>1, EmptyTexts DEF Removed
  <1>4. \A r \in C, n \in 1..N : Turn(r, n) \in C
    BY RemoveBlockIs
  <1> HIDE DEF Turn
  <1>5. step \in [C \X (1..N) -> C]
    BY <1>4
  <1>6. \A r \in C, n \in 1..N : step[<<r, n>>] = Turn(r, n)
    OBVIOUS
  <1> HIDE DEF step, N, f, C
  <1>7. PICK g \in [0..N -> C] : FollowsTo(g, [kept |-> <<>>, at |-> 0], step, N)
    BY <1>2, <1>3, <1>5, FiniteRecursion
  <1>8. g[0] = [kept |-> <<>>, at |-> 0] /\ \A n \in 1..N : g[n] = Turn(g[n - 1], n)
    <2>1. \A n \in 1..N : n - 1 \in 0..N
      BY <1>2
    <2> QED BY <1>6, <1>7, <2>1 DEF FollowsTo
  <1>9. Defines(g)
    <2>1. \A n \in 0..N : n # 0 => n \in 1..N
      BY <1>2
    <2>2. \A n \in 0..N : g[n] = Value(g, n)
      BY <1>8, <2>1
    <2> HIDE DEF Value
    <2> QED BY <2>2
  <1>10. Defines(f)
    <2> HIDE DEF Defines
    <2> QED BY <1>1, <1>9
  <1>11. f[0] = [kept |-> <<>>, at |-> 0] /\ \A n \in 1..N : f[n] = Turn(f[n - 1], n)
    <2>1. \A n \in 0..N : f[n] = Value(f, n)
      <3> HIDE DEF Value
      <3> QED BY <1>10
    <2> QED BY <1>2, <2>1
  <1>12. \A n \in 0..N : f[n] \in C
    <2> DEFINE S == {n \in 0..N : f[n] \in C}
    <2>1. 0 \in S
      BY <1>2, <1>3, <1>11
    <2>2. \A n \in 1..N : n - 1 \in S => n \in S
      BY <1>2, <1>4, <1>11
    <2> HIDE DEF S
    <2>3. \A n \in 0..N : n \in S
      BY <1>2, <2>1, <2>2, UpTo
    <2> QED BY <2>3 DEF S
  <1>13. f \in [0..N -> C]
    <2>1. f = [n \in 0..N |-> Value(f, n)]
      BY <1>10
    <2> HIDE DEF Value
    <2>2. \A n \in 0..N : Value(f, n) \in C
      BY <1>12, <2>1
    <2> QED BY <2>1, <2>2
  <1> QED BY <1>11, <1>13 DEF N, f, Turn, C

Finished(r, text) == RemoveBlock(r, text) = r

\* After as many rounds as there are characters no block is left, and what
\* was kept is what the answer was up to there.
LEMMA RemovalsKeep ==
  ASSUME NEW text \in Text, Reading(text).orphans <= 1
  PROVE  LET last == Removals(text)[Len(text)]
         IN  /\ last \in Removed(text) /\ Finished(last, text)
             /\ Answering(ReadTo(text)[last.at]) /\ last.kept = Kept(ReadTo(text)[last.at])
  <1> DEFINE N == Len(text)
             R == ReadTo(text)
             sub == Removals(text)
             Good(n) == /\ Finished(sub[n], text) \/ sub[n].at >= n
                        /\ Answering(R[sub[n].at]) /\ sub[n].kept = Kept(R[sub[n].at])
             S == {n \in 0..N : Good(n)}
  <1>1. N \in Nat /\ Len(OpenTag) \in Nat \ {0} /\ Len(CloseTag) \in Nat \ {0}
    BY LenProperties, TwoTags, TagFacts DEF Text
  <1>2. /\ sub \in [0..N -> Removed(text)] /\ sub[0] = [kept |-> <<>>, at |-> 0]
        /\ \A n \in 1..N : sub[n] = RemoveBlock(sub[n - 1], text)
    BY RemovalsDef
  <1>3. R[N].orphans <= 1 /\ \A k \in 0..N : R[k].orphans \in Nat
    BY ReadingAt DEF Reading
  <1> HIDE DEF sub, R
  <1>4. 0 \in S
    <2>1. R[0] = Unread
      BY ReadToDef DEF R
    <2>2. Answering(Unread) /\ Kept(Unread) = <<>>
      BY DEF Answering, Kept, Unread
    <2>3. sub[0].at = 0 /\ sub[0].kept = <<>>
      BY <1>2
    <2> QED BY <1>1, <2>1, <2>2, <2>3
  <1>5. ASSUME NEW n \in 1..N, n - 1 \in S
        PROVE  n \in S
    <2> DEFINE r == sub[n - 1]
               q == sub[n]
               open == FindAfter(text, OpenTag, r.at)
               e == open - 1 + Len(OpenTag)
               close == FindAfter(text, CloseTag, e)
               at == close - 1 + Len(CloseTag)
    <2>1. n - 1 \in 0..N /\ n \in 0..N
      BY <1>1
    <2>2. r \in Removed(text) /\ q \in Removed(text) /\ q = RemoveBlock(r, text)
      BY <1>2, <2>1
    <2>3. /\ Finished(r, text) \/ r.at >= n - 1
          /\ Answering(R[r.at]) /\ r.kept = Kept(R[r.at])
      BY <1>5
    <2>4. \/ q = r
          \/ /\ open \in r.at + 1..N /\ Occurs(text, OpenTag, open)
             /\ \A i \in r.at + 1..(open - 1) : ~Occurs(text, OpenTag, i)
             /\ close \in e + 1..N /\ Occurs(text, CloseTag, close)
             /\ \A i \in e + 1..(close - 1) : ~Occurs(text, CloseTag, i)
             /\ q.at = at /\ at \in r.at + 1..N
             /\ q.kept = r.kept \o SubSeq(text, r.at + 1, open - 1)
      BY ZenonT(60), <2>2, RemoveBlockIs
    <2>5. r.at \in 0..N /\ r.at \in Nat
      BY <1>1, <2>2 DEF Removed
    <2> HIDE DEF r, q, open, close
    <2>6. CASE q = r
      <3>1. Finished(q, text)
        BY <2>2, <2>6 DEF Finished
      <3> QED BY <2>1, <2>3, <2>6, <3>1 DEF q
    <2>7. CASE q # r
      <3>1. /\ open \in r.at + 1..N /\ Occurs(text, OpenTag, open)
            /\ \A i \in r.at + 1..(open - 1) : ~Occurs(text, OpenTag, i)
            /\ close \in e + 1..N /\ Occurs(text, CloseTag, close)
            /\ \A i \in e + 1..(close - 1) : ~Occurs(text, CloseTag, i)
            /\ q.at = at /\ at \in r.at + 1..N
            /\ q.kept = r.kept \o SubSeq(text, r.at + 1, open - 1)
        BY <2>4, <2>7
      <3>2. ~Finished(r, text)
        BY <2>2, <2>7 DEF Finished
      <3>3. q.at >= n
        <4>1. r.at >= n - 1 /\ q.at = at /\ at \in r.at + 1..N /\ r.at \in Nat
          BY <2>3, <2>5, <3>1, <3>2
        <4> HIDE DEF at
        <4> QED BY <1>1, <4>1
      <3> DEFINE p == open - 1
                 m == close - 1
      <3>4. p \in r.at..N /\ p \in 0..N /\ p + 1 = open /\ p \in Nat
            /\ m \in Nat /\ m + 1 = close /\ p + Len(OpenTag) <= m
            /\ e = p + Len(OpenTag) /\ at = m + Len(CloseTag)
        <4>1. open \in r.at + 1..N /\ close \in e + 1..N /\ r.at \in 0..N
          BY <2>5, <3>1
        <4>2. p \in r.at..N /\ p \in 0..N /\ p + 1 = open /\ p \in Nat
          BY <1>1, <4>1
        <4>3. e = p + Len(OpenTag) /\ e \in Nat
          BY <1>1, <4>2
        <4>4. m \in Nat /\ m + 1 = close /\ e <= m
          <5> HIDE DEF e, p
          <5> QED BY <1>1, <4>1, <4>3
        <4>5. at = m + Len(CloseTag)
          BY <1>1, <4>4
        <4> HIDE DEF p, e, m, at
        <4> QED BY <4>2, <4>3, <4>4, <4>5
      <3>5. Answering(R[p]) /\ Kept(R[p]) = Kept(R[r.at]) \o SubSeq(text, r.at + 1, p)
        <4>1. \A i \in r.at + 1..p : ~Occurs(text, OpenTag, i)
          BY <3>1
        <4>2. ASSUME NEW i \in r.at + 1..p, Occurs(text, CloseTag, i)
              PROVE  i + Len(CloseTag) - 1 <= p
          <5>1. i \in Nat /\ i < open /\ open \in Nat
            BY <2>5, <3>4
          <5>2. open >= i + Len(CloseTag)
            BY <3>1, <4>2, <5>1, TwoTags, TagsApart
          <5> QED BY <1>1, <3>4, <5>1, <5>2
        <4>3. R[p].orphans <= 1
          <5>1. Beyond(R[N], R[p])
            <6>1. N \in p..Len(text) /\ p \in 0..Len(text)
              BY <1>1, <3>4
            <6> HIDE DEF p
            <6> QED BY <6>1, Grows DEF R
          <5>2. R[p].orphans \in Nat /\ R[N].orphans \in Nat
            BY <1>1, <1>3, <3>4
          <5> HIDE DEF p
          <5> QED BY <1>3, <5>1, <5>2 DEF Beyond
        <4> HIDE DEF p
        <4> QED BY <2>3, <2>5, <3>4, <4>1, <4>2, <4>3, ReadAnswer DEF R
      <3> HIDE DEF p, m, e, at
      <3>6. Answering(R[at]) /\ Kept(R[at]) = Kept(R[p])
        <4>1. \A i \in (p + Len(OpenTag)) + 1..m : ~Occurs(text, CloseTag, i)
          BY <3>1, <3>4 DEF m
        <4> QED BY ZenonT(60), <3>1, <3>4, <3>5, <4>1, ReadBlock DEF R
      <3>7. q.kept = Kept(R[q.at]) /\ Answering(R[q.at])
        BY <2>3, <3>1, <3>5, <3>6 DEF p
      <3> QED BY <2>1, <3>3, <3>7 DEF q
    <2> QED BY <2>6, <2>7
  <1> HIDE DEF S
  <1>6. N \in S
    <2>1. \A n \in 0..N : n \in S
      BY <1>1, <1>4, <1>5, UpTo
    <2> QED BY <1>1, <2>1
  <1>7. Good(N)
    BY <1>6 DEF S
  <1>8. sub[N] \in Removed(text)
    BY <1>1, <1>2
  <1>9. ASSUME sub[N].at >= N
        PROVE  Finished(sub[N], text)
    <2> DEFINE r == sub[N]
    <2>1. r.at = N /\ r.at \in Nat
      BY <1>1, <1>8, <1>9 DEF Removed
    <2> HIDE DEF r
    <2>2. RemoveBlock(r, text) = r \/ FindAfter(text, OpenTag, r.at) \in r.at + 1..Len(text)
      BY <1>8, RemoveBlockIs DEF r
    <2>3. FindAfter(text, OpenTag, r.at) \notin r.at + 1..Len(text)
      BY <1>1, <2>1
    <2> QED BY <2>2, <2>3 DEF Finished, r
  <1> QED BY <1>7, <1>8, <1>9 DEF sub, R

\* Where a tag may stand in two texts put together.
LEMMA OccursInConcat ==
  ASSUME NEW a \in Text, NEW b \in Text, NEW tag \in Tags, NEW i \in Nat \ {0}
  PROVE  /\ Occurs(a, tag, i) <=> i + Len(tag) - 1 <= Len(a) /\ Occurs(a \o b, tag, i)
         /\ Occurs(b, tag, i) <=> Occurs(a \o b, tag, Len(a) + i)
  <1> DEFINE u == a \o b
             m == Len(a)
             n == Len(u)
  <1>1. u \in Text /\ Begins(u, u)
    BY TextConcat, BeginsItself
  <1>2. m \in Nat /\ Len(b) \in Nat /\ Len(tag) \in Nat \ {0}
    BY LenProperties, TagFacts DEF Text
  <1>3. Begins(a, u) /\ n = m + Len(b) /\ b = SubSeq(u, m + 1, n)
    BY <1>1, BeginsConcat
  <1>4. a = SubSeq(u, 0 + 1, m)
    <2>1. 0 + 1 = 1
      OBVIOUS
    <2> QED BY <1>3, <2>1 DEF Begins, Upto
  <1>5. m \in 0..Len(u) /\ n \in m..Len(u) /\ 0 \in Nat /\ 0 + i = i
    BY <1>2, <1>3
  <1> HIDE DEF u, m, n
  <1>6. Occurs(SubSeq(u, 0 + 1, m), tag, i) <=> 0 + i + Len(tag) - 1 <= m /\ Occurs(u, tag, 0 + i)
    BY <1>1, <1>5, OccursInSlice
  <1>7. Occurs(SubSeq(u, m + 1, n), tag, i) <=> m + i + Len(tag) - 1 <= n /\ Occurs(u, tag, m + i)
    BY <1>1, <1>2, <1>5, OccursInSlice
  <1>8. Occurs(u, tag, m + i) => m + i + Len(tag) - 1 <= n
    BY DEF Occurs, n
  <1> QED BY <1>3, <1>4, <1>5, <1>6, <1>7, <1>8 DEF u, m

LEMMA FindNone ==
  ASSUME NEW text \in Text, NEW tag \in Tags
  PROVE  Find(text, tag) = 0 <=> \A i \in Nat \ {0} : ~Occurs(text, tag, i)
  <1> DEFINE f == FindAfter(text, tag, 0)
  <1>1. Len(text) \in Nat /\ Len(tag) \in Nat \ {0} /\ 0 + 1 = 1
    BY LenProperties, TagFacts DEF Text
  <1>2. \/ f = 0 /\ \A j \in 0 + 1..Len(text) : ~Occurs(text, tag, j)
        \/ f \in 0 + 1..Len(text) /\ Occurs(text, tag, f)
    BY Found
  <1> HIDE DEF f
  <1>3. ASSUME NEW i \in Nat \ {0}, Occurs(text, tag, i)
        PROVE  i \in 0 + 1..Len(text)
    <2>1. i + Len(tag) - 1 <= Len(text)
      BY <1>3 DEF Occurs
    <2> QED BY <1>1, <2>1
  <1>4. f = 0 <=> \A i \in Nat \ {0} : ~Occurs(text, tag, i)
    <2>1. CASE f = 0
      BY <1>1, <1>2, <1>3, <2>1
    <2>2. CASE f # 0
      <3>1. f \in Nat \ {0} /\ Occurs(text, tag, f)
        BY <1>1, <1>2, <2>2
      <3> QED BY <2>2, <3>1
    <2> QED BY <2>1, <2>2
  <1> QED BY <1>4 DEF Find, f

LEMMA FindFirst ==
  ASSUME NEW text \in Text, NEW tag \in Tags, NEW i \in Nat \ {0}, Occurs(text, tag, i),
         \A j \in 1..(i - 1) : ~Occurs(text, tag, j)
  PROVE  Find(text, tag) = i
  <1> DEFINE f == FindAfter(text, tag, 0)
  <1>1. Len(text) \in Nat /\ Len(tag) \in Nat \ {0} /\ 0 + 1 = 1
    BY LenProperties, TagFacts DEF Text
  <1>2. \/ f = 0 /\ \A j \in 0 + 1..Len(text) : ~Occurs(text, tag, j)
        \/ /\ f \in 0 + 1..Len(text) /\ Occurs(text, tag, f)
           /\ \A j \in 0 + 1..(f - 1) : ~Occurs(text, tag, j)
    BY Found
  <1> HIDE DEF f
  <1>3. i \in 1..Len(text)
    <2>1. i + Len(tag) - 1 <= Len(text)
      BY DEF Occurs
    <2> QED BY <1>1, <2>1
  <1>4. f \in Nat \ {0} /\ Occurs(text, tag, f) /\ \A j \in 1..(f - 1) : ~Occurs(text, tag, j)
    BY <1>1, <1>2, <1>3
  <1>5. ~(f < i)
    <2>1. f < i => f \in 1..(i - 1)
      BY <1>4
    <2> QED BY <1>4, <2>1
  <1>6. ~(i < f)
    <2>1. i < f => i \in 1..(f - 1)
      BY <1>4
    <2> QED BY <1>4, <2>1
  <1>7. f = i
    BY <1>4, <1>5, <1>6
  <1> QED BY <1>7 DEF Find, f

LEMMA TagIsItself ==
  ASSUME NEW tag \in Tags
  PROVE  Occurs(tag, tag, 1)
  <1>1. Len(tag) \in Nat
    BY TagFacts
  <1>2. \A j \in 1..Len(tag) : 1 + j - 1 = j
    BY <1>1
  <1>3. 1 + Len(tag) - 1 <= Len(tag)
    BY <1>1
  <1> QED BY <1>2, <1>3 DEF Occurs

LEMMA ConcatParts ==
  ASSUME NEW a \in Text, NEW b \in Text
  PROVE  /\ Len(a \o b) = Len(a) + Len(b)
         /\ Upto(a \o b, Len(a)) = a /\ After(a \o b, Len(a)) = b
  <1>1. a \o b \in Text /\ Begins(a \o b, a \o b)
    BY TextConcat, BeginsItself
  <1>2. /\ Begins(a, a \o b) /\ Len(a \o b) = Len(a) + Len(b)
        /\ b = SubSeq(a \o b, Len(a) + 1, Len(a \o b))
    BY <1>1, BeginsConcat
  <1> QED BY <1>2 DEF Begins, After

\* A closer put into a text without a tag is the only tag there is.
LEMMA AroundTag ==
  ASSUME NEW a \in Text, NEW b \in Text, Free(a \o b, Tags),
         NEW o \in Tags, NEW i \in Nat \ {0}, Occurs((a \o CloseTag) \o b, o, i)
  PROVE  o = CloseTag /\ i = Len(a) + 1
  <1> DEFINE u == (a \o CloseTag) \o b
             m == Len(a)
             k == Len(CloseTag)
  <1>1. m \in Nat /\ Len(b) \in Nat /\ k \in Nat \ {0} /\ CloseTag \in Text /\ CloseTag \in Tags
        /\ Len(o) \in Nat \ {0}
    BY LenProperties, TwoTags, TagFacts DEF Text
  <1>2. a \o CloseTag \in Text /\ CloseTag \o b \in Text /\ a \o b \in Text
    BY <1>1, TextConcat
  <1>3. u = a \o (CloseTag \o b)
    BY <1>1, TextAssoc
  <1>4. Len(a \o CloseTag) = m + k
    BY <1>1, ConcatParts
  <1>5. \A j \in Nat \ {0} : ~Occurs(a \o b, o, j)
    <2>1. Find(a \o b, o) = 0
      BY DEF Free
    <2> QED BY <1>2, <2>1, FindNone
  <1>6. Occurs(u, CloseTag, m + 1)
    <2>1. Occurs(CloseTag, CloseTag, 1)
      BY <1>1, TagIsItself
    <2>2. 1 + Len(CloseTag) - 1 <= Len(CloseTag) /\ 1 \in Nat \ {0}
      BY <1>1
    <2>3. Occurs(CloseTag \o b, CloseTag, 1)
      BY <1>1, <2>1, <2>2, OccursInConcat
    <2>4. Occurs(a \o (CloseTag \o b), CloseTag, Len(a) + 1)
      BY <1>1, <1>2, <2>2, <2>3, OccursInConcat
    <2> QED BY <1>3, <2>4
  <1>7. ~(i + Len(o) - 1 <= m)
    <2>1. ASSUME i + Len(o) - 1 <= m
          PROVE  FALSE
      <3>1. Occurs(a \o (CloseTag \o b), o, i)
        BY <1>3
      <3>2. Occurs(a, o, i)
        BY <1>2, <2>1, <3>1, OccursInConcat
      <3>3. Occurs(a \o b, o, i)
        BY <3>2, OccursInConcat
      <3> QED BY <1>5, <3>3
    <2> QED BY <2>1
  <1>8. ~(i >= m + k + 1)
    <2>1. ASSUME i >= m + k + 1
          PROVE  FALSE
      <3> DEFINE j == i - (m + k)
      <3>1. j \in Nat \ {0} /\ (m + k) + j = i /\ m + j \in Nat \ {0}
        BY <1>1, <2>1
      <3> HIDE DEF j
      <3>2. Occurs((a \o CloseTag) \o b, o, Len(a \o CloseTag) + j)
        BY <1>4, <3>1
      <3>3. Occurs(b, o, j)
        BY <1>2, <3>1, <3>2, OccursInConcat
      <3>4. Occurs(a \o b, o, Len(a) + j)
        BY <3>1, <3>3, OccursInConcat
      <3> QED BY <1>5, <3>1, <3>4
    <2> QED BY <2>1
  <1>9. Occurs(u, o, i)
    OBVIOUS
  <1> HIDE DEF u, m, k
  <1>10. ~(i < m + 1)
    <2>1. ASSUME i < m + 1
          PROVE  FALSE
      <3>1. m + 1 >= i + Len(o)
        BY <1>1, <1>6, <1>9, <2>1, TagsApart
      <3> QED BY <1>1, <1>7, <3>1
    <2> QED BY <2>1
  <1>11. ~(i > m + 1)
    <2>1. ASSUME i > m + 1
          PROVE  FALSE
      <3>1. i >= (m + 1) + k
        BY <1>1, <1>6, <1>9, <2>1, TagsApart DEF k
      <3> QED BY <1>1, <1>8, <3>1
    <2> QED BY <2>1
  <1>12. i = m + 1
    BY <1>1, <1>10, <1>11
  <1>13. o = CloseTag
    <2>1. o = OpenTag => FALSE
      BY <1>1, <1>6, <1>9, <1>12, OneTag
    <2> QED BY <2>1 DEF Tags
  <1> QED BY <1>12, <1>13 DEF m

LEMMA TagInside ==
  ASSUME NEW a \in Text, NEW b \in Text, NEW tag \in Tags
  PROVE  Occurs((a \o tag) \o b, tag, Len(a) + 1)
  <1>1. Len(a) \in Nat /\ Len(tag) \in Nat \ {0} /\ tag \in Text
    BY LenProperties, TagFacts DEF Text
  <1>2. (a \o tag) \o b = a \o (tag \o b) /\ tag \o b \in Text
    <2>1. (a \o tag) \o b = a \o (tag \o b)
      <3> DEFINE t == tag
      <3>1. t \in Text
        BY <1>1
      <3> HIDE DEF t
      <3>2. (a \o t) \o b = a \o (t \o b)
        BY <3>1, TextAssoc
      <3> QED BY <3>2 DEF t
    <2>2. tag \o b \in Text
      BY <1>1, TextConcat
    <2> QED BY <2>1, <2>2
  <1>3. 1 + Len(tag) - 1 <= Len(tag) /\ 1 \in Nat \ {0}
    BY <1>1
  <1>4. Occurs(tag, tag, 1)
    BY TagIsItself
  <1>5. Occurs(tag \o b, tag, 1)
    BY <1>1, <1>3, <1>4, OccursInConcat
  <1>6. Occurs(a \o (tag \o b), tag, Len(a) + 1)
    BY <1>2, <1>3, <1>5, OccursInConcat
  <1> QED BY <1>2, <1>6

\* What is stored of a text without blocks: what follows the closer.
Stored(text) ==
  LET close == Find(text, CloseTag)
  IN  IF close = 0 THEN text ELSE After(text, close - 1 + Len(CloseTag))

LEMMA KeptClean ==
  ASSUME NEW r \in Readings, r.orphans <= 1, Free(r.before \o r.said, Tags),
         r.orphans = 0 => r.before = <<>>
  PROVE  /\ Stored(Kept(r)) = r.said
         /\ \A i \in Nat \ {0} : ~Occurs(Kept(r), OpenTag, i)
  <1> DEFINE a == r.before
             b == r.said
  <1>1. a \in Text /\ b \in Text /\ r.orphans \in Nat /\ a \o b \in Text
    <2>1. a \in Text /\ b \in Text /\ r.orphans \in Nat
      BY DEF Readings
    <2> HIDE DEF a, b
    <2> QED BY <2>1, TextConcat
  <1>2. Find(a \o b, OpenTag) = 0 /\ Find(a \o b, CloseTag) = 0
    BY TwoTags DEF Free
  <1>3. CASE r.orphans = 0
    <2>1. a = <<>> /\ Kept(r) = b
      BY <1>3 DEF Kept
    <2> HIDE DEF a, b
    <2>2. a \o b = b
      BY <1>1, <2>1, TextConcat
    <2>3. Find(b, OpenTag) = 0 /\ Find(b, CloseTag) = 0
      BY <1>2, <2>2
    <2>4. \A i \in Nat \ {0} : ~Occurs(b, OpenTag, i)
      BY <1>1, <2>3, TwoTags, FindNone
    <2> QED BY <2>1, <2>3, <2>4 DEF Stored, b
  <1>4. CASE r.orphans # 0
    <2> DEFINE u == (a \o CloseTag) \o b
               m == Len(a)
               k == Len(CloseTag)
    <2>1. Kept(r) = u
      BY <1>4 DEF Kept
    <2>2. Free(a \o b, Tags)
      OBVIOUS
    <2>3. CloseTag \in Text /\ CloseTag \in Tags /\ OpenTag \in Tags /\ CloseTag # OpenTag
          /\ k \in Nat \ {0} /\ m \in Nat
      BY <1>1, LenProperties, TwoTags, TagFacts, TagsAssumption DEF Text
    <2> HIDE DEF a, b
    <2>4. a \o CloseTag \in Text /\ u \in Text
      BY <1>1, <2>3, TextConcat
    <2>5. \A o \in Tags : \A i \in Nat \ {0} : Occurs(u, o, i) => o = CloseTag /\ i = m + 1
      BY <1>1, <2>2, AroundTag
    <2>6. Occurs(u, CloseTag, m + 1)
      BY <1>1, <2>3, TagInside
    <2>7. Find(u, CloseTag) = m + 1
      <3>1. \A j \in 1..((m + 1) - 1) : ~Occurs(u, CloseTag, j)
        <4>1. \A j \in 1..((m + 1) - 1) : j \in Nat \ {0} /\ j # m + 1
          BY <2>3
        <4> HIDE DEF u, m
        <4> QED BY <2>3, <2>5, <4>1
      <3>2. m + 1 \in Nat \ {0}
        BY <2>3
      <3> HIDE DEF u, m
      <3> QED BY <2>3, <2>4, <2>6, <3>1, <3>2, FindFirst
    <2>8. After(u, Len(a \o CloseTag)) = b /\ Len(a \o CloseTag) = m + k
      BY <1>1, <2>3, <2>4, ConcatParts
    <2> HIDE DEF u, m, k
    <2>9. (m + 1) - 1 + k = m + k /\ m + 1 # 0
      BY <2>3
    <2>10. Stored(u) = b
      BY <2>7, <2>8, <2>9 DEF Stored, k
    <2> QED BY <2>1, <2>3, <2>5, <2>10 DEF b
  <1> QED BY <1>3, <1>4

\* An unclosed block is cut off, with what is behind it.
LEMMA UnclosedCut ==
  ASSUME NEW kept \in Text, NEW rest \in Text,
         \A i \in Nat \ {0} : ~Occurs(kept, OpenTag, i)
  PROVE  /\ RemoveUnclosed(kept) = kept
         /\ Occurs(rest, OpenTag, 1) => RemoveUnclosed(kept \o rest) = kept
  <1>1. Find(kept, OpenTag) = 0
    BY TwoTags, FindNone
  <1>2. ASSUME Occurs(rest, OpenTag, 1)
        PROVE  RemoveUnclosed(kept \o rest) = kept
    <2> DEFINE u == kept \o rest
               m == Len(kept)
    <2>1. m \in Nat /\ u \in Text /\ Len(OpenTag) \in Nat \ {0} /\ m + 1 \in Nat \ {0}
          /\ 1 \in Nat \ {0}
      BY LenProperties, TextConcat, TwoTags, TagFacts DEF Text
    <2>2. Occurs(u, OpenTag, m + 1)
      BY <1>2, <2>1, TwoTags, OccursInConcat
    <2>3. ASSUME NEW j \in 1..((m + 1) - 1), Occurs(u, OpenTag, j)
          PROVE  FALSE
      <3>1. j \in Nat \ {0} /\ j < m + 1
        BY <2>1
      <3>2. m + 1 >= j + Len(OpenTag)
        <4> HIDE DEF u, m
        <4> QED BY <2>1, <2>2, <2>3, <3>1, TwoTags, TagsApart
      <3>3. j + Len(OpenTag) - 1 <= m
        BY <2>1, <3>1, <3>2
      <3>4. Occurs(kept, OpenTag, j)
        BY <2>3, <3>1, <3>3, TwoTags, OccursInConcat
      <3> QED BY <3>1, <3>4
    <2>4. Find(u, OpenTag) = m + 1
      <3> HIDE DEF u, m
      <3> QED BY <2>1, <2>2, <2>3, TwoTags, FindFirst
    <2>5. (m + 1) - 1 = m /\ m + 1 # 0
      BY <2>1
    <2>6. Upto(u, m) = kept
      BY ConcatParts
    <2> HIDE DEF u, m
    <2>7. RemoveUnclosed(u) = kept
      BY <2>4, <2>5, <2>6 DEF RemoveUnclosed
    <2> QED BY <2>7 DEF u
  <1>3. RemoveUnclosed(kept) = kept
    BY <1>1 DEF RemoveUnclosed
  <1> QED BY <1>2, <1>3

\* What is stored is what the grammar reads as the answer.
LEMMA CleanReads ==
  ASSUME NEW text \in Text, Reading(text).orphans <= 1,
         Free(Reading(text).before \o Reading(text).said, Tags)
  PROVE  CleanResponse(text) = Reading(text).said
  <1> DEFINE N == Len(text)
             R == ReadTo(text)
             last == Removals(text)[N]
             at == last.at
             open == FindAfter(text, OpenTag, at)
             e == open - 1 + Len(OpenTag)
             all == Reading(text)
  <1>1. N \in Nat /\ Len(OpenTag) \in Nat \ {0} /\ Len(CloseTag) \in Nat \ {0}
    BY LenProperties, TwoTags, TagFacts DEF Text
  <1>2. last \in Removed(text) /\ Finished(last, text) /\ Answering(R[at]) /\ last.kept = Kept(R[at])
    BY RemovalsKeep
  <1>3. at \in 0..N /\ at \in Nat /\ last.kept \in Text
    <2> HIDE DEF last
    <2> QED BY <1>1, <1>2 DEF Removed
  <1>4. all = R[N] /\ all \in Readings /\ all.orphans <= 1 /\ Free(all.before \o all.said, Tags)
        /\ (all.orphans = 0 => all.before = <<>>)
    <2>1. all = R[N] /\ N \in 0..Len(text)
      BY <1>1 DEF Reading
    <2>2. all \in Readings
      BY <2>1, ReadingAt
    <2>3. all.orphans = 0 => all.before = <<>>
      BY <2>1, NoneBefore
    <2> QED BY <2>1, <2>2, <2>3
  <1>5. \/ \A i \in at + 1..N : ~Occurs(text, OpenTag, i)
        \/ /\ open \in at + 1..N /\ Occurs(text, OpenTag, open)
           /\ \A i \in at + 1..(open - 1) : ~Occurs(text, OpenTag, i)
           /\ \A i \in e + 1..N : ~Occurs(text, CloseTag, i)
    <2> HIDE DEF last
    <2>1. RemoveBlock(last, text) = last
      BY <1>2 DEF Finished
    <2> DEFINE close == FindAfter(text, CloseTag, e)
               end == close - 1 + Len(CloseTag)
    <2>2. \/ \A i \in at + 1..N : ~Occurs(text, OpenTag, i)
          \/ /\ open \in at + 1..N /\ Occurs(text, OpenTag, open)
             /\ \A i \in at + 1..(open - 1) : ~Occurs(text, OpenTag, i)
             /\ \A i \in e + 1..N : ~Occurs(text, CloseTag, i)
          \/ RemoveBlock(last, text).at = end /\ end \in at + 1..N
      BY <1>2, RemoveBlockIs
    <2>3. ~(at \in at + 1..N)
      BY <1>1, <1>3
    <2> HIDE DEF end, open, e, close
    <2> QED BY <2>1, <2>2, <2>3
  <1>6. RemoveBlocks(text) = last.kept \o SubSeq(text, at + 1, N)
    BY DEF RemoveBlocks, After
  <1>7. CleanResponse(text) = Stored(RemoveUnclosed(RemoveBlocks(text)))
    BY DEF CleanResponse, Stored
  <1>8. Stored(Kept(all)) = all.said /\ \A i \in Nat \ {0} : ~Occurs(Kept(all), OpenTag, i)
    <2> HIDE DEF all
    <2> QED BY <1>4, KeptClean
  <1> HIDE DEF last, all, R, open
  <1>9. CASE \A i \in at + 1..N : ~Occurs(text, OpenTag, i)
    <2>1. \A i \in at + 1..N : Occurs(text, CloseTag, i) => i + Len(CloseTag) - 1 <= N
      BY DEF Occurs
    <2>2. Kept(R[N]) = Kept(R[at]) \o SubSeq(text, at + 1, N)
      <3>1. N \in at..Len(text)
        BY <1>1, <1>3
      <3>2. ReadTo(text)[N].orphans <= 1
        BY <1>4 DEF R
      <3> QED BY <1>2, <1>3, <1>9, <2>1, <3>1, <3>2, ReadAnswer DEF R
    <2>3. RemoveBlocks(text) = Kept(all)
      BY <1>2, <1>4, <1>6, <2>2
    <2>4. Kept(all) \in Text
      BY <1>1, <1>4, KeptIsText DEF R
    <2>5. RemoveUnclosed(Kept(all)) = Kept(all)
      BY <1>8, <2>4, UnclosedCut
    <2> QED BY <1>7, <1>8, <2>3, <2>5 DEF all
  <1>10. CASE /\ open \in at + 1..N /\ Occurs(text, OpenTag, open)
              /\ \A i \in at + 1..(open - 1) : ~Occurs(text, OpenTag, i)
              /\ \A i \in e + 1..N : ~Occurs(text, CloseTag, i)
    <2> DEFINE p == open - 1
    <2>1. p \in at..N /\ p \in 0..N /\ p + 1 = open /\ p \in Nat /\ N \in p..Len(text)
          /\ e = p + Len(OpenTag)
      BY <1>1, <1>3, <1>10
    <2>2. R[p].orphans <= 1
      <3>1. Beyond(R[N], R[p])
        <4> HIDE DEF p
        <4> QED BY <2>1, Grows DEF R
      <3>2. R[p].orphans \in Nat /\ R[N].orphans \in Nat /\ R[N].orphans <= 1
        <4>1. N \in 0..N
          BY <1>1
        <4> HIDE DEF p
        <4> QED BY <1>4, <2>1, <4>1, ReadingAt DEF R
      <3> HIDE DEF p
      <3> QED BY <3>1, <3>2 DEF Beyond
    <2>3. Answering(R[p]) /\ Kept(R[p]) = Kept(R[at]) \o SubSeq(text, at + 1, p)
      <3>1. \A i \in at + 1..p : ~Occurs(text, OpenTag, i)
        BY <1>10
      <3>2. ASSUME NEW i \in at + 1..p, Occurs(text, CloseTag, i)
            PROVE  i + Len(CloseTag) - 1 <= p
        <4>1. i \in Nat /\ i < open /\ open \in Nat
          BY <1>3, <2>1
        <4>2. open >= i + Len(CloseTag)
          BY <1>10, <3>2, <4>1, TwoTags, TagsApart
        <4> QED BY <1>1, <2>1, <4>1, <4>2
      <3> HIDE DEF p
      <3> QED BY <1>2, <1>3, <2>1, <2>2, <3>1, <3>2, ReadAnswer DEF R
    <2>4. all.orphans = R[p].orphans /\ all.before = R[p].before /\ all.said = R[p].said
      <3>1. Occurs(text, OpenTag, p + 1)
        BY <1>10, <2>1
      <3>2. \A i \in (p + Len(OpenTag)) + 1..Len(text) : ~Occurs(text, CloseTag, i)
        BY <1>10, <2>1
      <3> HIDE DEF p
      <3> QED BY <2>1, <2>3, <3>1, <3>2, ReadUnclosed DEF R, all
    <2>5. Kept(all) = Kept(R[p])
      <3> HIDE DEF p
      <3> QED BY <2>4 DEF Kept
    <2> DEFINE rest == SubSeq(text, p + 1, N)
    <2>6. rest \in Text /\ Occurs(rest, OpenTag, 1)
      <3>1. p + 1 + Len(OpenTag) - 1 <= N
        BY <1>10, <2>1 DEF Occurs
      <3>2. 1 \in Nat \ {0} /\ Occurs(text, OpenTag, p + 1)
        BY <1>10, <2>1
      <3> HIDE DEF p
      <3>3. Occurs(SubSeq(text, p + 1, N), OpenTag, 1)
        BY <2>1, <3>1, <3>2, TwoTags, OccursInSlice
      <3>4. SubSeq(text, p + 1, N) \in Text
        BY SMTT(30), <2>1, Slice DEF Text
      <3> QED BY <3>3, <3>4
    <2>7. RemoveBlocks(text) = Kept(R[p]) \o rest
      <3>1. (last.kept \o SubSeq(text, at + 1, p)) \o SubSeq(text, p + 1, N)
              = last.kept \o SubSeq(text, at + 1, N)
        <4> HIDE DEF p
        <4> QED BY <1>3, <2>1, Onward
      <3> HIDE DEF p
      <3> QED BY <1>2, <1>6, <2>3, <3>1
    <2>8. Kept(R[p]) \in Text
      <3> HIDE DEF p
      <3> QED BY <2>1, KeptIsText DEF R
    <2>9. RemoveUnclosed(Kept(all) \o rest) = Kept(all)
      <3> HIDE DEF p, rest
      <3> QED BY <1>8, <2>5, <2>6, <2>8, UnclosedCut
    <2> HIDE DEF p, rest
    <2> QED BY <1>7, <1>8, <2>5, <2>7, <2>9 DEF all
  <1> QED BY <1>5, <1>9, <1>10

\* models/stream.py: however the text is cut into deltas.
LEMMA AnyCutSplitsAlike ==
  ASSUME NEW deltas \in Seq(Text)
  PROVE  SplitsAlike(deltas)
  <1> DEFINE text == Join(deltas)
             r == Reading(text)
             s == Split(deltas)
  <1>1. text \in Text
    BY JoinIs
  <1>2. s.shown = r.shown /\ (s.orphan <=> r.orphans > 0)
    BY SplitReads
  <1>3. \A n \in 0..Len(deltas) :
          LET shown == FedTo(deltas)[n].shown
          IN  Len(shown) <= Len(r.shown) /\ shown = Upto(r.shown, Len(shown))
    BY NothingTakenBack
  <1>4. r.orphans <= 1 /\ Free(r.before \o r.said, Tags) => CleanResponse(text) = r.said
    BY <1>1, CleanReads
  <1> QED BY <1>2, <1>3, <1>4 DEF SplitsAlike

-----------------------------------------------------------------------------
(* The search in place of the question                                     *)

LEMMA EndOfText ==
  ASSUME NEW S, NEW s \in Seq(S), NEW n \in 0..Len(s)
  PROVE  /\ After(s, n) \in Seq(S) /\ Len(After(s, n)) = Len(s) - n
         /\ IsEnd(After(s, n), s) /\ After(s, 0) = s
  <1>1. Len(s) \in Nat /\ n \in Nat /\ Len(s) \in n..Len(s)
    BY LenProperties
  <1>2. After(s, n) \in Seq(S) /\ Len(After(s, n)) = Len(s) - n
    BY <1>1, Slice DEF After
  <1>3. Len(s) - (Len(s) - n) = n /\ Len(s) - n <= Len(s)
    BY <1>1
  <1>4. After(s, 0) = s
    <2>1. 0 + 1 = 1
      OBVIOUS
    <2>2. SubSeq(s, 1, Len(s)) = s
      BY SubSeqFull
    <2> QED BY <2>1, <2>2 DEF After
  <1> HIDE DEF After
  <1> QED BY <1>2, <1>3, <1>4 DEF IsEnd

Unopened(text) == text \in Text /\ \A i \in Nat \ {0} : ~Occurs(text, OpenTag, i)

\* An end of a text without an opener has none.
LEMMA UnopenedEnd ==
  ASSUME NEW text, Unopened(text), NEW n \in 0..Len(text)
  PROVE  Unopened(After(text, n))
  <1>1. text \in Text
    BY DEF Unopened
  <1>2. n \in Nat /\ Len(text) \in n..Len(text)
    BY <1>1, LenProperties DEF Text
  <1>3. After(text, n) \in Text
    BY <1>1, EndOfText DEF Text
  <1>4. ASSUME NEW i \in Nat \ {0}, Occurs(After(text, n), OpenTag, i)
        PROVE  FALSE
    <2>1. Occurs(text, OpenTag, n + i)
      BY <1>1, <1>2, <1>4, TwoTags, OccursInSlice DEF After
    <2>2. n + i \in Nat \ {0}
      BY <1>2
    <2> QED BY <2>1, <2>2 DEF Unopened
  <1> QED BY <1>3, <1>4 DEF Unopened

LEMMA CutIsUnopened ==
  ASSUME NEW text \in Text
  PROVE  Unopened(RemoveUnclosed(text))
  <1> DEFINE open == FindAfter(text, OpenTag, 0)
  <1>1. Len(text) \in Nat /\ 0 + 1 = 1 /\ Len(OpenTag) \in Nat \ {0}
    BY LenProperties, TwoTags, TagFacts DEF Text
  <1>2. CASE open = 0
    <2>1. \A i \in Nat \ {0} : ~Occurs(text, OpenTag, i)
      BY <1>2, TwoTags, FindNone DEF Find
    <2>2. RemoveUnclosed(text) = text
      BY <1>2 DEF RemoveUnclosed, Find
    <2> QED BY <2>1, <2>2 DEF Unopened
  <1>3. CASE open # 0
    <2> DEFINE cut == Upto(text, open - 1)
    <2>1. /\ open \in 0 + 1..Len(text)
          /\ \A j \in 0 + 1..(open - 1) : ~Occurs(text, OpenTag, j)
      <3>1. 0 \in Nat
        OBVIOUS
      <3> QED BY <1>3, <3>1, Found
    <2> HIDE DEF open
    <2>2. open - 1 \in 0..Len(text) /\ 0 \in Nat
      BY <1>1, <2>1
    <2>3. cut \in Text
      BY <2>2, PieceIsText
    <2>4. ASSUME NEW i \in Nat \ {0}, Occurs(cut, OpenTag, i)
          PROVE  FALSE
      <3>1. cut = SubSeq(text, 0 + 1, open - 1)
        BY <1>1 DEF Upto
      <3>2. 0 + i + Len(OpenTag) - 1 <= open - 1 /\ Occurs(text, OpenTag, 0 + i)
        <4> DEFINE n == open - 1
        <4>1. n \in 0..Len(text)
          BY <2>2
        <4>2. Occurs(SubSeq(text, 0 + 1, n), OpenTag, i)
          BY <2>4, <3>1
        <4> HIDE DEF n, cut
        <4>3. 0 + i + Len(OpenTag) - 1 <= n /\ Occurs(text, OpenTag, 0 + i)
          BY <2>2, <4>1, <4>2, TwoTags, OccursInSlice
        <4> QED BY <4>3 DEF n
      <3>3. 0 + i = i /\ i \in 0 + 1..(open - 1)
        BY <1>1, <2>1, <3>2
      <3> QED BY <2>1, <3>2, <3>3
    <2>5. RemoveUnclosed(text) = cut
      BY <1>3 DEF RemoveUnclosed, open, Find
    <2> HIDE DEF cut
    <2> QED BY <2>3, <2>4, <2>5 DEF Unopened
  <1> QED BY <1>2, <1>3

LEMMA StoredIsEnd ==
  ASSUME NEW text \in Text, NEW tag \in Tags
  PROVE  Find(text, tag) # 0 => Find(text, tag) - 1 + Len(tag) \in 0..Len(text)
  <1> DEFINE i == FindAfter(text, tag, 0)
  <1>1. Len(text) \in Nat /\ 0 + 1 = 1 /\ Len(tag) \in Nat \ {0}
    BY LenProperties, TagFacts DEF Text
  <1>2. \/ i = 0 /\ \A j \in 0 + 1..Len(text) : ~Occurs(text, tag, j)
        \/ /\ i \in 0 + 1..Len(text) /\ Occurs(text, tag, i)
           /\ \A j \in 0 + 1..(i - 1) : ~Occurs(text, tag, j)
    BY Found
  <1> HIDE DEF i
  <1>3. Occurs(text, tag, i) => i + Len(tag) - 1 <= Len(text)
    BY DEF Occurs
  <1>4. i # 0 => i - 1 + Len(tag) \in 0..Len(text)
    BY <1>1, <1>2, <1>3
  <1> QED BY <1>4 DEF i, Find

LEMMA CleanIsUnopened ==
  ASSUME NEW text \in Text
  PROVE  Unopened(CleanResponse(text))
  <1> DEFINE last == Removals(text)[Len(text)]
             cut == RemoveUnclosed(RemoveBlocks(text))
             close == Find(cut, CloseTag)
             n == close - 1 + Len(CloseTag)
  <1>1. last \in Removed(text)
    <2>1. Len(text) \in 0..Len(text)
      BY LenProperties DEF Text
    <2> QED BY <2>1, RemovalsDef
  <1>2. RemoveBlocks(text) \in Text
    <2> HIDE DEF last
    <2>1. last.kept \in Text /\ last.at \in 0..Len(text)
      BY <1>1 DEF Removed
    <2>2. After(text, last.at) \in Text
      BY <2>1, PieceIsText
    <2>3. last.kept \o After(text, last.at) \in Text
      BY <2>1, <2>2, TextConcat
    <2> QED BY <2>3 DEF RemoveBlocks, last
  <1>3. Unopened(cut)
    BY <1>2, CutIsUnopened
  <1>4. CleanResponse(text) = IF close = 0 THEN cut ELSE After(cut, n)
    BY DEF CleanResponse
  <1> HIDE DEF cut
  <1>5. cut \in Text
    BY <1>3 DEF Unopened
  <1>6. close # 0 => n \in 0..Len(cut)
    BY <1>5, TwoTags, StoredIsEnd
  <1> HIDE DEF n, close
  <1> QED BY <1>3, <1>4, <1>6, UnopenedEnd

LEMMA CondensedIsEnd ==
  ASSUME NEW reply \in Text
  PROVE  /\ Unopened(Condensed(reply)) /\ Len(Condensed(reply)) \in Nat
         /\ IsEnd(Condensed(reply), CleanResponse(reply))
  <1> DEFINE cleaned == CleanResponse(reply)
  <1>1. Unopened(cleaned) /\ cleaned \in Text
    BY CleanIsUnopened DEF Unopened
  <1>2. Condensed(reply) = IF Occurs(cleaned, QueryLabel, 1) THEN After(cleaned, Len(QueryLabel)) ELSE cleaned
    BY DEF Condensed
  <1> HIDE DEF cleaned
  <1>3. Len(cleaned) \in Nat /\ Len(QueryLabel) \in Nat /\ 0 \in 0..Len(cleaned)
    BY <1>1, LabelAssumption, LenProperties DEF Text
  <1>4. CASE Occurs(cleaned, QueryLabel, 1)
    <2>1. Len(QueryLabel) \in 0..Len(cleaned)
      <3>1. 1 + Len(QueryLabel) - 1 <= Len(cleaned)
        BY <1>4 DEF Occurs
      <3> QED BY <1>3, <3>1
    <2>2. Unopened(After(cleaned, Len(QueryLabel)))
      BY <1>1, <2>1, UnopenedEnd
    <2>3. /\ After(cleaned, Len(QueryLabel)) \in Text /\ IsEnd(After(cleaned, Len(QueryLabel)), cleaned)
      BY <1>1, <2>1, EndOfText DEF Text
    <2>4. Len(After(cleaned, Len(QueryLabel))) \in Nat
      BY <2>3, LenProperties DEF Text
    <2> QED BY <1>2, <1>4, <2>2, <2>3, <2>4 DEF cleaned
  <1>5. CASE ~Occurs(cleaned, QueryLabel, 1)
    <2>1. IsEnd(cleaned, cleaned)
      BY <1>1, <1>3, EndOfText DEF Text
    <2> QED BY <1>1, <1>2, <1>3, <1>5, <2>1 DEF cleaned
  <1> QED BY <1>4, <1>5

LEMMA NewestTurns ==
  ASSUME NEW S, NEW history \in Seq(S), NEW limit \in Nat
  PROVE  /\ IsEnd(LastMessages(history, limit), history)
         /\ Len(LastMessages(history, limit)) = (IF Len(history) < limit THEN Len(history) ELSE limit)
  <1> DEFINE n == IF Len(history) > limit THEN Len(history) - limit ELSE 0
  <1>1. Len(history) \in Nat /\ n \in 0..Len(history) /\ Len(history) \in 0..Len(history)
    BY LenProperties
  <1>2. CASE limit = 0
    <2>1. LastMessages(history, limit) = <<>>
      BY <1>2 DEF LastMessages
    <2>2. /\ After(history, Len(history)) \in Seq(S) /\ IsEnd(After(history, Len(history)), history)
          /\ Len(After(history, Len(history))) = 0
      <3>1. Len(history) - Len(history) = 0
        <4> HIDE DEF n
        <4> QED BY <1>1
      <3> QED BY <1>1, <3>1, EndOfText
    <2>3. After(history, Len(history)) = <<>>
      BY <2>2, EmptySeq
    <2>4. ~(Len(history) < limit)
      BY <1>1, <1>2
    <2> QED BY <1>2, <2>1, <2>2, <2>3, <2>4
  <1>3. CASE limit # 0
    <2>1. LastMessages(history, limit) = After(history, n)
      BY <1>3 DEF LastMessages
    <2>2. IsEnd(After(history, n), history) /\ Len(After(history, n)) = Len(history) - n
      BY <1>1, EndOfText
    <2>3. Len(history) - n = IF Len(history) < limit THEN Len(history) ELSE limit
      <3> DEFINE k == Len(history)
      <3>1. k \in Nat
        BY <1>1
      <3>2. n = IF k > limit THEN k - limit ELSE 0
        OBVIOUS
      <3> HIDE DEF n, k
      <3>3. CASE k > limit
        <4>1. ~(k < limit) /\ k - n = limit
          BY <3>1, <3>2, <3>3
        <4> QED BY <4>1 DEF k
      <3>4. CASE k <= limit
        <4>1. k - n = k /\ (~(k < limit) => k = limit)
          BY <3>1, <3>2, <3>4
        <4> QED BY <4>1 DEF k
      <3> QED BY <3>1, <3>3, <3>4
    <2> HIDE DEF n
    <2> QED BY <2>1, <2>2, <2>3
  <1> QED BY <1>2, <1>3

\* models/condense.py: whatever the model replies.
LEMMA SearchStaysClean ==
  ASSUME NEW query, query # <<>>, NEW S, NEW history \in Seq(S), NEW reply \in Text,
         NEW settings, settings.turns \in Nat, settings.maxChars \in Nat
  PROVE  SearchIsClean(query, history, reply, settings)
  <1> DEFINE p == Prepare(query, history, reply, settings)
             r == Reading(reply)
             turns == LastMessages(history, settings.turns)
             condensed == Condensed(reply)
             uses == /\ settings.enabled /\ turns # <<>>
                     /\ condensed # <<>> /\ Len(condensed) <= settings.maxChars
  <1>1. \/ uses /\ p = [search |-> condensed, original |-> query, condensed |-> TRUE]
        \/ ~uses /\ p = [search |-> query, original |-> query, condensed |-> FALSE]
    BY DEF Prepare
  <1>2. /\ IsEnd(turns, history)
        /\ Len(turns) = (IF Len(history) < settings.turns THEN Len(history) ELSE settings.turns)
    BY NewestTurns
  <1>3. Unopened(condensed) /\ IsEnd(condensed, CleanResponse(reply))
    BY CondensedIsEnd
  <1>4. Find(condensed, OpenTag) = 0
    <2> HIDE DEF condensed
    <2>1. condensed \in Text /\ \A i \in Nat \ {0} : ~Occurs(condensed, OpenTag, i)
      BY <1>3 DEF Unopened
    <2> QED BY <2>1, TwoTags, FindNone
  <1>5. r.orphans <= 1 /\ Free(r.before \o r.said, Tags) => IsEnd(condensed, r.said)
    BY <1>3, CleanReads
  <1>6. history = <<>> => turns = <<>>
    <2>1. ASSUME history = <<>>
          PROVE  turns = <<>>
      <3>1. Len(turns) <= Len(history) /\ turns = After(history, Len(history) - Len(turns))
        BY <1>2 DEF IsEnd
      <3>2. Len(history) = 0 /\ Len(turns) = 0
        <4>1. Len(history) = 0
          BY <2>1, EmptySeq
        <4> HIDE DEF turns
        <4> QED BY <1>2, <4>1
      <3>3. After(history, 0) = history /\ 0 - 0 = 0
        <4>1. 0 \in 0..Len(history)
          BY <3>2
        <4> QED BY <4>1, EndOfText
      <3> HIDE DEF turns
      <3> QED BY <2>1, <3>1, <3>2, <3>3
    <2> QED BY <2>1
  <1>7. /\ p.original = query
        /\ uses => p.condensed /\ p.search = condensed
        /\ ~uses => ~p.condensed /\ p.search = query
    <2> HIDE DEF p, uses, condensed
    <2> QED BY <1>1
  <1>8. p.search # <<>>
    <2> HIDE DEF p, turns, condensed
    <2> QED BY <1>7
  <1>9. p.condensed => uses
    BY <1>7
  <1> HIDE DEF condensed, r, turns, p
  <1>10. /\ ~p.condensed => p.search = query
         /\ history = <<>> => ~p.condensed
         /\ p.condensed => Len(p.search) <= settings.maxChars /\ Find(p.search, OpenTag) = 0
         /\ p.condensed /\ r.orphans <= 1 /\ Free(r.before \o r.said, Tags)
              => IsEnd(p.search, r.said)
    BY <1>4, <1>5, <1>6, <1>7, <1>9
  <1> QED BY <1>2, <1>7, <1>8, <1>10 DEF SearchIsClean, p, r, turns

-----------------------------------------------------------------------------
(* Two transports                                                          *)

LEMMA MarkedConcat ==
  ASSUME NEW a \in Text, NEW b \in Text, NEW reasoning \in BOOLEAN
  PROVE  Marked(a \o b, reasoning) = Marked(a, reasoning) \o Marked(b, reasoning)
  <1> DEFINE u == a \o b
             left == Marked(a, reasoning)
             right == Marked(b, reasoning)
             m == Len(a)
             n == Len(b)
  <1>1. m \in Nat /\ n \in Nat
    BY LenProperties DEF Text
  <1>2. /\ u \in Text /\ Len(u) = m + n
        /\ \A i \in 1..m + n : u[i] = IF i <= m THEN a[i] ELSE b[i - m]
    BY ConcatProperties DEF Text
  <1>3. left \in Shown /\ Len(left) = m /\ \A i \in 1..m : left[i] = <<reasoning, a[i]>>
    BY MarkedText
  <1>4. right \in Shown /\ Len(right) = n /\ \A i \in 1..n : right[i] = <<reasoning, b[i]>>
    BY MarkedText
  <1>5. /\ left \o right \in Shown /\ Len(left \o right) = m + n
        /\ \A i \in 1..m + n : (left \o right)[i] = IF i <= m THEN left[i] ELSE right[i - m]
    <2> HIDE DEF left, right, m, n
    <2> QED BY ZenonT(60), <1>3, <1>4, ConcatProperties DEF Shown
  <1> HIDE DEF u, left, right, m, n
  <1>6. /\ Marked(u, reasoning) \in Shown /\ Len(Marked(u, reasoning)) = m + n
        /\ \A i \in 1..m + n : Marked(u, reasoning)[i] = <<reasoning, u[i]>>
    BY <1>2, MarkedText
  <1>7. ASSUME NEW i \in 1..m + n
        PROVE  Marked(u, reasoning)[i] = (left \o right)[i]
    <2>1. CASE i <= m
      <3>1. i \in 1..m
        BY <1>1, <2>1
      <3> QED BY <1>2, <1>3, <1>5, <1>6, <2>1, <3>1
    <2>2. CASE ~(i <= m)
      <3>1. i - m \in 1..n
        BY <1>1, <2>2
      <3> QED BY <1>2, <1>4, <1>5, <1>6, <2>2, <3>1
    <2> QED BY <2>1, <2>2
  <1>8. Marked(u, reasoning) = left \o right
    BY <1>5, <1>6, <1>7, SeqEqual DEF Shown
  <1> QED BY <1>8 DEF u, left, right

LEMMA ShownConcat ==
  ASSUME NEW a \in Shown, NEW b \in Shown, NEW c \in Shown
  PROVE  (a \o b) \o c = a \o (b \o c) /\ a \o <<>> = a /\ a \o b \in Shown
  <1> DEFINE S == BOOLEAN \X Alphabet
  <1>1. a \in Seq(S) /\ b \in Seq(S) /\ c \in Seq(S)
    BY DEF Shown
  <1> HIDE DEF S
  <1>2. (a \o b) \o c = a \o (b \o c) /\ a \o <<>> = a /\ a \o b \in Seq(S)
    BY SMTT(30), <1>1, ConcatAssociative, ConcatEmptySeq, ConcatProperties
  <1> QED BY <1>2 DEF Shown, S

LEMMA ShownAssoc ==
  ASSUME NEW a \in Shown, NEW b \in Shown, NEW c \in Shown
  PROVE  (a \o b) \o c = a \o (b \o c)
  <1> DEFINE S == BOOLEAN \X Alphabet
  <1>1. a \in Seq(S) /\ b \in Seq(S) /\ c \in Seq(S)
    BY DEF Shown
  <1> HIDE DEF S
  <1> QED BY SMTT(30), <1>1, ConcatAssociative

\* One more delta.
LEMMA JoinOneMore ==
  ASSUME NEW deltas \in Seq(Text), NEW delta \in Text
  PROVE  /\ Append(deltas, delta) \in Seq(Text)
         /\ Join(Append(deltas, delta)) = Join(deltas) \o delta
  <1> DEFINE all == Append(deltas, delta)
             N == Len(deltas)
             S == {n \in 0..N : JoinedTo(all)[n] = JoinedTo(deltas)[n]}
  <1>1. /\ all \in Seq(Text) /\ Len(all) = N + 1 /\ all[N + 1] = delta
        /\ \A n \in 1..N : all[n] = deltas[n]
    BY AppendProperties
  <1>2. N \in Nat
    BY LenProperties
  <1> HIDE DEF all
  <1>3. /\ Join(deltas) = JoinedTo(deltas)[N] /\ JoinedTo(deltas)[0] = <<>>
        /\ \A n \in 1..N : JoinedTo(deltas)[n] = JoinedTo(deltas)[n - 1] \o deltas[n]
    BY JoinIs
  <1>4. /\ Join(all) = JoinedTo(all)[N + 1] /\ JoinedTo(all)[0] = <<>>
        /\ \A n \in 1..N + 1 : JoinedTo(all)[n] = JoinedTo(all)[n - 1] \o all[n]
    BY <1>1, JoinIs
  <1> HIDE DEF N
  <1>5. 0 \in S
    BY <1>2, <1>3, <1>4
  <1>6. \A n \in 1..N : n - 1 \in S => n \in S
    <2>1. \A n \in 1..N : n \in 1..N + 1 /\ n \in 0..N
      BY <1>2
    <2> QED BY <1>1, <1>3, <1>4, <2>1
  <1> HIDE DEF S
  <1>7. N \in S
    <2>1. \A n \in 0..N : n \in S
      BY <1>2, <1>5, <1>6, UpTo
    <2> QED BY <1>2, <2>1
  <1>8. JoinedTo(all)[N + 1] = JoinedTo(all)[N] \o delta
    <2>1. N + 1 \in 1..N + 1 /\ (N + 1) - 1 = N
      BY <1>2
    <2> QED BY <1>1, <1>4, <2>1
  <1>9. Join(all) = Join(deltas) \o delta
    BY <1>3, <1>4, <1>7, <1>8 DEF S
  <1> QED BY <1>1, <1>9 DEF all

\* What begins a text without tags has none.
LEMMA FreeBeginning ==
  ASSUME NEW text \in Text, NEW piece \in Text, Begins(piece, text),
         NEW tags \in SUBSET Tags, Free(text, tags)
  PROVE  Free(piece, tags)
  <1> DEFINE m == Len(piece)
  <1>1. m \in 0..Len(text) /\ 0 \in Nat /\ 0 + 1 = 1 /\ m \in Nat
    BY LenProperties DEF Begins, Text
  <1>2. piece = SubSeq(text, 0 + 1, m)
    BY <1>1 DEF Begins, Upto
  <1> HIDE DEF m
  <1>3. ASSUME NEW tag \in tags, NEW i \in Nat \ {0}, Occurs(piece, tag, i)
        PROVE  FALSE
    <2>1. Occurs(SubSeq(text, 0 + 1, m), tag, i)
      BY <1>2, <1>3
    <2>2. Occurs(text, tag, 0 + i)
      BY <1>1, <2>1, OccursInSlice
    <2>3. Find(text, tag) = 0 /\ 0 + i = i
      BY DEF Free
    <2> QED BY <2>2, <2>3, FindNone
  <1>4. ASSUME NEW tag \in tags
        PROVE  Find(piece, tag) = 0
    BY <1>3, FindNone
  <1> QED BY <1>4 DEF Free

\* The run of the text since the last tag, which the reader has yet to read.
RunFrom(text, w, p, thinking, content, reasoning, sent) ==
  LET r == ReadTo(text)[w]
      run == SubSeq(text, w + 1, p)
  IN  /\ r.skip = 0 /\ r.reasoning = thinking /\ r.orphans = 0 /\ r.before = <<>>
      /\ sent = r.shown \o Marked(run, thinking)
      /\ IF thinking THEN content = r.said /\ \E b \in Text : reasoning = b \o run
         ELSE content = r.said \o run

LEMMA RunIsText ==
  ASSUME NEW text \in Text, NEW p \in 0..Len(text), NEW w \in 0..p
  PROVE  /\ w \in Nat /\ w \in 0..Len(text) /\ p \in w..Len(text) /\ SubSeq(text, w + 1, p) \in Text
         /\ ReadTo(text)[w].shown \in Shown /\ ReadTo(text)[w].said \in Text
         /\ ReadTo(text)[w] \in Readings
  <1>1. w \in Nat /\ w \in 0..Len(text) /\ p \in w..Len(text)
    BY LenProperties DEF Text
  <1>2. SubSeq(text, w + 1, p) \in Text
    BY <1>1, Slice DEF Text
  <1> QED BY <1>1, <1>2, ReadingAt

\* No tag in a run of fields without tags.
LEMMA QuietRun ==
  ASSUME NEW text \in Text, NEW p \in 0..Len(text), NEW w \in 0..p, NEW thinking \in BOOLEAN,
         NEW content \in Text, NEW reasoning \in Text, NEW sent,
         RunFrom(text, w, p, thinking, content, reasoning, sent),
         Free(content, Tags), Free(reasoning, {CloseTag}),
         \A tag \in Tags : \A i \in w + 1..p : Occurs(text, tag, i) => i + Len(tag) - 1 <= p
  PROVE  /\ Quiet(text, thinking, w, p)
         /\ LET q == ReadTo(text)[p]
            IN  /\ q.skip = 0 /\ q.reasoning = thinking /\ q.orphans = 0 /\ q.before = <<>>
                /\ q.shown = sent /\ q.said = content
  <1> DEFINE run == SubSeq(text, w + 1, p)
             r == ReadTo(text)[w]
             q == ReadTo(text)[p]
  <1>1. /\ w \in Nat /\ w \in 0..Len(text) /\ p \in w..Len(text) /\ run \in Text
        /\ r.shown \in Shown /\ r.said \in Text
    BY RunIsText
  <1>2. ASSUME NEW tag \in Tags, NEW i \in w + 1..p, Occurs(text, tag, i)
        PROVE  i - w \in Nat \ {0} /\ Occurs(run, tag, i - w)
    <2> DEFINE k == i - w
    <2>1. k \in Nat \ {0} /\ w + k = i
      BY <1>1
    <2>2. w + k + Len(tag) - 1 <= p
      <3> HIDE DEF k
      <3> QED BY <1>2, <2>1
    <2>3. Occurs(text, tag, w + k)
      <3> HIDE DEF k
      <3> QED BY <1>2, <2>1
    <2> HIDE DEF k
    <2>4. Occurs(SubSeq(text, w + 1, p), tag, k)
      BY <1>1, <2>1, <2>2, <2>3, OccursInSlice
    <2> QED BY <2>1, <2>4 DEF k
  <1> HIDE DEF run
  \* what ends with the run has the tags of the run
  <1>3. ASSUME NEW b \in Text, NEW tag \in Tags, Find(b \o run, tag) = 0,
               NEW i \in w + 1..p, Occurs(text, tag, i)
        PROVE  FALSE
    <2> DEFINE k == i - w
    <2>1. k \in Nat \ {0} /\ Occurs(run, tag, k)
      BY <1>2, <1>3
    <2> HIDE DEF k
    <2>2. Occurs(b \o run, tag, Len(b) + k) /\ Len(b) + k \in Nat \ {0}
      <3>1. Len(b) \in Nat
        BY LenProperties DEF Text
      <3>2. Occurs(b \o run, tag, Len(b) + k)
        BY <1>1, <2>1, OccursInConcat
      <3> QED BY <2>1, <3>1, <3>2
    <2>3. b \o run \in Text
      BY <1>1, TextConcat
    <2> QED BY <1>3, <2>2, <2>3, FindNone
  <1>4. /\ r.skip = 0 /\ r.reasoning = thinking /\ r.orphans = 0 /\ r.before = <<>>
        /\ sent = r.shown \o Marked(run, thinking)
        /\ thinking => content = r.said /\ \E b \in Text : reasoning = b \o run
        /\ ~thinking => content = r.said \o run
    <2> HIDE DEF r
    <2> QED BY DEF RunFrom, r, run
  <1>5. Quiet(text, thinking, w, p)
    <2>1. CASE thinking
      <3>1. PICK b \in Text : reasoning = b \o run
        <4> HIDE DEF r
        <4> QED BY <1>4, <2>1
      <3>2. Find(b \o run, CloseTag) = 0
        BY <3>1 DEF Free
      <3>3. \A i \in w + 1..p : ~Occurs(text, CloseTag, i)
        BY <1>3, <3>2, TwoTags
      <3> QED BY <2>1, <3>3 DEF Quiet
    <2>2. CASE ~thinking
      <3>1. content = r.said \o run /\ r.said \in Text
        <4> HIDE DEF r
        <4> QED BY <1>1, <1>4, <2>2
      <3> HIDE DEF r
      <3>2. \A tag \in Tags : Find(r.said \o run, tag) = 0
        BY <3>1 DEF Free
      <3>3. \A tag \in Tags : \A i \in w + 1..p : ~Occurs(text, tag, i)
        BY <1>3, <3>1, <3>2
      <3> QED BY <3>3, TwoTags DEF Quiet
    <2> QED BY <2>1, <2>2
  <1>6. Advanced(q, r, run)
    <2>1. r.skip = 0 /\ Quiet(text, r.reasoning, w, p)
      <3> HIDE DEF r
      <3> QED BY <1>4, <1>5
    <2> QED BY <1>1, <2>1, ReadPiece DEF run
  <1> HIDE DEF q, r
  <1>7. /\ q.skip = 0 /\ q.reasoning = thinking /\ q.orphans = 0 /\ q.before = <<>>
        /\ q.shown = sent /\ q.said = content
    BY <1>4, <1>6 DEF Advanced
  <1> QED BY <1>5, <1>7 DEF q

Yieldings == [thinking : BOOLEAN, deltas : Seq(Text)]

\* What was yielded so far, whatever text it becomes the beginning of.
Transported(acc, content, reasoning, sent) ==
  \A text \in Text :
    Begins(Join(acc.deltas), text) =>
      \E w \in 0..Len(Join(acc.deltas)) :
        RunFrom(text, w, Len(Join(acc.deltas)), acc.thinking, content, reasoning, sent)

LEMMA YieldIs ==
  ASSUME NEW acc \in Yieldings, NEW delta \in Text, NEW thinking \in BOOLEAN
  PROVE  LET next == [Yield(acc, delta) EXCEPT !.thinking = thinking]
         IN  /\ next \in Yieldings /\ next.thinking = thinking
             /\ Join(next.deltas) = Join(acc.deltas) \o delta
             /\ Yield(acc, delta) = [Yield(acc, delta) EXCEPT !.thinking = acc.thinking]
  <1> DEFINE all == Append(acc.deltas, delta)
  <1>1. acc.deltas \in Seq(Text) /\ acc.thinking \in BOOLEAN
    BY DEF Yieldings
  <1>2. all \in Seq(Text) /\ Join(all) = Join(acc.deltas) \o delta
    BY <1>1, JoinOneMore
  <1>3. Yield(acc, delta) = [acc EXCEPT !.deltas = all]
    BY DEF Yield
  <1> HIDE DEF all
  <1> QED BY <1>1, <1>2, <1>3 DEF Yieldings

\* A delta of a text it is part of.
LEMMA Placed ==
  ASSUME NEW text \in Text, NEW piece \in Text, NEW delta \in Text, Begins(piece \o delta, text)
  PROVE  /\ Begins(piece, text) /\ Len(piece) \in 0..Len(text)
         /\ Len(piece \o delta) = Len(piece) + Len(delta) /\ Len(piece \o delta) \in 0..Len(text)
         /\ Len(piece) \in 0..Len(piece \o delta)
         /\ delta = SubSeq(text, Len(piece) + 1, Len(piece \o delta))
         /\ Len(piece) \in Nat
  <1>1. Len(text) \in Nat /\ Len(piece) \in Nat /\ Len(delta) \in Nat
    BY LenProperties DEF Text
  <1>2. /\ Begins(piece, text) /\ Len(piece \o delta) = Len(piece) + Len(delta)
        /\ delta = SubSeq(text, Len(piece) + 1, Len(piece \o delta))
    BY BeginsConcat
  <1>3. Len(piece \o delta) <= Len(text)
    BY DEF Begins
  <1>4. Len(piece) <= Len(piece) + Len(delta) /\ Len(piece) <= Len(text)
    BY <1>1, <1>2, <1>3
  <1>5. Len(piece \o delta) \in 0..Len(text) /\ Len(piece) \in 0..Len(piece \o delta)
        /\ Len(piece) \in 0..Len(text)
    BY <1>1, <1>2, <1>3, <1>4
  <1> QED BY <1>1, <1>2, <1>5

\* More of the same field.
LEMMA SameField ==
  ASSUME NEW acc \in Yieldings, NEW content \in Text, NEW reasoning \in Text, NEW sent \in Shown,
         NEW delta \in Text, Transported(acc, content, reasoning, sent)
  PROVE  Transported(Yield(acc, delta),
                     IF acc.thinking THEN content ELSE content \o delta,
                     IF acc.thinking THEN reasoning \o delta ELSE reasoning,
                     sent \o Marked(delta, acc.thinking))
  <1> DEFINE next == Yield(acc, delta)
             piece == Join(acc.deltas)
             thinking == acc.thinking
             more == IF acc.thinking THEN content ELSE content \o delta
             thought == IF acc.thinking THEN reasoning \o delta ELSE reasoning
             shown == sent \o Marked(delta, acc.thinking)
  <1>1. /\ next \in Yieldings /\ Join(next.deltas) = piece \o delta /\ next.thinking = thinking
    <2> DEFINE same == acc.thinking
    <2>1. same \in BOOLEAN
      BY DEF Yieldings
    <2>2. next = [next EXCEPT !.thinking = same]
      BY <2>1, YieldIs
    <2> HIDE DEF same
    <2>3. LET that == [Yield(acc, delta) EXCEPT !.thinking = same]
          IN  /\ that \in Yieldings /\ that.thinking = same
              /\ Join(that.deltas) = Join(acc.deltas) \o delta
      BY <2>1, YieldIs
    <2> QED BY <2>2, <2>3 DEF same
  <1>2. acc.deltas \in Seq(Text) /\ piece \in Text /\ thinking \in BOOLEAN
    BY JoinIs DEF Yieldings
  <1>3. ASSUME NEW text \in Text, Begins(piece \o delta, text)
        PROVE  \E w \in 0..Len(piece \o delta) :
                 RunFrom(text, w, Len(piece \o delta), thinking, more, thought, shown)
    <2> DEFINE p == Len(piece)
               n == Len(piece \o delta)
    <2> HIDE DEF piece
    <2>1. /\ Begins(piece, text) /\ p \in 0..Len(text) /\ n \in 0..Len(text) /\ p \in 0..n
          /\ delta = SubSeq(text, p + 1, n) /\ p \in Nat
      BY <1>2, <1>3, Placed
    <2>2. PICK w \in 0..p : RunFrom(text, w, p, thinking, content, reasoning, sent)
      BY <2>1 DEF Transported, piece
    <2> HIDE DEF p, n
    <2> DEFINE run == SubSeq(text, w + 1, p)
               longer == SubSeq(text, w + 1, n)
               r == ReadTo(text)[w]
    <2>3. /\ w \in Nat /\ p \in w..Len(text) /\ run \in Text
          /\ r.shown \in Shown /\ r.said \in Text
      BY <2>1, RunIsText
    <2>4. w \in 0..n /\ n \in p..Len(text)
      BY <2>1, <2>3, LenProperties DEF Text
    <2>5. run \o delta = longer
      BY <2>1, <2>3, <2>4, Adjacent DEF Text
    <2>6. /\ r.skip = 0 /\ r.reasoning = thinking /\ r.orphans = 0 /\ r.before = <<>>
          /\ sent = r.shown \o Marked(run, thinking)
          /\ thinking => content = r.said /\ \E b \in Text : reasoning = b \o run
          /\ ~thinking => content = r.said \o run
      <3> HIDE DEF r, thinking
      <3> QED BY <2>2 DEF RunFrom, r, run
    <2> HIDE DEF run, longer, r
    <2>7. shown = r.shown \o Marked(longer, thinking)
      <3> DEFINE a == r.shown
                 b == Marked(run, thinking)
                 c == Marked(delta, thinking)
      <3>1. Marked(longer, thinking) = b \o c
        <4> HIDE DEF thinking
        <4> QED BY ZenonT(60), <1>2, <2>3, <2>5, MarkedConcat
      <3>2. a \in Shown /\ b \in Shown /\ c \in Shown
        <4> HIDE DEF thinking
        <4> QED BY <1>2, <2>3, MarkedText
      <3>3. shown = (a \o b) \o c
        BY <2>6
      <3> HIDE DEF a, b, c, shown
      <3>4. (a \o b) \o c = a \o (b \o c)
        BY <3>2, ShownAssoc
      <3> QED BY <3>1, <3>3, <3>4 DEF a
    <2>8. thinking => more = r.said /\ \E b \in Text : thought = b \o longer
      <3> SUFFICES ASSUME thinking
                   PROVE  more = r.said /\ \E b \in Text : thought = b \o longer
        OBVIOUS
      <3>1. more = content /\ thought = reasoning \o delta
        OBVIOUS
      <3>2. PICK b \in Text : reasoning = b \o run
        BY <2>6
      <3>3. (b \o run) \o delta = b \o (run \o delta)
        BY ZenonT(60), <2>3, TextAssoc
      <3> HIDE DEF more, thought, thinking
      <3>4. thought = b \o longer
        BY <2>5, <3>1, <3>2, <3>3
      <3> QED BY <2>6, <3>1, <3>4
    <2>9. ~thinking => more = r.said \o longer
      <3> SUFFICES ASSUME ~thinking
                   PROVE  more = r.said \o longer
        OBVIOUS
      <3>1. more = content \o delta
        OBVIOUS
      <3> DEFINE a == r.said
      <3>2. a \in Text /\ content = a \o run
        BY <2>3, <2>6
      <3> HIDE DEF a
      <3>3. (a \o run) \o delta = a \o (run \o delta)
        BY ZenonT(60), <2>3, <3>2, TextAssoc
      <3> HIDE DEF more
      <3> QED BY <2>5, <3>1, <3>2, <3>3 DEF a
    <2> HIDE DEF more, thought, shown, thinking
    <2>10. RunFrom(text, w, n, thinking, more, thought, shown)
      BY <2>6, <2>7, <2>8, <2>9 DEF RunFrom, r, longer
    <2> QED BY <2>4, <2>10 DEF n
  <1> HIDE DEF next, more, thought, shown, piece, thinking
  <1>4. Transported(next, more, thought, shown)
    BY <1>1, <1>3 DEF Transported
  <1> QED BY <1>4 DEF next, more, thought, shown

LEMMA RunEnds ==
  ASSUME NEW text \in Text, NEW p \in 0..Len(text), NEW w \in 0..p, NEW thinking \in BOOLEAN,
         NEW content \in Text, NEW reasoning \in Text, NEW sent,
         RunFrom(text, w, p, thinking, content, reasoning, sent),
         Free(content, Tags), Free(reasoning, {CloseTag}),
         NEW tag \in Tags, NEW next, next = p + 1, Occurs(text, tag, next)
  PROVE  LET q == ReadTo(text)[p]
         IN  /\ q.skip = 0 /\ q.reasoning = thinking /\ q.orphans = 0 /\ q.before = <<>>
             /\ q.shown = sent /\ q.said = content
  <1>1. p \in Nat /\ w \in Nat
    BY LenProperties DEF Text
  <1>2. ASSUME NEW other \in Tags, NEW i \in w + 1..p, Occurs(text, other, i)
        PROVE  i + Len(other) - 1 <= p
    <2>1. i \in Nat /\ i < p + 1 /\ p + 1 \in Nat /\ Len(other) \in Nat
      BY <1>1, TagFacts
    <2>2. p + 1 >= i + Len(other)
      BY <1>2, <2>1, TagsApart
    <2> QED BY <1>1, <2>1, <2>2
  <1> QED BY ZenonT(60), <1>2, QuietRun

\* The other field: a tag ends the run.
LEMMA OtherField ==
  ASSUME NEW acc \in Yieldings, NEW content \in Text, NEW reasoning \in Text, NEW sent \in Shown,
         NEW tag \in Tags, acc.thinking <=> tag = CloseTag,
         Free(content, Tags), Free(reasoning, {CloseTag}),
         Transported(acc, content, reasoning, sent)
  PROVE  Transported([Yield(acc, tag) EXCEPT !.thinking = ~acc.thinking], content, reasoning, sent)
  <1> DEFINE next == [Yield(acc, tag) EXCEPT !.thinking = ~acc.thinking]
             piece == Join(acc.deltas)
             thinking == acc.thinking
  <1>1. tag \in Text /\ Len(tag) \in Nat \ {0} /\ OpenTag # CloseTag
    BY TagFacts, TagsAssumption
  <1>2. acc.deltas \in Seq(Text) /\ piece \in Text /\ thinking \in BOOLEAN /\ (~thinking) \in BOOLEAN
    <2>1. acc.deltas \in Seq(Text) /\ thinking \in BOOLEAN
      BY DEF Yieldings
    <2>2. piece \in Text
      BY <2>1, JoinIs
    <2> QED BY <2>1, <2>2
  <1>3. /\ next \in Yieldings /\ Join(next.deltas) = piece \o tag /\ next.thinking = ~thinking
    <2> DEFINE flipped == ~acc.thinking
    <2>1. flipped \in BOOLEAN
      OBVIOUS
    <2> HIDE DEF flipped
    <2>2. /\ [Yield(acc, tag) EXCEPT !.thinking = flipped] \in Yieldings
          /\ [Yield(acc, tag) EXCEPT !.thinking = flipped].thinking = flipped
          /\ Join([Yield(acc, tag) EXCEPT !.thinking = flipped].deltas) = Join(acc.deltas) \o tag
      BY <1>1, <2>1, YieldIs
    <2> QED BY <2>2 DEF flipped
  <1>4. ASSUME NEW text \in Text, Begins(piece \o tag, text)
        PROVE  \E w \in 0..Len(piece \o tag) :
                 RunFrom(text, w, Len(piece \o tag), ~thinking, content, reasoning, sent)
    <2> DEFINE p == Len(piece)
               n == Len(piece \o tag)
               there == ReadTo(text)[p]
               v == ReadTo(text)[p + Len(tag)]
    <2> HIDE DEF piece
    <2>1. /\ Begins(piece, text) /\ p \in 0..Len(text) /\ n \in 0..Len(text) /\ p \in 0..n
          /\ tag = SubSeq(text, p + 1, n) /\ p \in Nat /\ n = p + Len(tag)
      BY <1>1, <1>2, <1>4, Placed
    <2>2. PICK w \in 0..p : RunFrom(text, w, p, thinking, content, reasoning, sent)
      BY <2>1 DEF Transported, piece
    <2>3. n \in p..Len(text) /\ n <= Len(text)
      BY <1>1, <2>1
    <2> HIDE DEF p, n
    <2>4. Occurs(text, tag, p + 1)
      <3>1. Occurs(tag, tag, 1) /\ 1 \in Nat \ {0}
        BY TagIsItself
      <3>2. Occurs(SubSeq(text, p + 1, n), tag, 1)
        BY <2>1, <3>1
      <3> QED BY <2>1, <2>3, <3>1, <3>2, OccursInSlice
    <2>6. /\ there.skip = 0 /\ there.reasoning = thinking /\ there.orphans = 0 /\ there.before = <<>>
          /\ there.shown = sent /\ there.said = content
      <3> HIDE DEF thinking
      <3>1. p \in 0..Len(text)
        BY <2>1
      <3>2. thinking \in BOOLEAN
        BY <1>2
      <3>3. RunFrom(text, w, p, thinking, content, reasoning, sent)
        BY <2>2
      <3>4. Occurs(text, tag, p + 1)
        BY <2>4
      <3>5. content \in Text /\ reasoning \in Text
        OBVIOUS
      <3>6. Free(content, Tags) /\ Free(reasoning, {CloseTag}) /\ tag \in Tags
        OBVIOUS
      <3> DEFINE n1 == p + 1
      <3>7. n1 = p + 1 /\ Occurs(text, tag, n1)
        BY <3>4
      <3> HIDE DEF there, n1
      <3>8. CASE thinking = TRUE
        <4>1. RunFrom(text, w, p, TRUE, content, reasoning, sent)
          BY <3>3, <3>8
        <4>2. LET r == ReadTo(text)[p]
              IN  /\ r.skip = 0 /\ r.reasoning = TRUE /\ r.orphans = 0 /\ r.before = <<>>
                  /\ r.shown = sent /\ r.said = content
          BY <3>1, <3>5, <3>6, <3>7, <4>1, RunEnds
        <4> QED BY <3>8, <4>2 DEF there
      <3>9. CASE thinking = FALSE
        <4>1. RunFrom(text, w, p, FALSE, content, reasoning, sent)
          BY <3>3, <3>9
        <4>2. LET r == ReadTo(text)[p]
              IN  /\ r.skip = 0 /\ r.reasoning = FALSE /\ r.orphans = 0 /\ r.before = <<>>
                  /\ r.shown = sent /\ r.said = content
          BY ZenonT(60), <3>1, <3>5, <3>6, <3>7, <4>1, RunEnds
        <4> QED BY <3>9, <4>2 DEF there
      <3> QED BY <3>2, <3>8, <3>9
    <2>7. thinking <=> tag = CloseTag
      OBVIOUS
    <2> HIDE DEF thinking
    <2>8. n \in p + 1..Len(text) /\ Turned(v, there, tag)
      <3>1. there.reasoning => tag = CloseTag
        <4> HIDE DEF there
        <4> QED BY <2>6, <2>7
      <3>2. there.skip = 0
        <4> HIDE DEF there
        <4> QED BY <2>6
      <3> QED BY <2>1, <2>4, <3>1, <3>2, PassTag
    <2> HIDE DEF there
    <2>9. /\ v.skip = 0 /\ v.reasoning = ~thinking /\ v.orphans = 0 /\ v.before = <<>>
          /\ v.shown = sent /\ v.said = content
      <3> HIDE DEF v
      <3>1. v.reasoning = ~thinking
        <4>1. v.reasoning <=> tag = OpenTag
          BY <2>8 DEF Turned
        <4>2. v.reasoning \in BOOLEAN
          <5>1. p + Len(tag) \in 0..Len(text)
            BY <2>1, <2>3
          <5> QED BY <5>1, ReadingAt DEF v
        <4>3. tag = OpenTag <=> tag # CloseTag
          BY <1>1 DEF Tags
        <4> QED BY <1>2, <2>7, <4>1, <4>2, <4>3
      <3>2. ~(~there.reasoning /\ tag = CloseTag)
        BY <2>6, <2>7
      <3> QED BY <2>6, <2>8, <3>1, <3>2 DEF Turned
    <2>10. SubSeq(text, n + 1, n) = <<>> /\ v = ReadTo(text)[n]
      <3>1. SubSeq(text, n + 1, n) = <<>>
        BY <2>1, NoSlice DEF Text
      <3> QED BY <2>1, <3>1
    <2> HIDE DEF v
    <2>11. sent = v.shown \o Marked(<<>>, ~thinking)
      <3>1. Marked(<<>>, ~thinking) = <<>>
        BY <1>2, MarkedNone
      <3>2. sent \o <<>> = sent
        BY ShownConcat
      <3> QED BY <2>9, <3>1, <3>2
    <2>12. content \o <<>> = content /\ reasoning \o <<>> = reasoning
      BY TextConcat
    <2>13. RunFrom(text, n, n, ~thinking, content, reasoning, sent)
      <3>1. ~thinking => content = v.said /\ \E b \in Text : reasoning = b \o <<>>
        BY <2>9, <2>12
      <3>2. ~(~thinking) => content = v.said \o <<>>
        BY <2>9, <2>12
      <3> QED BY <2>9, <2>10, <2>11, <3>1, <3>2 DEF RunFrom
    <2>14. n \in 0..n
      BY <2>1
    <2> QED BY <2>13, <2>14 DEF n
  <1> HIDE DEF next, piece, thinking
  <1>5. Transported(next, content, reasoning, sent)
    BY <1>3, <1>4 DEF Transported
  <1> QED BY <1>5 DEF next

\* What is left open at the end is an answer without tags.
LEMMA AllArrived ==
  ASSUME NEW acc \in Yieldings, ~acc.thinking, NEW content \in Text, NEW reasoning \in Text,
         NEW sent \in Shown, Free(content, Tags), Free(reasoning, {CloseTag}),
         Transported(acc, content, reasoning, sent)
  PROVE  LET text == Join(acc.deltas)
             r == Reading(text)
         IN  /\ text \in Text /\ r.orphans = 0 /\ r.before = <<>>
             /\ r.shown = sent /\ r.said = content
  <1> DEFINE text == Join(acc.deltas)
             p == Len(text)
             r == Reading(text)
  <1>1. acc.deltas \in Seq(Text) /\ text \in Text
    BY JoinIs DEF Yieldings
  <1>2. Begins(text, text)
    BY <1>1, BeginsItself
  <1>3. PICK w \in 0..p : RunFrom(text, w, p, FALSE, content, reasoning, sent)
    <2>1. acc.thinking = FALSE
      BY DEF Yieldings
    <2> QED BY <1>1, <1>2, <2>1 DEF Transported
  <1> HIDE DEF text
  <1>4. p \in Nat /\ p \in 0..Len(text)
    BY <1>1, LenProperties DEF Text
  <1>5. \A tag \in Tags : \A i \in w + 1..p : Occurs(text, tag, i) => i + Len(tag) - 1 <= p
    BY DEF Occurs
  <1>6. r = ReadTo(text)[p]
    BY DEF Reading
  <1> HIDE DEF p
  <1>7. LET q == ReadTo(text)[p]
        IN  /\ q.orphans = 0 /\ q.before = <<>> /\ q.shown = sent /\ q.said = content
    BY <1>1, <1>3, <1>4, <1>5, QuietRun
  <1> QED BY <1>1, <1>6, <1>7 DEF text

\* A chunk's reasoning, with the opener that comes first.
LEMMA ReasoningYielded ==
  ASSUME NEW acc \in Yieldings, NEW text \in Text
  PROVE  /\ YieldReasoning(acc, text) \in Yieldings
         /\ \A content \in Text, reasoning \in Text, sent \in Shown :
              /\ Free(content, Tags) /\ Free(reasoning, {CloseTag})
              /\ Transported(acc, content, reasoning, sent)
              => Transported(YieldReasoning(acc, text), content, reasoning \o text,
                             sent \o Marked(text, TRUE))
  <1> DEFINE opened == [Yield(acc, OpenTag) EXCEPT !.thinking = TRUE]
             from == IF acc.thinking THEN acc ELSE opened
  <1>1. acc.thinking \in BOOLEAN /\ OpenTag \in Tags /\ OpenTag \in Text
    BY TwoTags, TagFacts DEF Yieldings
  <1>2. opened \in Yieldings /\ opened.thinking = TRUE
    BY <1>1, YieldIs
  <1>3. CASE text = <<>>
    <2>1. YieldReasoning(acc, text) = acc
      BY <1>3 DEF YieldReasoning
    <2>2. ASSUME NEW content \in Text, NEW reasoning \in Text, NEW sent \in Shown
          PROVE  reasoning \o text = reasoning /\ sent \o Marked(text, TRUE) = sent
      <3>1. Marked(text, TRUE) = <<>>
        BY <1>3, MarkedNone
      <3> QED BY <1>3, <3>1, TextConcat, ShownConcat
    <2> QED BY <2>1, <2>2
  <1>4. CASE text # <<>>
    <2>1. from \in Yieldings /\ from.thinking = TRUE
      <3> HIDE DEF opened
      <3> QED BY <1>1, <1>2
    <2>2. YieldReasoning(acc, text) = Yield(from, text)
      BY <1>4 DEF YieldReasoning
    <2>3. Yield(from, text) \in Yieldings
      <3> HIDE DEF from
      <3> DEFINE same == from.thinking
      <3>1. same \in BOOLEAN
        BY <2>1
      <3>2. /\ [Yield(from, text) EXCEPT !.thinking = same] \in Yieldings
            /\ Yield(from, text) = [Yield(from, text) EXCEPT !.thinking = from.thinking]
        <4> HIDE DEF same
        <4> QED BY <2>1, <3>1, YieldIs
      <3> QED BY <3>2
    <2>4. ASSUME NEW content \in Text, NEW reasoning \in Text, NEW sent \in Shown,
                 Free(content, Tags), Free(reasoning, {CloseTag}),
                 Transported(acc, content, reasoning, sent)
          PROVE  Transported(Yield(from, text), content, reasoning \o text,
                             sent \o Marked(text, TRUE))
      <3>1. Transported(from, content, reasoning, sent)
        <4>1. CASE acc.thinking
          BY <2>4, <4>1
        <4>2. CASE ~acc.thinking
          <5>1. acc.thinking <=> OpenTag = CloseTag
            BY <4>2, TagsAssumption
          <5>2. Transported([Yield(acc, OpenTag) EXCEPT !.thinking = ~acc.thinking],
                            content, reasoning, sent)
            BY <1>1, <2>4, <5>1, OtherField
          <5>3. (~acc.thinking) = TRUE
            BY <4>2
          <5>4. from = [Yield(acc, OpenTag) EXCEPT !.thinking = ~acc.thinking]
            BY <4>2, <5>3
          <5> QED BY <5>2, <5>4
        <4> QED BY <4>1, <4>2
      <3> HIDE DEF from
      <3>2. Transported(Yield(from, text),
                        IF from.thinking THEN content ELSE content \o text,
                        IF from.thinking THEN reasoning \o text ELSE reasoning,
                        sent \o Marked(text, from.thinking))
        BY <2>1, <2>4, <3>1, SameField
      <3> QED BY <2>1, <3>2
    <2> HIDE DEF from
    <2> QED BY <2>2, <2>3, <2>4
  <1> QED BY <1>3, <1>4

\* The closer, and with it the end of what is thought.
LEMMA ClosedYielded ==
  ASSUME NEW acc \in Yieldings
  PROVE  /\ YieldClose(acc) \in Yieldings /\ YieldClose(acc).thinking = FALSE
         /\ \A content \in Text, reasoning \in Text, sent \in Shown :
              /\ Free(content, Tags) /\ Free(reasoning, {CloseTag})
              /\ Transported(acc, content, reasoning, sent)
              => Transported(YieldClose(acc), content, reasoning, sent)
  <1> DEFINE closed == [Yield(acc, CloseTag) EXCEPT !.thinking = FALSE]
  <1>1. acc.thinking \in BOOLEAN /\ CloseTag \in Tags /\ CloseTag \in Text
    BY TwoTags, TagFacts DEF Yieldings
  <1>2. closed \in Yieldings /\ closed.thinking = FALSE
    BY ZenonT(60), <1>1, YieldIs
  <1>3. YieldClose(acc) = IF acc.thinking THEN closed ELSE acc
    BY DEF YieldClose
  <1>4. ASSUME acc.thinking, NEW content \in Text, NEW reasoning \in Text, NEW sent \in Shown,
               Free(content, Tags), Free(reasoning, {CloseTag}),
               Transported(acc, content, reasoning, sent)
        PROVE  Transported(closed, content, reasoning, sent)
    <2>1. Transported([Yield(acc, CloseTag) EXCEPT !.thinking = ~acc.thinking],
                      content, reasoning, sent)
      BY <1>1, <1>4, OtherField
    <2>2. (~acc.thinking) = FALSE
      BY <1>4
    <2> QED BY <2>1, <2>2
  <1> HIDE DEF closed
  <1>5. CASE acc.thinking
    BY <1>2, <1>3, <1>4, <1>5
  <1>6. CASE ~acc.thinking
    BY <1>1, <1>3, <1>6
  <1> QED BY <1>5, <1>6

\* A chunk's content.
LEMMA ContentYielded ==
  ASSUME NEW acc \in Yieldings, NEW text \in Text
  PROVE  /\ YieldContent(acc, text) \in Yieldings
         /\ \A content \in Text, reasoning \in Text, sent \in Shown :
              /\ Free(content, Tags) /\ Free(reasoning, {CloseTag})
              /\ Transported(acc, content, reasoning, sent)
              => Transported(YieldContent(acc, text), content \o text, reasoning,
                             sent \o Marked(text, FALSE))
  <1> DEFINE from == YieldClose(acc)
  <1>1. CASE text = <<>>
    <2>1. YieldContent(acc, text) = acc
      BY <1>1 DEF YieldContent
    <2>2. ASSUME NEW content \in Text, NEW reasoning \in Text, NEW sent \in Shown
          PROVE  content \o text = content /\ sent \o Marked(text, FALSE) = sent
      <3>1. Marked(text, FALSE) = <<>>
        BY <1>1, MarkedNone
      <3> QED BY <1>1, <3>1, TextConcat, ShownConcat
    <2> QED BY <2>1, <2>2
  <1>2. CASE text # <<>>
    <2>1. /\ from \in Yieldings /\ from.thinking = FALSE
          /\ \A content \in Text, reasoning \in Text, sent \in Shown :
               /\ Free(content, Tags) /\ Free(reasoning, {CloseTag})
               /\ Transported(acc, content, reasoning, sent)
               => Transported(from, content, reasoning, sent)
      BY ClosedYielded
    <2>2. YieldContent(acc, text) = Yield(from, text)
      BY <1>2 DEF YieldContent
    <2> HIDE DEF from
    <2>3. Yield(from, text) \in Yieldings
      <3> DEFINE same == from.thinking
      <3>1. same \in BOOLEAN
        BY <2>1
      <3>2. /\ [Yield(from, text) EXCEPT !.thinking = same] \in Yieldings
            /\ Yield(from, text) = [Yield(from, text) EXCEPT !.thinking = from.thinking]
        <4> HIDE DEF same
        <4> QED BY <2>1, <3>1, YieldIs
      <3> QED BY <3>2
    <2>4. ASSUME NEW content \in Text, NEW reasoning \in Text, NEW sent \in Shown,
                 Free(content, Tags), Free(reasoning, {CloseTag}),
                 Transported(acc, content, reasoning, sent)
          PROVE  Transported(Yield(from, text), content \o text, reasoning,
                             sent \o Marked(text, FALSE))
      <3>1. Transported(from, content, reasoning, sent)
        BY <2>1, <2>4
      <3>2. Transported(Yield(from, text),
                        IF from.thinking THEN content ELSE content \o text,
                        IF from.thinking THEN reasoning \o text ELSE reasoning,
                        sent \o Marked(text, from.thinking))
        BY <2>1, <2>4, <3>1, SameField
      <3> QED BY <2>1, <3>2
    <2> QED BY <2>2, <2>3, <2>4
  <1> QED BY <1>1, <1>2

Chunks == [reasoning : Text, content : Text]


LEMMA YieldedToDef ==
  ASSUME NEW chunks \in Seq(Chunks)
  PROVE  /\ YieldedTo(chunks) \in [0..Len(chunks) -> Yieldings]
         /\ YieldedTo(chunks)[0] = NothingYielded
         /\ \A n \in 1..Len(chunks) : YieldedTo(chunks)[n] = YieldContent(YieldReasoning(YieldedTo(chunks)[n - 1], chunks[n].reasoning), chunks[n].content)
  <1> DEFINE N == Len(chunks)
             C == Yieldings
             Turn(r, n) == YieldContent(YieldReasoning(r, chunks[n].reasoning), chunks[n].content)
             Value(f, n) == IF n = 0 THEN NothingYielded ELSE Turn(f[n - 1], n)
             Defines(f) == f = [n \in 0..N |-> Value(f, n)]
             step == [p \in C \X (1..N) |-> Turn(p[1], p[2])]
             f == YieldedTo(chunks)
  <1>1. f = CHOOSE g : Defines(g)
    BY DEF YieldedTo
  <1>2. N \in Nat
    BY LenProperties
  <1>3. NothingYielded \in C
    <2>1. <<>> \in Seq(Text)
      BY EmptySeq
    <2> QED BY <2>1 DEF NothingYielded, Yieldings
  <1>4. \A r \in C, n \in 1..N : Turn(r, n) \in C
    <2> TAKE r \in C, n \in 1..N
    <2> DEFINE a == chunks[n].reasoning
               b == chunks[n].content
    <2>1. a \in Text /\ b \in Text
      <3>1. chunks[n] \in Chunks
        BY ElementOfSeq
      <3> QED BY <3>1 DEF Chunks
    <2> HIDE DEF a, b
    <2>2. YieldReasoning(r, a) \in Yieldings
      BY <2>1, ReasoningYielded
    <2>3. YieldContent(YieldReasoning(r, a), b) \in Yieldings
      BY <2>1, <2>2, ContentYielded
    <2> QED BY <2>3 DEF a, b
  <1> HIDE DEF Turn
  <1>5. step \in [C \X (1..N) -> C]
    BY <1>4
  <1>6. \A r \in C, n \in 1..N : step[<<r, n>>] = Turn(r, n)
    OBVIOUS
  <1> HIDE DEF step, N, f, C
  <1>7. PICK g \in [0..N -> C] : FollowsTo(g, NothingYielded, step, N)
    BY <1>2, <1>3, <1>5, FiniteRecursion
  <1>8. g[0] = NothingYielded /\ \A n \in 1..N : g[n] = Turn(g[n - 1], n)
    <2>1. \A n \in 1..N : n - 1 \in 0..N
      BY <1>2
    <2> QED BY <1>6, <1>7, <2>1 DEF FollowsTo
  <1>9. Defines(g)
    <2>1. \A n \in 0..N : n # 0 => n \in 1..N
      BY <1>2
    <2>2. \A n \in 0..N : g[n] = Value(g, n)
      BY <1>8, <2>1
    <2> HIDE DEF Value
    <2> QED BY <2>2
  <1>10. Defines(f)
    <2> HIDE DEF Defines
    <2> QED BY <1>1, <1>9
  <1>11. f[0] = NothingYielded /\ \A n \in 1..N : f[n] = Turn(f[n - 1], n)
    <2>1. \A n \in 0..N : f[n] = Value(f, n)
      <3> HIDE DEF Value
      <3> QED BY <1>10
    <2> QED BY <1>2, <2>1
  <1>12. \A n \in 0..N : f[n] \in C
    <2> DEFINE S == {n \in 0..N : f[n] \in C}
    <2>1. 0 \in S
      BY <1>2, <1>3, <1>11
    <2>2. \A n \in 1..N : n - 1 \in S => n \in S
      BY <1>2, <1>4, <1>11
    <2> HIDE DEF S
    <2>3. \A n \in 0..N : n \in S
      BY <1>2, <2>1, <2>2, UpTo
    <2> QED BY <2>3 DEF S
  <1>13. f \in [0..N -> C]
    <2>1. f = [n \in 0..N |-> Value(f, n)]
      BY <1>10
    <2> HIDE DEF Value
    <2>2. \A n \in 0..N : Value(f, n) \in C
      BY <1>12, <2>1
    <2> QED BY <2>1, <2>2
  <1> QED BY <1>11, <1>13 DEF N, f, Turn, C


\* models/llm.py: reasoning in a field of its own, or in tags.
LEMMA BothTransportsAgree ==
  ASSUME NEW chunks \in Seq(Chunks)
  PROVE  TransportsAgree(chunks)
  <1> DEFINE N == Len(chunks)
             contents == [i \in 1..N |-> chunks[i].content]
             thoughts == [i \in 1..N |-> chunks[i].reasoning]
             sents == [i \in 1..N |->
                         Marked(chunks[i].reasoning, TRUE) \o Marked(chunks[i].content, FALSE)]
             content == Join(contents)
             reasoning == Join(thoughts)
             sent == Join(sents)
             acc == YieldedTo(chunks)[N]
             deltas == IterStreamDeltas(chunks)
             text == Join(deltas)
             s == Split(deltas)
             r == Reading(text)
  <1>1. N \in Nat
    BY LenProperties
  <1>2. ASSUME NEW i \in 1..N
        PROVE  /\ chunks[i].content \in Text /\ chunks[i].reasoning \in Text
               /\ Marked(chunks[i].reasoning, TRUE) \in Shown
               /\ Marked(chunks[i].content, FALSE) \in Shown
               /\ Marked(chunks[i].reasoning, TRUE) \o Marked(chunks[i].content, FALSE) \in Shown
    <2>1. chunks[i] \in Chunks
      BY ElementOfSeq
    <2>2. chunks[i].content \in Text /\ chunks[i].reasoning \in Text
      BY <2>1 DEF Chunks
    <2>3. /\ Marked(chunks[i].reasoning, TRUE) \in Shown
          /\ Marked(chunks[i].content, FALSE) \in Shown
      BY <2>2, MarkedText
    <2> QED BY <2>2, <2>3, ShownConcat
  <1>3. /\ contents \in Seq(Text) /\ Len(contents) = N
        /\ thoughts \in Seq(Text) /\ Len(thoughts) = N
    <2>1. contents \in [1..N -> Text] /\ thoughts \in [1..N -> Text]
      BY <1>2
    <2> HIDE DEF contents, thoughts, N
    <2>2. contents \in Seq(Text) /\ thoughts \in Seq(Text)
      BY <1>1, <2>1, SeqDef
    <2>3. DOMAIN contents = 1..N /\ DOMAIN thoughts = 1..N
      BY <2>1
    <2> QED BY <1>1, <2>2, <2>3, LenProperties
  <1>4. sents \in Seq(Shown) /\ Len(sents) = N
    <2>1. sents \in [1..N -> Shown]
      BY <1>2
    <2> HIDE DEF sents, N
    <2>2. sents \in Seq(Shown)
      BY <1>1, <2>1, SeqDef
    <2>3. DOMAIN sents = 1..N
      BY <2>1
    <2> QED BY <1>1, <2>2, <2>3, LenProperties
  <1>5. \A i \in 1..N : /\ contents[i] = chunks[i].content /\ thoughts[i] = chunks[i].reasoning
                        /\ sents[i] = Marked(chunks[i].reasoning, TRUE)
                                        \o Marked(chunks[i].content, FALSE)
    OBVIOUS
  <1> HIDE DEF contents, thoughts, sents, N
  <1>6. /\ content \in Text /\ content = JoinedTo(contents)[N] /\ JoinedTo(contents)[0] = <<>>
        /\ \A n \in 0..N : JoinedTo(contents)[n] \in Text /\ Begins(JoinedTo(contents)[n], content)
        /\ \A n \in 1..N : JoinedTo(contents)[n] = JoinedTo(contents)[n - 1] \o contents[n]
    BY <1>3, JoinIs, JoinPieces
  <1>7. /\ reasoning \in Text /\ reasoning = JoinedTo(thoughts)[N] /\ JoinedTo(thoughts)[0] = <<>>
        /\ \A n \in 0..N : JoinedTo(thoughts)[n] \in Text /\ Begins(JoinedTo(thoughts)[n], reasoning)
        /\ \A n \in 1..N : JoinedTo(thoughts)[n] = JoinedTo(thoughts)[n - 1] \o thoughts[n]
    BY <1>3, JoinIs, JoinPieces
  <1>8. /\ sent = JoinedTo(sents)[N] /\ JoinedTo(sents)[0] = <<>>
        /\ \A n \in 0..N : JoinedTo(sents)[n] \in Shown
        /\ \A n \in 1..N : JoinedTo(sents)[n] = JoinedTo(sents)[n - 1] \o sents[n]
    <2> DEFINE S == BOOLEAN \X Alphabet
    <2>1. sents \in Seq(Seq(S))
      BY <1>4 DEF Shown
    <2> HIDE DEF S
    <2>2. /\ JoinedTo(sents) \in [0..Len(sents) -> Seq(S)]
          /\ JoinedTo(sents)[0] = <<>>
          /\ \A n \in 1..Len(sents) : JoinedTo(sents)[n] = JoinedTo(sents)[n - 1] \o sents[n]
      BY <2>1, JoinedToDef
    <2>3. \A n \in 0..N : JoinedTo(sents)[n] \in Seq(S)
      BY <1>4, <2>2
    <2>4. sent = JoinedTo(sents)[N]
      BY <1>4 DEF Join
    <2> QED BY <1>4, <2>2, <2>3, <2>4 DEF Shown, S
  <1>9. /\ YieldedTo(chunks) \in [0..N -> Yieldings] /\ YieldedTo(chunks)[0] = NothingYielded
        /\ \A n \in 1..N : YieldedTo(chunks)[n]
             = YieldContent(YieldReasoning(YieldedTo(chunks)[n - 1], chunks[n].reasoning),
                            chunks[n].content)
    BY YieldedToDef DEF N
  <1> HIDE DEF content, reasoning, sent
  <1>10. SUFFICES ASSUME Free(content, Tags), Free(reasoning, {CloseTag})
                  PROVE  /\ s.shown = sent /\ ~s.orphan
                         /\ CleanResponse(text) = content
    BY DEF TransportsAgree, content, reasoning, sent, contents, thoughts, sents, N
  <1>11. \A n \in 0..N : /\ Free(JoinedTo(contents)[n], Tags)
                         /\ Free(JoinedTo(thoughts)[n], {CloseTag})
    <2>1. Tags \in SUBSET Tags /\ {CloseTag} \in SUBSET Tags
      BY DEF Tags
    <2> QED BY <1>6, <1>7, <1>10, <2>1, FreeBeginning
  <1> DEFINE Arrived(n) == Transported(YieldedTo(chunks)[n], JoinedTo(contents)[n],
                                       JoinedTo(thoughts)[n], JoinedTo(sents)[n])
             S == {n \in 0..N : Arrived(n)}
  <1>12. Transported(NothingYielded, <<>>, <<>>, <<>>)
    <2>1. Join(<<>>) = <<>> /\ Len(<<>>) = 0
      <3>1. <<>> \in Seq(Text) /\ Len(<<>>) = 0
        BY EmptySeq
      <3>2. Join(<<>>) = JoinedTo(<<>>)[Len(<<>>)] /\ JoinedTo(<<>>)[0] = <<>>
        BY <3>1, JoinIs
      <3> QED BY <3>1, <3>2
    <2>2. ASSUME NEW t \in Text
          PROVE  RunFrom(t, 0, 0, FALSE, <<>>, <<>>, <<>>)
      <3>1. ReadTo(t)[0] = Unread
        BY ReadToDef
      <3>2. SubSeq(t, 0 + 1, 0) = <<>>
        <4>1. 0 \in 0..Len(t)
          BY LenProperties DEF Text
        <4> QED BY <4>1, NoSlice DEF Text
      <3>3. Marked(<<>>, FALSE) = <<>>
        BY MarkedNone
      <3>4. <<>> \o <<>> = <<>>
        BY EmptyTexts, TextConcat
      <3>5. /\ Unread.skip = 0 /\ Unread.reasoning = FALSE /\ Unread.orphans = 0
            /\ Unread.before = <<>> /\ Unread.shown = <<>> /\ Unread.said = <<>>
        BY DEF Unread
      <3> QED BY <3>1, <3>2, <3>3, <3>4, <3>5 DEF RunFrom
    <2>3. NothingYielded.deltas = <<>> /\ NothingYielded.thinking = FALSE /\ 0 \in 0..0
      BY DEF NothingYielded
    <2> QED BY <2>1, <2>2, <2>3 DEF Transported
  <1>13. 0 \in S
    BY <1>1, <1>6, <1>7, <1>8, <1>9, <1>12
  <1>14. ASSUME NEW n \in 1..N, n - 1 \in S
         PROVE  n \in S
    <2> DEFINE before == YieldedTo(chunks)[n - 1]
               c == JoinedTo(contents)[n - 1]
               e == JoinedTo(thoughts)[n - 1]
               h == JoinedTo(sents)[n - 1]
               a == chunks[n].reasoning
               b == chunks[n].content
               mid == YieldReasoning(before, a)
               f == Marked(a, TRUE)
               g == Marked(b, FALSE)
    <2>1. n - 1 \in 0..N /\ n \in 0..N
      BY <1>1
    <2>2. before \in Yieldings /\ c \in Text /\ e \in Text /\ h \in Shown
      BY <1>6, <1>7, <1>8, <1>9, <2>1
    <2>3. a \in Text /\ b \in Text /\ f \in Shown /\ g \in Shown
      BY <1>2
    <2>4. Transported(before, c, e, h)
      BY <1>14
    <2>5. Free(c, Tags) /\ Free(e, {CloseTag}) /\ Free(e \o a, {CloseTag})
      <3>1. JoinedTo(thoughts)[n] = e \o a
        BY <1>5, <1>7
      <3> QED BY <1>11, <2>1, <3>1
    <2>6. /\ JoinedTo(contents)[n] = c \o b /\ JoinedTo(thoughts)[n] = e \o a
          /\ JoinedTo(sents)[n] = h \o (f \o g)
          /\ YieldedTo(chunks)[n] = YieldContent(mid, b)
      BY ZenonT(60), <1>5, <1>6, <1>7, <1>8, <1>9
    <2> HIDE DEF before, c, e, h, a, b, f, g, mid
    <2>7. mid \in Yieldings /\ Transported(mid, c, e \o a, h \o f)
      BY <2>2, <2>3, <2>4, <2>5, ReasoningYielded DEF mid, f
    <2>8. e \o a \in Text /\ h \o f \in Shown /\ (h \o f) \o g = h \o (f \o g)
      <3>1. e \o a \in Text
        BY <2>2, <2>3, TextConcat
      <3>2. h \o f \in Shown
        BY <2>2, <2>3, ShownConcat
      <3>3. (h \o f) \o g = h \o (f \o g)
        BY <2>2, <2>3, ShownAssoc
      <3> QED BY <3>1, <3>2, <3>3
    <2>9. Transported(YieldContent(mid, b), c \o b, e \o a, (h \o f) \o g)
      BY <2>2, <2>3, <2>5, <2>7, <2>8, ContentYielded DEF g
    <2> QED BY <2>1, <2>6, <2>8, <2>9
  <1> HIDE DEF S
  <1>15. Transported(acc, content, reasoning, sent)
    <2>1. \A n \in 0..N : n \in S
      BY <1>1, <1>13, <1>14, UpTo
    <2>2. N \in S
      BY <1>1, <2>1
    <2> QED BY <1>6, <1>7, <1>8, <2>2 DEF S
  <1>16. acc \in Yieldings /\ sent \in Shown
    BY <1>1, <1>8, <1>9
  <1> DEFINE last == YieldClose(acc)
  <1>17. deltas = last.deltas
    BY DEF IterStreamDeltas, N
  <1> HIDE DEF acc
  <1>18. /\ last \in Yieldings /\ last.thinking = FALSE
         /\ Transported(last, content, reasoning, sent)
    BY <1>6, <1>7, <1>10, <1>15, <1>16, ClosedYielded
  <1> HIDE DEF last
  <1>19. LET t == Join(last.deltas)
             q == Reading(t)
         IN  /\ t \in Text /\ q.orphans = 0 /\ q.before = <<>>
             /\ q.shown = sent /\ q.said = content
    BY <1>6, <1>7, <1>10, <1>16, <1>18, AllArrived
  <1>20. deltas \in Seq(Text)
    BY <1>17, <1>18 DEF Yieldings
  <1>21. /\ text \in Text /\ r.orphans = 0 /\ r.before = <<>> /\ r.shown = sent /\ r.said = content
    BY <1>17, <1>19
  <1> HIDE DEF deltas
  <1>22. s.shown = r.shown /\ (s.orphan <=> r.orphans > 0)
    BY <1>20, SplitReads
  <1>23. CleanResponse(text) = r.said
    <2>1. r.before \o r.said = content
      BY <1>6, <1>21, TextConcat
    <2>2. r.orphans <= 1 /\ Free(r.before \o r.said, Tags)
      BY <1>10, <1>21, <2>1
    <2> HIDE DEF text
    <2> QED BY <1>21, <2>2, CleanReads
  <1> QED BY <1>21, <1>22, <1>23

-----------------------------------------------------------------------------
(* Budgets of different modules                                            *)

\* chunking/contextual.py, models/llm.py: whatever document a chunk is from.
LEMMA BlurbIsWhole ==
  ASSUME NEW window \in Nat, NEW cap \in Nat \ {0}, NEW document \in Nat, NEW chunk \in Nat,
         NEW scaffolding \in Nat
  PROVE  BlurbKeepsItsCap([LLM_CONTEXT_TOKENS |-> window, CONTEXTUALIZE_MAX_TOKENS |-> cap],
                          document, chunk, scaffolding)
  <1> DEFINE s == [LLM_CONTEXT_TOKENS |-> window, CONTEXTUALIZE_MAX_TOKENS |-> cap]
             preamble == Preamble(s, document)
             room == DocTokenBudget(s)
             available == window - (preamble + chunk + scaffolding) - CtxHeadroom
             fit == FitMaxTokens(preamble + chunk + scaffolding, cap, window)
  <1>1. CtxHeadroom \in Nat /\ ChunkAllowance \in Nat /\ PromptOverhead \in Nat
    BY GroundingAssumption, ConfigurationAssumption
  <1>2. room = window - cap - ChunkAllowance - PromptOverhead
    BY DEF DocTokenBudget
  <1>3. room > 0 => preamble \in Nat /\ preamble <= room
    BY <1>1, <1>2 DEF Preamble
  <1>4. fit = IF available <= 0 THEN 0 ELSE Smaller(cap, available)
    BY DEF FitMaxTokens
  <1> HIDE DEF preamble, room, fit
  <1>5. SUFFICES ASSUME scaffolding + CtxHeadroom <= PromptOverhead, room > 0
                 PROVE  /\ chunk <= ChunkAllowance => fit = cap
                        /\ fit = 0 <=> preamble + chunk + scaffolding + CtxHeadroom >= window
    BY DEF BlurbKeepsItsCap, preamble, room, fit
  <1>6. available \in Int /\ (chunk <= ChunkAllowance => available >= cap)
    BY <1>1, <1>2, <1>3, <1>5
  <1>7. available <= 0 <=> preamble + chunk + scaffolding + CtxHeadroom >= window
    BY <1>1, <1>3, <1>5
  <1> HIDE DEF available
  <1> QED BY <1>4, <1>6, <1>7 DEF Smaller

-----------------------------------------------------------------------------
(* Sequences put together                                                   *)

\* FlattenSeq is Join, whose definition begins with nothing.
LEMMA FlattenIsJoin ==
  ASSUME NEW A, NEW parts \in Seq(Seq(A))
  PROVE  FlattenSeq(parts) = Join(parts)
  <1> DEFINE N == Len(parts)
             J == JoinedTo(parts)
             Value(f, i) == IF i = 1 THEN parts[i] ELSE f[i - 1] \o parts[i]
             Defines(f) == f = [i \in 1..N |-> Value(f, i)]
             f == CHOOSE g : Defines(g)
  <1>1. N \in Nat
    BY LenProperties
  <1>2. /\ J \in [0..N -> Seq(A)] /\ J[0] = <<>>
        /\ \A n \in 1..N : J[n] = J[n - 1] \o parts[n]
    BY JoinedToDef
  <1>3. \A n \in 1..N : parts[n] \in Seq(A)
    BY ElementOfSeq
  <1>4. CASE N = 0
    <2>1. parts = <<>>
      BY <1>4, EmptySeq
    <2>2. FlattenSeq(parts) = parts
      BY <1>4 DEF FlattenSeq
    <2>3. Join(parts) = J[0]
      BY <1>4 DEF Join
    <2> QED BY <1>2, <2>1, <2>2, <2>3
  <1>5. CASE N # 0
    <2>1. FlattenSeq(parts) = f[N]
      BY <1>5 DEF FlattenSeq
    <2>2. Join(parts) = J[N]
      BY DEF Join
    <2> HIDE DEF J, N
    <2> DEFINE g == [i \in 1..N |-> J[i]]
    <2>3. Defines(g)
      <3>1. \A i \in 1..N : J[i] = Value(g, i)
        <4>1. SUFFICES ASSUME NEW i \in 1..N
                       PROVE  J[i] = Value(g, i)
          OBVIOUS
        <4>2. CASE i = 1
          <5>1. parts[1] \in Seq(A) /\ J[1] = J[0] \o parts[1]
            <6>1. 1 \in 1..N /\ 1 - 1 = 0
              BY <4>1, <4>2
            <6> QED BY <1>2, <1>3, <6>1
          <5>2. J[1] = parts[1]
            BY <1>2, <5>1, ConcatEmptySeq
          <5> QED BY <4>2, <5>2
        <4>3. CASE i # 1
          <5>1. i - 1 \in 1..N
            BY <1>1, <4>3
          <5> QED BY <1>2, <4>3, <5>1
        <4> QED BY <4>2, <4>3
      <3> HIDE DEF Value
      <3> QED BY <3>1
    <2>4. Defines(f)
      <3> HIDE DEF Defines, g
      <3> QED BY <2>3
    <2> HIDE DEF f
    <2> DEFINE S == {n \in 0..N : n = 0 \/ f[n] = J[n]}
    <2>5. \A i \in 1..N : f[i] = Value(f, i)
      <3> HIDE DEF Value
      <3> QED BY <2>4
    <2>6. 0 \in S
      <3>1. 0 \in 0..N
        BY <1>1
      <3> QED BY <3>1, Zenon
    <2>7. ASSUME NEW n \in 1..N, n - 1 \in S
          PROVE  n \in S
      <3>1. n \in 0..N /\ n - 1 \in S
        BY <1>1, <2>7
      <3>2. CASE n = 1
        <4>1. parts[1] \in Seq(A) /\ J[1] = J[0] \o parts[1]
          <5>1. 1 \in 1..N /\ 1 - 1 = 0
            BY <3>1, <3>2
          <5> QED BY <1>2, <1>3, <5>1
        <4> QED BY <1>2, <2>5, <3>2, <4>1, ConcatEmptySeq
      <3>3. CASE n # 1
        <4>1. n - 1 # 0 /\ (n - 1 = 0 \/ f[n - 1] = J[n - 1])
          BY <1>1, <3>1, <3>3
        <4>2. f[n] = f[n - 1] \o parts[n] /\ J[n] = J[n - 1] \o parts[n]
          BY <1>2, <2>5, <3>3
        <4> QED BY <3>1, <4>1, <4>2
      <3> QED BY <3>2, <3>3
    <2> HIDE DEF S
    <2>8. N \in S
      <3>1. \A n \in 0..N : n \in S
        BY <1>1, <2>6, <2>7, UpTo
      <3> QED BY <1>1, <3>1
    <2> QED BY <1>5, <2>1, <2>2, <2>8 DEF S
  <1> QED BY <1>4, <1>5

\* What is in the whole is in one of the parts.
LEMMA JoinRange ==
  ASSUME NEW A, NEW parts \in Seq(Seq(A))
  PROVE  \A x : x \in Range(Join(parts)) <=> \E n \in 1..Len(parts) : x \in Range(parts[n])
  <1> DEFINE N == Len(parts)
             J == JoinedTo(parts)
             In(n) == \A x : x \in Range(J[n]) <=> \E k \in 1..n : x \in Range(parts[k])
             S == {n \in 0..N : In(n)}
  <1>1. N \in Nat
    BY LenProperties
  <1>2. /\ J \in [0..N -> Seq(A)] /\ J[0] = <<>>
        /\ \A n \in 1..N : J[n] = J[n - 1] \o parts[n]
    BY JoinedToDef
  <1>3. \A n \in 1..N : parts[n] \in Seq(A)
    BY ElementOfSeq
  <1>4. Join(parts) = J[N]
    BY DEF Join
  <1> HIDE DEF N, J
  <1>5. 0 \in S
    BY <1>1, <1>2 DEF Range
  <1>6. ASSUME NEW n \in 1..N, n - 1 \in S
        PROVE  n \in S
    <2>1. J[n - 1] \in Seq(A) /\ parts[n] \in Seq(A)
      BY <1>1, <1>2, <1>3
    <2>2. J[n] = J[n - 1] \o parts[n]
      BY <1>2
    <2>3. \A x : x \in Range(J[n]) <=> x \in Range(J[n - 1]) \/ x \in Range(parts[n])
      BY <2>1, <2>2, RangeConcatenation
    <2>4. \A k : k \in 1..n <=> k \in 1..(n - 1) \/ k = n
      BY <1>1
    <2>5. In(n - 1)
      BY <1>6
    <2> QED BY <2>3, <2>4, <2>5
  <1> HIDE DEF S
  <1>7. N \in S
    <2>1. \A n \in 0..N : n \in S
      BY <1>1, <1>5, <1>6, UpTo
    <2> QED BY <1>1, <2>1
  <1> QED BY <1>4, <1>7 DEF S, N

Increasing(s) == \A i, j \in DOMAIN s : i < j => s[i] < s[j]

Below(a, b) == \A x \in Range(a), y \in Range(b) : x < y

LEMMA IncreasingConcat ==
  ASSUME NEW a \in Seq(Nat), NEW b \in Seq(Nat), Increasing(a), Increasing(b), Below(a, b)
  PROVE  Increasing(a \o b)
  <1> DEFINE m == Len(a)
             n == Len(b)
             u == a \o b
  <1>1. m \in Nat /\ n \in Nat /\ DOMAIN a = 1..m /\ DOMAIN b = 1..n
    BY LenProperties
  <1>2. /\ u \in Seq(Nat) /\ DOMAIN u = 1..m + n
        /\ \A i \in 1..m + n : u[i] = IF i <= m THEN a[i] ELSE b[i - m]
    BY ConcatProperties, LenProperties
  <1>3. /\ \A i \in 1..m : a[i] \in Range(a)
        /\ \A i \in 1..n : b[i] \in Range(b)
    BY <1>1 DEF Range
  <1> HIDE DEF m, n, u
  <1>4. ASSUME NEW i \in 1..m + n, NEW j \in 1..m + n, i < j
        PROVE  u[i] < u[j]
    <2>1. CASE j <= m
      <3>1. i \in 1..m /\ j \in 1..m
        BY <1>1, <1>4, <2>1
      <3>2. u[i] = a[i] /\ u[j] = a[j]
        BY <1>2, <3>1
      <3>3. a[i] < a[j]
        BY <1>1, <1>4, <3>1 DEF Increasing
      <3> QED BY <3>2, <3>3
    <2>2. CASE i <= m /\ ~(j <= m)
      <3>1. i \in 1..m /\ j - m \in 1..n
        BY <1>1, <2>2
      <3>2. u[i] = a[i] /\ u[j] = b[j - m]
        BY <1>2, <2>2
      <3> QED BY <1>3, <3>1, <3>2 DEF Below
    <2>3. CASE ~(i <= m)
      <3>1. i - m \in 1..n /\ j - m \in 1..n /\ i - m < j - m
        BY <1>1, <1>4, <2>3
      <3>2. u[i] = b[i - m] /\ u[j] = b[j - m]
        <4>1. ~(j <= m)
          BY <1>1, <1>4, <2>3
        <4> QED BY <1>2, <2>3, <4>1
      <3>3. b[i - m] < b[j - m]
        BY <1>1, <3>1 DEF Increasing
      <3> QED BY <3>2, <3>3
    <2> QED BY <1>1, <2>1, <2>2, <2>3
  <1> QED BY <1>2, <1>4 DEF Increasing, u

\* Parts that increase, one above the other, increase as a whole.
LEMMA JoinIncreases ==
  ASSUME NEW parts \in Seq(Seq(Nat)), \A n \in 1..Len(parts) : Increasing(parts[n]),
         \A m, n \in 1..Len(parts) : m < n => Below(parts[m], parts[n])
  PROVE  Increasing(Join(parts))
  <1> DEFINE N == Len(parts)
             J == JoinedTo(parts)
             In(n) == \A x \in Range(J[n]) : \E k \in 1..n : x \in Range(parts[k])
             S == {n \in 0..N : Increasing(J[n]) /\ In(n)}
  <1>1. N \in Nat
    BY LenProperties
  <1>2. /\ J \in [0..N -> Seq(Nat)] /\ J[0] = <<>>
        /\ \A n \in 1..N : J[n] = J[n - 1] \o parts[n]
    BY JoinedToDef
  <1>3. \A n \in 1..N : parts[n] \in Seq(Nat) /\ Increasing(parts[n])
    BY ElementOfSeq
  <1>4. \A m, n \in 1..N : m < n => Below(parts[m], parts[n])
    OBVIOUS
  <1>5. Join(parts) = J[N]
    BY DEF Join
  <1> HIDE DEF N, J
  <1>6. 0 \in S
    BY <1>1, <1>2 DEF Range, Increasing
  <1>7. ASSUME NEW n \in 1..N, n - 1 \in S
        PROVE  n \in S
    <2>1. /\ J[n - 1] \in Seq(Nat) /\ parts[n] \in Seq(Nat) /\ n \in 0..N
          /\ J[n] = J[n - 1] \o parts[n]
      <3>1. n - 1 \in 0..N /\ n \in 0..N
        BY <1>1
      <3>2. J[n - 1] \in Seq(Nat)
        BY <1>2, <3>1
      <3> QED BY <1>2, <1>3, <3>1, <3>2
    <2>2. Range(J[n]) = Range(J[n - 1]) \cup Range(parts[n])
      BY <2>1, RangeConcatenation
    <2>3. \A k : k \in 1..n <=> k \in 1..(n - 1) \/ k = n
      BY <1>1
    <2>4. In(n - 1) /\ Increasing(J[n - 1])
      BY <1>7
    <2>5. In(n)
      BY <2>2, <2>3, <2>4
    <2>6. Below(J[n - 1], parts[n])
      <3>1. \A k \in 1..(n - 1) : k \in 1..N /\ k < n
        BY <1>1
      <3> QED BY <1>4, <2>4, <3>1 DEF Below
    <2>7. Increasing(J[n])
      BY <1>3, <2>1, <2>4, <2>6, IncreasingConcat
    <2> QED BY <2>1, <2>5, <2>7
  <1> HIDE DEF S
  <1>8. N \in S
    <2>1. \A n \in 0..N : n \in S
      BY <1>1, <1>6, <1>7, UpTo
    <2> QED BY <1>1, <2>1
  <1> QED BY <1>5, <1>8 DEF S

-----------------------------------------------------------------------------
(* Sections                                                                 *)

Fences == {"none", "backticks", "tildes"}

Line == {line \in [kind : {"heading", "fence", "text", "blank"}, level : Nat, mark : Fences] :
           line.kind = "heading" => line.level > 0}

Section == [path : Seq(Nat), lines : Seq(Nat)]

Scans == [sections : Seq(Section), path : Seq(Nat), lines : Seq(Nat), content : BOOLEAN,
          fence : Fences]

LEMMA FenceType ==
  ASSUME NEW fence \in Fences, NEW line \in Line
  PROVE  Fence(fence, line) \in Fences
  BY DEF Fence, Line, Fences, NoFence

LEMMA FlushedType ==
  ASSUME NEW scan \in Scans
  PROVE  Flushed(scan) \in Seq(Section)
  <1>1. [path |-> scan.path, lines |-> scan.lines] \in Section /\ scan.sections \in Seq(Section)
    BY DEF Scans, Section
  <1> QED BY <1>1, AppendProperties DEF Flushed

\* A shorter path, and the new heading at its end.
KeptOf(path, level) == IF Len(path) < level - 1 THEN Len(path) ELSE level - 1

LEMMA OpenPathIs ==
  ASSUME NEW path \in Seq(Nat), NEW level \in Nat \ {0}, NEW title \in Nat
  PROVE  /\ OpenPath(path, level, title) \in Seq(Nat)
         /\ Len(OpenPath(path, level, title)) = KeptOf(path, level) + 1
         /\ OpenPath(path, level, title)[KeptOf(path, level) + 1] = title
         /\ \A k \in 1..KeptOf(path, level) : OpenPath(path, level, title)[k] = path[k]
  <1> DEFINE kept == KeptOf(path, level)
             head == SubSeq(path, 1, kept)
  <1>1. kept \in 0..Len(path) /\ kept \in Nat /\ 1 \in Int
    BY LenProperties DEF KeptOf
  <1>2. OpenPath(path, level, title) = Append(head, title)
    BY DEF OpenPath, KeptOf
  <1> HIDE DEF kept
  <1>3. \A k \in 1..kept : path[k] \in Nat
    BY <1>1, ElementOfSeq
  <1>4. head \in Seq(Nat) /\ Len(head) = kept /\ \A k \in 1..kept : head[k] = path[k]
    <2>1. /\ head \in Seq(Nat) /\ Len(head) = (IF 1 <= kept THEN kept - 1 + 1 ELSE 0)
          /\ \A k \in 1..kept - 1 + 1 : head[k] = path[1 + k - 1]
      <3>1. kept \in Int
        BY <1>1
      <3> QED BY <1>1, <1>3, <3>1, SubSeqProperties
    <2> HIDE DEF head
    <2> QED BY <1>1, <2>1
  <1> HIDE DEF head
  <1>5. /\ Append(head, title) \in Seq(Nat) /\ Len(Append(head, title)) = kept + 1
        /\ Append(head, title)[kept + 1] = title
        /\ \A k \in 1..kept : Append(head, title)[k] = head[k]
    BY <1>4, AppendProperties
  <1> QED BY <1>2, <1>4, <1>5 DEF kept

LEMMA ScanLineType ==
  ASSUME NEW scan \in Scans, NEW line \in Line, NEW i \in Nat
  PROVE  ScanLine(scan, line, i) \in Scans
  <1> DEFINE fence == Fence(scan.fence, line)
  <1>1. fence \in Fences
    BY FenceType DEF Scans
  <1>2. Flushed(scan) \in Seq(Section)
    BY FlushedType
  <1>3. <<i>> \in Seq(Nat) /\ Append(scan.lines, i) \in Seq(Nat)
    BY AppendProperties DEF Scans
  <1>4. CASE line.kind = "heading" /\ fence = NoFence
    <2>1. line.level \in Nat \ {0} /\ scan.path \in Seq(Nat)
      BY <1>4 DEF Line, Scans
    <2>2. OpenPath(scan.path, line.level, i) \in Seq(Nat)
      BY <2>1, OpenPathIs
    <2>3. ScanLine(scan, line, i) =
            [sections |-> Flushed(scan), path |-> OpenPath(scan.path, line.level, i),
             lines |-> <<i>>, content |-> FALSE, fence |-> fence]
      BY <1>4 DEF ScanLine
    <2> QED BY <1>1, <1>2, <1>3, <2>2, <2>3 DEF Scans
  <1>5. CASE ~(line.kind = "heading" /\ fence = NoFence)
    <2>1. ScanLine(scan, line, i) =
            [sections |-> scan.sections, path |-> scan.path, lines |-> Append(scan.lines, i),
             content |-> scan.content \/ line.kind # "blank", fence |-> fence]
      BY <1>5 DEF ScanLine, Scans
    <2>2. (scan.content \/ line.kind # "blank") \in BOOLEAN
      OBVIOUS
    <2> QED BY <1>1, <1>3, <2>1, <2>2 DEF Scans
  <1> QED BY <1>4, <1>5

LEMMA ScannedToDef ==
  ASSUME NEW text \in Seq(Line)
  PROVE  /\ ScannedTo(text) \in [0..Len(text) -> Scans]
         /\ ScannedTo(text)[0] = NewScan
         /\ \A n \in 1..Len(text) :
              ScannedTo(text)[n] = ScanLine(ScannedTo(text)[n - 1], text[n], n)
  <1> DEFINE N == Len(text)
             C == Scans
             first == NewScan
             Turn(r, n) == ScanLine(r, text[n], n)
             Value(f, n) == IF n = 0 THEN first ELSE Turn(f[n - 1], n)
             Defines(f) == f = [n \in 0..N |-> Value(f, n)]
             step == [p \in C \X (1..N) |-> Turn(p[1], p[2])]
             f == ScannedTo(text)
  <1>1. f = CHOOSE g : Defines(g)
    BY DEF ScannedTo
  <1>2. N \in Nat
    BY LenProperties
  <1>3. first \in C
    BY EmptySeq DEF NewScan, Scans, Fences, NoFence
  <1>4. \A r \in C, n \in 1..N : Turn(r, n) \in C
    BY ScanLineType, ElementOfSeq
  <1> HIDE DEF Turn, first
  <1>5. step \in [C \X (1..N) -> C]
    BY <1>4
  <1>6. \A r \in C, n \in 1..N : step[<<r, n>>] = Turn(r, n)
    OBVIOUS
  <1> HIDE DEF step, N, f, C
  <1>7. PICK g \in [0..N -> C] : FollowsTo(g, first, step, N)
    BY <1>2, <1>3, <1>5, FiniteRecursion
  <1>8. g[0] = first /\ \A n \in 1..N : g[n] = Turn(g[n - 1], n)
    <2>1. \A n \in 1..N : n - 1 \in 0..N
      BY <1>2
    <2> QED BY <1>6, <1>7, <2>1 DEF FollowsTo
  <1>9. Defines(g)
    <2>1. \A n \in 0..N : n # 0 => n \in 1..N
      BY <1>2
    <2>2. \A n \in 0..N : g[n] = Value(g, n)
      BY <1>8, <2>1
    <2> HIDE DEF Value
    <2> QED BY <2>2
  <1>10. Defines(f)
    <2> HIDE DEF Defines
    <2> QED BY <1>1, <1>9
  <1>11. f[0] = first /\ \A n \in 1..N : f[n] = Turn(f[n - 1], n)
    <2>1. \A n \in 0..N : f[n] = Value(f, n)
      <3> HIDE DEF Value
      <3> QED BY <1>10
    <2> QED BY <1>2, <2>1
  <1>12. \A n \in 0..N : f[n] \in C
    <2> DEFINE S == {n \in 0..N : f[n] \in C}
    <2>1. 0 \in S
      BY <1>2, <1>3, <1>11
    <2>2. \A n \in 1..N : n - 1 \in S => n \in S
      BY <1>2, <1>4, <1>11
    <2> HIDE DEF S
    <2>3. \A n \in 0..N : n \in S
      BY <1>2, <2>1, <2>2, UpTo
    <2> QED BY <2>3 DEF S
  <1>13. f \in [0..N -> C]
    <2>1. f = [n \in 0..N |-> Value(f, n)]
      BY <1>10
    <2> HIDE DEF Value
    <2>2. \A n \in 0..N : Value(f, n) \in C
      BY <1>12, <2>1
    <2> QED BY <2>1, <2>2
  <1> QED BY <1>11, <1>13 DEF N, f, Turn, C, first

LEMMA FencedToDef ==
  ASSUME NEW text \in Seq(Line)
  PROVE  /\ FencedTo(text) \in [0..Len(text) -> Fences]
         /\ FencedTo(text)[0] = NoFence
         /\ \A n \in 1..Len(text) :
              FencedTo(text)[n] = Fence(FencedTo(text)[n - 1], text[n])
  <1> DEFINE N == Len(text)
             C == Fences
             first == NoFence
             Turn(r, n) == Fence(r, text[n])
             Value(f, n) == IF n = 0 THEN first ELSE Turn(f[n - 1], n)
             Defines(f) == f = [n \in 0..N |-> Value(f, n)]
             step == [p \in C \X (1..N) |-> Turn(p[1], p[2])]
             f == FencedTo(text)
  <1>1. f = CHOOSE g : Defines(g)
    BY DEF FencedTo
  <1>2. N \in Nat
    BY LenProperties
  <1>3. first \in C
    BY DEF Fences, NoFence
  <1>4. \A r \in C, n \in 1..N : Turn(r, n) \in C
    BY FenceType, ElementOfSeq
  <1> HIDE DEF Turn, first
  <1>5. step \in [C \X (1..N) -> C]
    BY <1>4
  <1>6. \A r \in C, n \in 1..N : step[<<r, n>>] = Turn(r, n)
    OBVIOUS
  <1> HIDE DEF step, N, f, C
  <1>7. PICK g \in [0..N -> C] : FollowsTo(g, first, step, N)
    BY <1>2, <1>3, <1>5, FiniteRecursion
  <1>8. g[0] = first /\ \A n \in 1..N : g[n] = Turn(g[n - 1], n)
    <2>1. \A n \in 1..N : n - 1 \in 0..N
      BY <1>2
    <2> QED BY <1>6, <1>7, <2>1 DEF FollowsTo
  <1>9. Defines(g)
    <2>1. \A n \in 0..N : n # 0 => n \in 1..N
      BY <1>2
    <2>2. \A n \in 0..N : g[n] = Value(g, n)
      BY <1>8, <2>1
    <2> HIDE DEF Value
    <2> QED BY <2>2
  <1>10. Defines(f)
    <2> HIDE DEF Defines
    <2> QED BY <1>1, <1>9
  <1>11. f[0] = first /\ \A n \in 1..N : f[n] = Turn(f[n - 1], n)
    <2>1. \A n \in 0..N : f[n] = Value(f, n)
      <3> HIDE DEF Value
      <3> QED BY <1>10
    <2> QED BY <1>2, <2>1
  <1>12. \A n \in 0..N : f[n] \in C
    <2> DEFINE S == {n \in 0..N : f[n] \in C}
    <2>1. 0 \in S
      BY <1>2, <1>3, <1>11
    <2>2. \A n \in 1..N : n - 1 \in S => n \in S
      BY <1>2, <1>4, <1>11
    <2> HIDE DEF S
    <2>3. \A n \in 0..N : n \in S
      BY <1>2, <2>1, <2>2, UpTo
    <2> QED BY <2>3 DEF S
  <1>13. f \in [0..N -> C]
    <2>1. f = [n \in 0..N |-> Value(f, n)]
      BY <1>10
    <2> HIDE DEF Value
    <2>2. \A n \in 0..N : Value(f, n) \in C
      BY <1>12, <2>1
    <2> QED BY <2>1, <2>2
  <1> QED BY <1>11, <1>13 DEF N, f, Turn, C, first

LEMMA LineOf ==
  ASSUME NEW text \in Seq(Line), NEW n \in 1..Len(text)
  PROVE  /\ text[n] \in Line /\ text[n].level \in Nat
         /\ IsHeading(text, n) => text[n].level \in Nat \ {0}
  <1>1. text[n] \in Line
    BY ElementOfSeq
  <1> QED BY <1>1 DEF Line, IsHeading

\* The last heading up to a line, 0 for none.
Latest(text, n, h) ==
  /\ h \in 0..n /\ (h > 0 => IsHeading(text, h))
  /\ \A j \in h + 1..n : ~IsHeading(text, j)

LEMMA LatestIs ==
  ASSUME NEW text, NEW n \in Nat, NEW h, Latest(text, n, h)
  PROVE  Max({0} \cup {j \in 1..n : IsHeading(text, j)}) = h
  <1> DEFINE H == {0} \cup {j \in 1..n : IsHeading(text, j)}
  <1>1. h \in H
    BY DEF Latest
  <1>2. \A y \in H : h >= y
    BY DEF Latest
  <1>3. \A x \in H : (\A y \in H : x >= y) => x = h
    <2>1. H \subseteq Nat
      OBVIOUS
    <2> HIDE DEF H
    <2> QED BY <1>1, <1>2, <2>1
  <1> HIDE DEF H
  <1>4. Max(H) = h
    BY <1>1, <1>2, <1>3 DEF Max
  <1> QED BY <1>4 DEF H

LEMMA AncestorsSame ==
  ASSUME NEW text, NEW n \in Nat, NEW h, Latest(text, n, h), NEW i \in h..n
  PROVE  Ancestors(text, i) = Ancestors(text, n)
  <1>1. h \in Nat /\ h <= i /\ i <= n /\ i \in Nat
    BY DEF Latest
  <1>2. ASSUME NEW j \in 1..n, IsHeading(text, j)
        PROVE  j \in 1..i
    BY <1>1, <1>2 DEF Latest
  <1>3. \A j \in 1..i : j \in 1..n
    BY <1>1
  <1>4. ASSUME NEW j \in 1..i, NEW k \in j + 1..n, IsHeading(text, k)
        PROVE  k \in j + 1..i
    <2>1. k \in 1..n
      OBVIOUS
    <2> QED BY <1>2, <1>4, <2>1
  <1>5. \A j \in 1..i : \A k \in j + 1..i : k \in j + 1..n
    BY <1>1
  <1> QED BY <1>2, <1>3, <1>4, <1>5 DEF Ancestors

PathLast(path) == IF path = <<>> THEN 0 ELSE path[Len(path)]

SectionHolds(text, section, m) ==
  /\ Increasing(section.lines)
  /\ \A i \in Range(section.lines) :
       /\ i \in 1..m /\ Latest(text, i, PathLast(section.path))
       /\ LevelsInOrder(text) => Range(section.path) = Ancestors(text, i)

IsContent(text, i) == text[i].kind # "blank" /\ ~IsHeading(text, i)

\* The sections closed so far, of the lines up to m.
SectionsHold(text, sections, m) ==
  /\ \A s \in DOMAIN sections : SectionHolds(text, sections[s], m)
  /\ \A s, t \in DOMAIN sections : s < t => Below(sections[s].lines, sections[t].lines)
  /\ \A i \in 1..m : IsContent(text, i) =>
       \E s \in DOMAIN sections : i \in Range(sections[s].lines)

\* The breadcrumb under the last heading.
PathHolds(text, path, n, h) ==
  /\ h = PathLast(path) /\ (h = 0 => path = <<>>)
  /\ LevelsInOrder(text) =>
       /\ h > 0 => Len(path) = text[h].level
       /\ \A k \in 1..Len(path) : /\ path[k] \in 1..n /\ IsHeading(text, path[k])
                                  /\ text[path[k]].level = k
       /\ Range(path) = Ancestors(text, n)

Start(h) == IF h = 0 THEN 1 ELSE h

\* The scan after n lines, the last heading of which is h.
ScanHolds(text, scan, n, h) ==
  /\ Latest(text, n, h) /\ scan.fence = FencedTo(text)[n] /\ PathHolds(text, scan.path, n, h)
  /\ Len(scan.lines) = n - Start(h) + 1
  /\ \A k \in 1..n - Start(h) + 1 : scan.lines[k] = Start(h) + k - 1
  /\ SectionsHold(text, scan.sections, Start(h) - 1)
  /\ (\E i \in h + 1..n : text[i].kind # "blank") => scan.content

LEMMA FlushHolds ==
  ASSUME NEW text \in Seq(Line), NEW n \in 0..Len(text), NEW h, NEW scan \in Scans,
         ScanHolds(text, scan, n, h)
  PROVE  SectionsHold(text, Flushed(scan), n)
  <1> DEFINE a == Start(h)
             section == [path |-> scan.path, lines |-> scan.lines]
             old == scan.sections
  <1>1. /\ n \in Nat /\ h \in 0..n /\ a \in Nat /\ a >= 1 /\ h <= a /\ a - 1 <= n /\ a - 1 >= 0
        /\ (h > 0 => a = h) /\ (h = 0 => a = 1)
    <2>1. n \in Nat
      BY LenProperties
    <2> QED BY <2>1 DEF ScanHolds, Latest, Start
  <1>2. /\ scan.lines \in Seq(Nat) /\ Len(scan.lines) = n - a + 1
        /\ \A k \in 1..n - a + 1 : scan.lines[k] = a + k - 1
    BY DEF ScanHolds, Scans
  <1>3. SectionsHold(text, old, a - 1)
    BY DEF ScanHolds
  <1>4. Latest(text, n, h) /\ PathHolds(text, scan.path, n, h)
    BY DEF ScanHolds
  <1>5. \A i : i \in Range(scan.lines) <=> i \in a..n
    <2>1. DOMAIN scan.lines = 1..n - a + 1
      BY <1>2, LenProperties
    <2>2. \A i \in a..n : i - a + 1 \in 1..n - a + 1 /\ a + (i - a + 1) - 1 = i
      BY <1>1
    <2>3. \A k \in 1..n - a + 1 : a + k - 1 \in a..n
      BY <1>1
    <2> DEFINE lines == scan.lines
    <2>4. \A k \in DOMAIN lines : lines[k] \in a..n
      BY <1>2, <2>1, <2>3
    <2>5. \A i \in a..n : i - a + 1 \in DOMAIN lines /\ lines[i - a + 1] = i
      BY <1>2, <2>1, <2>2
    <2> HIDE DEF a, lines
    <2>6. \A i : i \in Range(lines) <=> i \in a..n
      BY <2>4, <2>5 DEF Range
    <2> QED BY <2>6 DEF lines
  <1>6. Increasing(scan.lines)
    <2>1. DOMAIN scan.lines = 1..n - a + 1
      BY <1>2, LenProperties
    <2>2. \A k \in DOMAIN scan.lines : scan.lines[k] = a + k - 1 /\ k \in Nat
      BY <1>2, <2>1
    <2> HIDE DEF a
    <2> QED BY <1>1, <2>2 DEF Increasing
  <1>7. old \in Seq(Section) /\ DOMAIN old = 1..Len(old) /\ Len(old) \in Nat /\ section \in Section
    <2>1. old \in Seq(Section)
      BY DEF Scans
    <2> QED BY <2>1, LenProperties DEF Scans, Section
  <1>8. \A s \in DOMAIN old : SectionHolds(text, old[s], n)
    <2>1. \A s \in DOMAIN old : SectionHolds(text, old[s], a - 1)
      BY <1>3 DEF SectionsHold
    <2>2. \A i \in 1..a - 1 : i \in 1..n
      BY <1>1
    <2> HIDE DEF a, old
    <2> QED BY <2>1, <2>2 DEF SectionHolds
  <1>9. CASE scan.content
    <2> DEFINE new == Append(old, section)
    <2>1. Flushed(scan) = new
      BY <1>9 DEF Flushed
    <2>2. /\ DOMAIN new = 1..Len(old) + 1 /\ new[Len(old) + 1] = section
          /\ \A s \in 1..Len(old) : new[s] = old[s]
      <3> HIDE DEF section, old
      <3>1. new \in Seq(Section) /\ Len(new) = Len(old) + 1
        BY <1>7, AppendProperties
      <3>2. new[Len(old) + 1] = section /\ \A s \in 1..Len(old) : new[s] = old[s]
        BY <1>7, AppendProperties
      <3> QED BY <3>1, <3>2, LenProperties
    <2>3. SectionHolds(text, section, n)
      <3>1. ASSUME NEW i \in a..n
            PROVE  /\ i \in 1..n /\ Latest(text, i, PathLast(scan.path))
                   /\ LevelsInOrder(text) => Range(scan.path) = Ancestors(text, i)
        <4>1. i \in 1..n /\ i \in h..n /\ h \in 0..i /\ \A j \in h + 1..i : j \in h + 1..n
          <5> HIDE DEF a
          <5> QED BY <1>1
        <4>2. Latest(text, i, h)
          BY <1>4, <4>1 DEF Latest
        <4>3. Ancestors(text, i) = Ancestors(text, n)
          BY <1>1, <1>4, <4>1, AncestorsSame
        <4> QED BY <1>4, <4>1, <4>2, <4>3 DEF PathHolds
      <3>2. section.lines = scan.lines /\ section.path = scan.path
        OBVIOUS
      <3> HIDE DEF section, a
      <3> QED BY <1>5, <1>6, <3>1, <3>2 DEF SectionHolds
    <2>4. \A s \in DOMAIN old : Below(old[s].lines, section.lines)
      <3>1. \A s \in DOMAIN old : \A x \in Range(old[s].lines) : x \in 1..a - 1
        BY <1>3 DEF SectionsHold, SectionHolds
      <3>2. \A x \in 1..a - 1, y \in a..n : x < y
        BY <1>1
      <3>3. section.lines = scan.lines
        OBVIOUS
      <3> HIDE DEF a, old, section
      <3> QED BY <1>5, <3>1, <3>2, <3>3 DEF Below
    <2>5. ASSUME NEW i \in 1..n, IsContent(text, i)
          PROVE  \E s \in DOMAIN new : i \in Range(new[s].lines)
      <3>1. CASE i \in a..n
        <4>1. Len(old) + 1 \in DOMAIN new /\ i \in Range(scan.lines)
          BY <1>5, <1>7, <2>2, <3>1
        <4> QED BY <2>2, <4>1
      <3>2. CASE i \notin a..n
        <4>1. i \in 1..a - 1
          <5> HIDE DEF a
          <5> QED BY <1>1, <3>2
        <4>2. PICK s \in DOMAIN old : i \in Range(old[s].lines)
          BY <1>3, <2>5, <4>1 DEF SectionsHold
        <4>3. s \in DOMAIN new /\ new[s] = old[s]
          BY <1>7, <2>2
        <4> QED BY <4>2, <4>3
      <3> QED BY <3>1, <3>2
    <2>6. \A s \in DOMAIN new : SectionHolds(text, new[s], n)
      <3>1. \A s \in 1..Len(old) + 1 : s \in 1..Len(old) \/ s = Len(old) + 1
        BY <1>7
      <3> HIDE DEF old, section, new
      <3> QED BY <1>7, <1>8, <2>2, <2>3, <3>1
    <2>7. \A s, t \in DOMAIN new : s < t => Below(new[s].lines, new[t].lines)
      <3>1. \A s, t \in 1..Len(old) + 1 : s < t =>
              s \in 1..Len(old) /\ (t \in 1..Len(old) \/ t = Len(old) + 1)
        BY <1>7
      <3>2. \A s, t \in DOMAIN old : s < t => Below(old[s].lines, old[t].lines)
        BY <1>3 DEF SectionsHold
      <3> HIDE DEF old, section, new
      <3> QED BY <1>7, <2>2, <2>4, <3>1, <3>2
    <2> HIDE DEF new
    <2> QED BY <2>1, <2>5, <2>6, <2>7 DEF SectionsHold
  <1>10. CASE ~scan.content
    <2>1. Flushed(scan) = old
      BY <1>10 DEF Flushed
    <2>2. ASSUME NEW i \in 1..n, IsContent(text, i)
          PROVE  i \in 1..a - 1
      <3>1. ~(i \in h + 1..n)
        BY <1>10, <2>2 DEF ScanHolds, IsContent
      <3>2. h > 0 => i # h
        BY <1>4, <2>2 DEF Latest, IsContent
      <3> HIDE DEF a
      <3> QED BY <1>1, <3>1, <3>2
    <2>3. \A s, t \in DOMAIN old : s < t => Below(old[s].lines, old[t].lines)
      BY <1>3 DEF SectionsHold
    <2>4. \A i \in 1..n : IsContent(text, i) => \E s \in DOMAIN old : i \in Range(old[s].lines)
      BY <1>3, <2>2 DEF SectionsHold
    <2> HIDE DEF old
    <2> QED BY <1>8, <2>1, <2>3, <2>4 DEF SectionsHold
  <1> QED BY <1>9, <1>10

\* A new heading keeps the breadcrumb of the headings it is under.
LEMMA HeadingPath ==
  ASSUME NEW text \in Seq(Line), NEW n \in 1..Len(text), NEW h, Latest(text, n - 1, h),
         IsHeading(text, n), NEW path \in Seq(Nat), PathHolds(text, path, n - 1, h)
  PROVE  PathHolds(text, OpenPath(path, text[n].level, n), n, n)
  <1> DEFINE level == text[n].level
             new == OpenPath(path, level, n)
             kept == KeptOf(path, level)
  <1>1. level \in Nat \ {0} /\ n \in Nat \ {0} /\ Len(path) \in Nat /\ DOMAIN path = 1..Len(path)
    BY LineOf, LenProperties
  <1>2. /\ new \in Seq(Nat) /\ Len(new) = kept + 1 /\ new[kept + 1] = n
        /\ \A k \in 1..kept : new[k] = path[k]
    <2>1. level \in Nat \ {0} /\ n \in Nat
      BY <1>1
    <2> HIDE DEF level
    <2> QED BY <2>1, OpenPathIs
  <1>3. /\ kept \in 0..Len(path) /\ kept <= level - 1
        /\ kept = IF Len(path) < level - 1 THEN Len(path) ELSE level - 1
    <2> HIDE DEF level
    <2> QED BY <1>1 DEF KeptOf
  <1> HIDE DEF new
  <1>4. PathLast(new) = n /\ n # 0
    <2>1. new # <<>>
      BY <1>2, <1>3, EmptySeq
    <2> HIDE DEF kept
    <2> QED BY <1>1, <1>2, <2>1 DEF PathLast
  <1>5. ASSUME LevelsInOrder(text)
        PROVE  /\ Len(new) = level
               /\ \A k \in 1..Len(new) : /\ new[k] \in 1..n /\ IsHeading(text, new[k])
                                         /\ text[new[k]].level = k
               /\ Range(new) = Ancestors(text, n)
    <2>1. /\ h > 0 => Len(path) = text[h].level
          /\ \A k \in 1..Len(path) : /\ path[k] \in 1..n - 1 /\ IsHeading(text, path[k])
                                     /\ text[path[k]].level = k
          /\ Range(path) = Ancestors(text, n - 1)
      BY <1>5 DEF PathHolds
    <2>2. kept = level - 1
      <3>1. CASE level = 1
        BY <1>1, <1>3, <3>1
      <3>2. CASE level > 1
        <4>1. n \in DOMAIN text
          BY LenProperties
        <4>2. PICK j \in 1..n - 1 :
                /\ IsHeading(text, j) /\ text[j].level >= level - 1
                /\ \A k \in j + 1..n - 1 : ~IsHeading(text, k)
          BY <1>5, <3>2, <4>1 DEF LevelsInOrder
        <4>3. j = h
          <5>1. h \in 0..n - 1 /\ (h > 0 => IsHeading(text, h))
                /\ \A k \in h + 1..n - 1 : ~IsHeading(text, k)
            BY DEF Latest
          <5>2. ~(h < j)
            <6>1. h < j => j \in h + 1..n - 1
              BY <1>1, <5>1
            <6> QED BY <4>2, <5>1, <6>1
          <5>3. ~(j < h)
            <6>1. j < h => h \in j + 1..n - 1 /\ h > 0
              BY <1>1, <5>1
            <6> QED BY <4>2, <5>1, <6>1
          <5> QED BY <1>1, <5>1, <5>2, <5>3
        <4>4. Len(path) >= level - 1
          <5>1. h > 0
            BY <4>3
          <5> QED BY <2>1, <4>2, <4>3, <5>1
        <4> HIDE DEF level
        <4> QED BY <1>1, <1>3, <4>4
      <3> HIDE DEF level, kept
      <3> QED BY <1>1, <3>1, <3>2
    <2>3. Len(new) = level
      <3> HIDE DEF level, kept
      <3> QED BY <1>1, <1>2, <2>2
    <2>4. /\ new[level] = n /\ \A k \in 1..level - 1 : new[k] = path[k] /\ k \in 1..Len(path)
      <3> HIDE DEF level, kept
      <3>1. level = kept + 1 /\ level - 1 = kept
        BY <1>1, <2>2
      <3>2. \A k \in 1..kept : k \in 1..Len(path)
        <4>1. kept \in 0..Len(path) /\ Len(path) \in Nat
          BY Zenon, <1>1, <1>3
        <4> QED BY SMTT(30), <4>1
      <3> QED BY <1>2, <3>1, <3>2
    <2>5. \A k \in 1..level : k \in 1..level - 1 \/ k = level
      <3> HIDE DEF level
      <3> QED BY <1>1
    <2>6. \A k \in 1..level : /\ new[k] \in 1..n /\ IsHeading(text, new[k])
                              /\ text[new[k]].level = k
      <3>1. SUFFICES ASSUME NEW k \in 1..level
                     PROVE  new[k] \in 1..n /\ IsHeading(text, new[k]) /\ text[new[k]].level = k
        OBVIOUS
      <3>2. CASE k = level
        <4>1. n \in 1..n
          BY <1>1
        <4> QED BY <2>4, <3>2, <4>1
      <3>3. CASE k \in 1..level - 1
        <4>1. new[k] = path[k] /\ k \in 1..Len(path)
          BY <2>4, <3>3
        <4>2. path[k] \in 1..n
          BY <1>1, <2>1, <4>1
        <4> QED BY <2>1, <4>1, <4>2
      <3> QED BY <2>5, <3>2, <3>3
    <2>7. ASSUME NEW j \in Ancestors(text, n)
          PROVE  j \in Range(new)
      <3>1. /\ j \in 1..n /\ IsHeading(text, j)
            /\ \A k \in j + 1..n : IsHeading(text, k) => text[k].level > text[j].level
        BY DEF Ancestors
      <3>2. DOMAIN new = 1..level
        BY <1>2, <2>3, LenProperties
      <3>3. CASE j = n
        <4>1. level \in 1..level
          BY <1>1
        <4> QED BY <2>4, <3>2, <3>3, <4>1 DEF Range
      <3>4. CASE j # n
        <4>1. j \in 1..n - 1 /\ n \in j + 1..n /\ \A k \in j + 1..n - 1 : k \in j + 1..n
          BY <1>1, <3>1, <3>4
        <4>2. j \in Ancestors(text, n - 1) /\ level > text[j].level
          BY <3>1, <4>1 DEF Ancestors
        <4>3. PICK k \in 1..Len(path) : j = path[k]
          BY <1>1, <2>1, <4>2 DEF Range
        <4>4. text[j].level = k
          BY <2>1, <4>3
        <4>5. k \in 1..level - 1 /\ k \in 1..level
          <5> HIDE DEF level
          <5> QED BY <1>1, <4>2, <4>4
        <4>6. new[k] = j
          BY <2>4, <4>3, <4>5
        <4> QED BY <3>2, <4>5, <4>6 DEF Range
      <3> QED BY <3>3, <3>4
    <2>8. ASSUME NEW j \in Range(new)
          PROVE  j \in Ancestors(text, n)
      <3>1. PICK k \in 1..level : j = new[k]
        <4>1. DOMAIN new = 1..level
          BY <1>2, <2>3, LenProperties
        <4> QED BY <2>8, <4>1 DEF Range
      <3>2. CASE k = level
        <4>1. j = n /\ n \in 1..n /\ \A i \in n + 1..n : FALSE
          BY <1>1, <2>4, <3>1, <3>2
        <4> QED BY <4>1 DEF Ancestors
      <3>3. CASE k \in 1..level - 1
        <4>1. j = path[k] /\ k \in 1..Len(path)
          BY <2>4, <3>1, <3>3
        <4>2. j \in Ancestors(text, n - 1)
          BY <1>1, <2>1, <4>1 DEF Range
        <4>3. /\ j \in 1..n - 1 /\ IsHeading(text, j) /\ text[j].level = k
              /\ \A i \in j + 1..n - 1 : IsHeading(text, i) => text[i].level > text[j].level
          BY <2>1, <4>1, <4>2 DEF Ancestors
        <4>4. j \in 1..n /\ \A i \in j + 1..n : i \in j + 1..n - 1 \/ i = n
          BY <1>1, <4>3
        <4>5. text[n].level > k
          <5>1. level > k
            <6> HIDE DEF level
            <6> QED BY <1>1, <3>3
          <5> QED BY <5>1
        <4> QED BY <4>3, <4>4, <4>5 DEF Ancestors
      <3> QED BY <2>5, <3>2, <3>3
    <2> HIDE DEF level
    <2> QED BY <2>3, <2>6, <2>7, <2>8
  <1> HIDE DEF level
  <1>6. PathHolds(text, new, n, n)
    <2>1. LevelsInOrder(text) =>
            /\ Len(new) = text[n].level
            /\ \A k \in 1..Len(new) : /\ new[k] \in 1..n /\ IsHeading(text, new[k])
                                      /\ text[new[k]].level = k
            /\ Range(new) = Ancestors(text, n)
      BY <1>5 DEF level
    <2> QED BY <1>4, <2>1 DEF PathHolds
  <1> QED BY <1>6 DEF new, level

LEMMA LineHolds ==
  ASSUME NEW text \in Seq(Line), NEW n \in 1..Len(text), NEW h, NEW scan \in Scans,
         ScanHolds(text, scan, n - 1, h)
  PROVE  \E last : ScanHolds(text, ScanLine(scan, text[n], n), n, last)
  <1> DEFINE line == text[n]
             fence == Fence(scan.fence, line)
             new == ScanLine(scan, line, n)
  <1>1. n \in Nat \ {0} /\ n - 1 \in 0..Len(text) /\ n - 1 \in Nat
    BY LenProperties
  <1>2. fence = FencedTo(text)[n]
    <2>1. scan.fence = FencedTo(text)[n - 1]
      BY DEF ScanHolds
    <2> QED BY <2>1, FencedToDef
  <1>3. IsHeading(text, n) <=> line.kind = "heading" /\ fence = NoFence
    BY <1>2 DEF IsHeading
  <1>4. /\ h \in 0..n - 1 /\ (h > 0 => IsHeading(text, h))
        /\ \A j \in h + 1..n - 1 : ~IsHeading(text, j)
    BY DEF ScanHolds, Latest
  <1>5. /\ Latest(text, n - 1, h) /\ PathHolds(text, scan.path, n - 1, h)
        /\ scan.lines \in Seq(Nat) /\ scan.path \in Seq(Nat)
    BY DEF ScanHolds, Scans
  <1>6. CASE IsHeading(text, n)
    <2>1. new = [sections |-> Flushed(scan), path |-> OpenPath(scan.path, line.level, n),
                 lines |-> <<n>>, content |-> FALSE, fence |-> fence]
      BY <1>3, <1>6 DEF ScanLine
    <2>2. SectionsHold(text, Flushed(scan), n - 1)
      BY <1>1, FlushHolds
    <2>3. PathHolds(text, OpenPath(scan.path, line.level, n), n, n)
      BY <1>5, <1>6, HeadingPath
    <2>4. Latest(text, n, n)
      BY <1>1, <1>6 DEF Latest
    <2>5. /\ Start(n) = n /\ Len(<<n>>) = n - n + 1
          /\ \A k \in 1..n - n + 1 : <<n>>[k] = n + k - 1
          /\ ~\E i \in n + 1..n : text[i].kind # "blank"
      BY <1>1 DEF Start
    <2> HIDE DEF fence, line
    <2>6. ScanHolds(text, new, n, n)
      BY <1>2, <2>1, <2>2, <2>3, <2>4, <2>5 DEF ScanHolds
    <2> QED BY <2>6 DEF line
  <1>7. CASE ~IsHeading(text, n)
    <2> DEFINE a == Start(h)
               lines == scan.lines
    <2>1. new = [sections |-> scan.sections, path |-> scan.path, lines |-> Append(lines, n),
                 content |-> scan.content \/ line.kind # "blank", fence |-> fence]
      BY <1>3, <1>7 DEF ScanLine, Scans
    <2>2. Latest(text, n, h)
      <3>1. h \in 0..n /\ \A j \in h + 1..n : j \in h + 1..n - 1 \/ j = n
        BY <1>1, <1>4
      <3> QED BY <1>4, <1>7, <3>1 DEF Latest
    <2>3. PathHolds(text, scan.path, n, h)
      <3>1. n - 1 \in h..n
        BY <1>1, <1>4
      <3>2. Ancestors(text, n - 1) = Ancestors(text, n)
        BY <1>1, <2>2, <3>1, AncestorsSame
      <3>3. \A i \in 1..n - 1 : i \in 1..n
        BY <1>1
      <3> QED BY <1>5, <3>2, <3>3 DEF PathHolds
    <2>4. a \in Nat /\ a <= n
      BY <1>1, <1>4 DEF Start
    <2>5. /\ lines \in Seq(Nat) /\ Len(lines) = n - 1 - a + 1
          /\ \A k \in 1..n - 1 - a + 1 : lines[k] = a + k - 1
      BY <1>5 DEF ScanHolds
    <2> HIDE DEF a, lines
    <2>6. /\ Len(Append(lines, n)) = n - a + 1
          /\ \A k \in 1..n - a + 1 : Append(lines, n)[k] = a + k - 1
      <3>1. /\ Len(Append(lines, n)) = Len(lines) + 1 /\ Append(lines, n)[Len(lines) + 1] = n
            /\ \A k \in 1..Len(lines) : Append(lines, n)[k] = lines[k]
        BY <1>1, <2>5, AppendProperties
      <3>2. Len(lines) + 1 = n - a + 1 /\ Len(lines) = n - 1 - a + 1 /\ a + (n - a + 1) - 1 = n
        BY <1>1, <2>4, <2>5
      <3>3. \A k \in 1..n - a + 1 : k \in 1..Len(lines) \/ k = n - a + 1
        BY <1>1, <2>4, <3>2
      <3>4. Append(lines, n)[n - a + 1] = a + (n - a + 1) - 1
        BY <3>1, <3>2
      <3>5. ASSUME NEW k \in 1..Len(lines)
            PROVE  Append(lines, n)[k] = a + k - 1
        BY <2>5, <3>1, <3>2
      <3> QED BY <3>1, <3>2, <3>3, <3>4, <3>5
    <2>7. SectionsHold(text, scan.sections, a - 1)
      BY DEF ScanHolds, a
    <2>8. (\E i \in h + 1..n : text[i].kind # "blank") => scan.content \/ line.kind # "blank"
      <3>1. \A i \in h + 1..n : i \in h + 1..n - 1 \/ i = n
        BY <1>1, <1>4
      <3> QED BY <3>1 DEF ScanHolds
    <2> HIDE DEF fence, line
    <2>9. /\ new.sections = scan.sections /\ new.path = scan.path /\ new.lines = Append(lines, n)
          /\ new.content = (scan.content \/ line.kind # "blank") /\ new.fence = fence
      BY <2>1
    <2> HIDE DEF new
    <2>10. ScanHolds(text, new, n, h)
      BY <1>2, <2>2, <2>3, <2>6, <2>7, <2>8, <2>9 DEF ScanHolds, a
    <2> QED BY <2>10 DEF new, line
  <1> QED BY <1>6, <1>7

LEMMA ScanEnds ==
  ASSUME NEW text \in Seq(Line)
  PROVE  \A n \in 0..Len(text) : \E h : ScanHolds(text, ScannedTo(text)[n], n, h)
  <1> DEFINE N == Len(text)
             f == ScannedTo(text)
             S == {n \in 0..N : \E h : ScanHolds(text, f[n], n, h)}
  <1>1. N \in Nat
    BY LenProperties
  <1>2. /\ f \in [0..N -> Scans] /\ f[0] = NewScan
        /\ \A n \in 1..N : f[n] = ScanLine(f[n - 1], text[n], n)
    BY ScannedToDef
  <1>3. FencedTo(text)[0] = NoFence
    BY FencedToDef
  <1> HIDE DEF f, N
  <1>4. 0 \in S
    <2> DEFINE scan == f[0]
    <2>1. /\ scan.sections = <<>> /\ scan.path = <<>> /\ scan.lines = <<>> /\ scan.fence = NoFence
      BY <1>2 DEF NewScan
    <2>2. Latest(text, 0, 0)
      BY DEF Latest
    <2>3. PathHolds(text, <<>>, 0, 0)
      <3>1. Range(<<>>) = {} /\ Ancestors(text, 0) = {}
        BY EmptySeq DEF Range, Ancestors
      <3>2. Len(<<>>) = 0 /\ 1..0 = {}
        BY EmptySeq
      <3>3. \A k \in 1..Len(<<>>) : FALSE
        BY <3>2
      <3>4. PathLast(<<>>) = 0 /\ ~(0 > 0)
        BY DEF PathLast
      <3> QED BY Zenon, <3>1, <3>3, <3>4 DEF PathHolds
    <2>4. SectionsHold(text, <<>>, 0)
      BY EmptySeq DEF SectionsHold
    <2>5. Start(0) = 1 /\ Len(<<>>) = 0
      BY EmptySeq DEF Start
    <2> HIDE DEF scan
    <2>6. ScanHolds(text, scan, 0, 0)
      BY <1>3, <2>1, <2>2, <2>3, <2>4, <2>5 DEF ScanHolds
    <2> QED BY <1>1, <2>6 DEF scan
  <1>5. ASSUME NEW n \in 1..N, n - 1 \in S
        PROVE  n \in S
    <2>1. n - 1 \in 0..N /\ n \in 0..N
      BY <1>1
    <2>2. PICK h : ScanHolds(text, f[n - 1], n - 1, h)
      BY <1>5
    <2>3. f[n - 1] \in Scans /\ f[n] = ScanLine(f[n - 1], text[n], n)
      BY <1>2, <2>1
    <2>4. \E last : ScanHolds(text, f[n], n, last)
      BY <2>2, <2>3, LineHolds DEF N
    <2> QED BY <2>1, <2>4
  <1> HIDE DEF S
  <1>6. \A n \in 0..N : n \in S
    BY <1>1, <1>4, <1>5, UpTo
  <1> QED BY <1>6 DEF S, N, f

\* Whatever the headings and fences, no line is lost, doubled or misplaced.
LEMMA SectionsAreWhole ==
  ASSUME NEW text \in Seq(Line)
  PROVE  SectionsKeepText(text)
  <1> DEFINE N == Len(text)
             scan == ScannedTo(text)[N]
             sections == Sections(text)
             parts == [s \in DOMAIN sections |-> sections[s].lines]
             kept == FlattenSeq(parts)
             heading(i) == Max({0} \cup {j \in 1..i : IsHeading(text, j)})
  <1>1. N \in Nat /\ N \in 0..N /\ DOMAIN text = 1..N
    BY LenProperties
  <1>2. scan \in Scans
    BY <1>1, ScannedToDef
  <1>3. PICK h : ScanHolds(text, scan, N, h)
    BY <1>1, ScanEnds
  <1>4. sections = Flushed(scan)
    BY DEF Sections
  <1>5. sections \in Seq(Section)
    BY <1>2, <1>4, FlushedType
  <1>6. SectionsHold(text, sections, N)
    <2> HIDE DEF sections, scan
    <2>1. SectionsHold(text, Flushed(scan), N)
      BY <1>1, <1>2, <1>3, FlushHolds
    <2> QED BY <1>4, <2>1
  <1> HIDE DEF sections, scan
  <1>7. /\ DOMAIN sections = 1..Len(sections) /\ Len(sections) \in Nat
        /\ \A s \in 1..Len(sections) : sections[s] \in Section
    BY <1>5, LenProperties, ElementOfSeq
  <1>8. /\ parts \in Seq(Seq(Nat)) /\ Len(parts) = Len(sections)
        /\ \A s \in 1..Len(sections) : parts[s] = sections[s].lines
    <2>1. \A s \in 1..Len(sections) : sections[s].lines \in Seq(Nat)
      BY <1>7 DEF Section
    <2>2. parts = [s \in 1..Len(sections) |-> sections[s].lines]
      BY <1>7
    <2> HIDE DEF parts
    <2>3. parts \in [1..Len(sections) -> Seq(Nat)]
      BY <2>1, <2>2
    <2>4. parts \in Seq(Seq(Nat)) /\ DOMAIN parts = 1..Len(sections)
      BY <1>7, <2>3
    <2> QED BY <1>7, <2>2, <2>4, LenProperties
  <1> HIDE DEF parts
  <1>9. kept = Join(parts)
    BY <1>8, FlattenIsJoin
  <1>10. \A i, j \in DOMAIN kept : i < j => kept[i] < kept[j]
    <2>1. \A n \in 1..Len(parts) : Increasing(parts[n])
      BY <1>6, <1>7, <1>8 DEF SectionsHold, SectionHolds
    <2>2. \A m, n \in 1..Len(parts) : m < n => Below(parts[m], parts[n])
      BY <1>6, <1>7, <1>8 DEF SectionsHold
    <2>3. Increasing(Join(parts))
      BY <1>8, <2>1, <2>2, JoinIncreases
    <2> QED BY <1>9, <2>3 DEF Increasing
  <1>11. ASSUME NEW i \in DOMAIN text, text[i].kind # "blank" /\ ~IsHeading(text, i)
         PROVE  i \in Range(kept)
    <2>1. i \in 1..N /\ IsContent(text, i)
      BY <1>1, <1>11 DEF IsContent
    <2>2. PICK s \in DOMAIN sections : i \in Range(sections[s].lines)
      BY <1>6, <2>1 DEF SectionsHold
    <2>3. s \in 1..Len(parts) /\ i \in Range(parts[s])
      BY <1>7, <1>8, <2>2
    <2>4. i \in Range(Join(parts))
      BY <1>8, <2>3, JoinRange
    <2> QED BY <1>9, <2>4
  <1>12. ASSUME NEW s \in DOMAIN sections, NEW i \in Range(sections[s].lines)
         PROVE  LET path == sections[s].path IN
                /\ heading(i) = IF path = <<>> THEN 0 ELSE path[Len(path)]
                /\ LevelsInOrder(text) => Range(path) = Ancestors(text, i)
    <2>1. /\ i \in 1..N /\ Latest(text, i, PathLast(sections[s].path))
          /\ LevelsInOrder(text) => Range(sections[s].path) = Ancestors(text, i)
      BY <1>6 DEF SectionsHold, SectionHolds
    <2>2. i \in Nat
      BY <1>1, <2>1
    <2>3. heading(i) = PathLast(sections[s].path)
      BY <2>1, <2>2, LatestIs
    <2> QED BY <2>1, <2>3 DEF PathLast
  <1> HIDE DEF kept, heading
  <1> QED BY <1>10, <1>11, <1>12 DEF SectionsKeepText, kept, heading, sections, parts

-----------------------------------------------------------------------------
(* Sorting                                                                  *)

\* As many different places as there are items: every place is taken.
LEMMA Onto ==
  ASSUME NEW N \in Nat, NEW f \in [1..N -> 1..N], \A i, j \in 1..N : f[i] = f[j] => i = j
  PROVE  \A p \in 1..N : \E i \in 1..N : f[i] = p
  <1>1. IsFiniteSet(1..N)
    BY FS_Interval
  <1>2. f \in Injection(1..N, 1..N)
    BY DEF Injection, IsInjective
  <1>3. f \in Surjection(1..N, 1..N)
    BY <1>1, <1>2, FS_Injection
  <1> QED BY <1>3 DEF Surjection

Before(keys, n, i) == {j \in 1..n : keys[j] < keys[i] \/ (keys[j] = keys[i] /\ j < i)}

LEMMA BeforeIs ==
  ASSUME NEW n \in Nat, NEW keys \in [1..n -> Nat], NEW i \in 1..n
  PROVE  /\ IsFiniteSet(Before(keys, n, i)) /\ PlaceOf(keys, i) \in 1..n
         /\ PlaceOf(keys, i) = 1 + Cardinality(Before(keys, n, i))
         /\ \A j \in 1..n : j \in Before(keys, n, i) => PlaceOf(keys, j) < PlaceOf(keys, i)
  <1>1. IsFiniteSet(1..n) /\ Cardinality(1..n) = n
    BY FS_Interval
  <1>2. \A k \in 1..n : IsFiniteSet(Before(keys, n, k)) /\ Cardinality(Before(keys, n, k)) \in Nat
    BY <1>1, FS_Subset, FS_CardinalityType DEF Before
  <1>3. i \notin Before(keys, n, i)
    BY DEF Before
  <1>4. Cardinality(Before(keys, n, i) \cup {i}) = Cardinality(Before(keys, n, i)) + 1
    BY <1>2, <1>3, FS_AddElement
  <1>5. Cardinality(Before(keys, n, i) \cup {i}) <= n
    <2>1. Before(keys, n, i) \cup {i} \in SUBSET (1..n)
      BY DEF Before
    <2> QED BY <1>1, <2>1, FS_Subset
  <1>6. ASSUME NEW j \in 1..n, j \in Before(keys, n, i)
        PROVE  Cardinality(Before(keys, n, j)) < Cardinality(Before(keys, n, i))
    <2>1. j \notin Before(keys, n, j)
      BY DEF Before
    <2>2. Cardinality(Before(keys, n, j) \cup {j}) = Cardinality(Before(keys, n, j)) + 1
      BY <1>2, <2>1, FS_AddElement
    <2>3. Before(keys, n, j) \cup {j} \in SUBSET Before(keys, n, i)
      BY <1>6 DEF Before
    <2>4. Cardinality(Before(keys, n, j) \cup {j}) <= Cardinality(Before(keys, n, i))
      BY <1>2, <2>3, FS_Subset
    <2> QED BY <1>2, <2>2, <2>4
  <1>7. 1 + Cardinality(Before(keys, n, i)) \in 1..n
    BY <1>2, <1>4, <1>5
  <1>8. \A k \in 1..n : PlaceOf(keys, k) = 1 + Cardinality(Before(keys, n, k))
    <2>1. DOMAIN keys = 1..n
      OBVIOUS
    <2> QED BY <2>1 DEF PlaceOf, Before
  <1> QED BY <1>2, <1>6, <1>7, <1>8

\* The place of each item in the sorted sequence is its own.
LEMMA SortedIs ==
  ASSUME NEW n \in Nat, NEW items, NEW keys \in [1..n -> Nat]
  PROVE  /\ DOMAIN SortedBy(items, keys) = 1..n
         /\ \A p \in 1..n : \E i \in 1..n :
              PlaceOf(keys, i) = p /\ SortedBy(items, keys)[p] = items[i]
  <1> DEFINE place == [i \in 1..n |-> PlaceOf(keys, i)]
             at(p) == CHOOSE i \in 1..n : PlaceOf(keys, i) = p
  <1>1. place \in [1..n -> 1..n]
    BY BeforeIs
  <1>2. \A i, j \in 1..n : place[i] = place[j] => i = j
    <2>1. SUFFICES ASSUME NEW i \in 1..n, NEW j \in 1..n, i # j
                   PROVE  place[i] # place[j]
      BY Zenon
    <2>2. i \in Before(keys, n, j) \/ j \in Before(keys, n, i)
      BY <2>1 DEF Before
    <2>3. place[i] < place[j] \/ place[j] < place[i]
      BY <2>2, BeforeIs
    <2> QED BY <1>1, <2>3
  <1>3. SortedBy(items, keys) = [p \in 1..n |-> items[at(p)]]
    <2>1. DOMAIN keys = 1..n
      OBVIOUS
    <2> QED BY <2>1 DEF SortedBy
  <1>4. ASSUME NEW p \in 1..n
        PROVE  at(p) \in 1..n /\ PlaceOf(keys, at(p)) = p
    <2>1. \E i \in 1..n : PlaceOf(keys, i) = p
      <3>1. \A i \in 1..n : place[i] = PlaceOf(keys, i)
        OBVIOUS
      <3> HIDE DEF place
      <3>2. \A q \in 1..n : \E i \in 1..n : place[i] = q
        BY <1>1, <1>2, Onto
      <3> QED BY <3>1, <3>2
    <2> QED BY <2>1
  <1> HIDE DEF at
  <1> QED BY <1>3, <1>4

\* A permutation is sorted by putting each item at its number.
LEMMA SortedByOrder ==
  ASSUME NEW n \in Nat, NEW items, NEW keys \in Orders(n), NEW i \in 1..n
  PROVE  SortedBy(items, keys)[keys[i]] = items[i]
  <1>1. /\ keys \in [1..n -> 1..n] /\ keys \in [1..n -> Nat]
        /\ \A j, k \in 1..n : keys[j] = keys[k] => j = k
    BY DEF Orders
  <1>2. \A p \in 1..n : \E j \in 1..n : keys[j] = p
    BY <1>1, Onto
  <1>3. ASSUME NEW j \in 1..n
        PROVE  PlaceOf(keys, j) = keys[j]
    <2> DEFINE T == 1..keys[j] - 1
               g == [k \in Before(keys, n, j) |-> keys[k]]
    <2>1. keys[j] \in 1..n
      BY <1>1
    <2>2. \A k \in 1..n : k \in Before(keys, n, j) <=> keys[k] < keys[j]
      BY <1>1 DEF Before
    <2>3. g \in [Before(keys, n, j) -> T]
      BY <1>1, <2>1, <2>2 DEF Before
    <2>4. \A k, l \in Before(keys, n, j) : g[k] = g[l] => k = l
      BY <1>1 DEF Before
    <2>5. \A p \in T : \E k \in Before(keys, n, j) : g[k] = p
      <3>1. SUFFICES ASSUME NEW p \in T
                     PROVE  \E k \in Before(keys, n, j) : g[k] = p
        OBVIOUS
      <3>2. p \in 1..n /\ p < keys[j]
        BY <2>1
      <3>3. PICK k \in 1..n : keys[k] = p
        BY <1>2, <3>2
      <3> QED BY <2>2, <3>2, <3>3
    <2>6. g \in Bijection(Before(keys, n, j), T)
      <3> HIDE DEF g, T
      <3> QED BY <2>3, <2>4, <2>5 DEF Bijection, Injection, Surjection, IsInjective
    <2>7. ExistsBijection(Before(keys, n, j), T)
      BY <2>6 DEF ExistsBijection
    <2>8. Cardinality(T) = Cardinality(Before(keys, n, j))
      BY <1>1, <2>7, BeforeIs, FS_Bijection
    <2>9. Cardinality(T) = keys[j] - 1
      BY <2>1, FS_Interval
    <2> QED BY <1>1, <2>1, <2>8, <2>9, BeforeIs
  <1>4. PICK j \in 1..n : /\ PlaceOf(keys, j) = keys[i]
                          /\ SortedBy(items, keys)[keys[i]] = items[j]
    <2>1. keys[i] \in 1..n
      BY <1>1
    <2>2. keys \in [1..n -> Nat]
      BY <1>1
    <2>3. \A p \in 1..n : \E j \in 1..n :
            PlaceOf(keys, j) = p /\ SortedBy(items, keys)[p] = items[j]
      BY ONLY n \in Nat, <2>2, SortedIs
    <2> QED BY <2>1, <2>3
  <1> QED BY <1>1, <1>3, <1>4

\* Whatever order they are sent back in.
LEMMA BatchIsWhole ==
  ASSUME NEW A, NEW batch \in Seq(A), NEW order \in Orders(Len(batch))
  PROVE  EmbedBatch(batch, order) = batch
  <1> DEFINE n == Len(batch)
             items == [i \in DOMAIN batch |-> batch[order[i]]]
  <1>1. n \in Nat /\ DOMAIN batch = 1..n /\ batch = [i \in 1..n |-> batch[i]]
    BY LenProperties
  <1>2. EmbedBatch(batch, order) = SortedBy(items, order)
    BY DEF EmbedBatch
  <1>3. /\ order \in [1..n -> 1..n] /\ order \in [1..n -> Nat]
        /\ \A j, k \in 1..n : order[j] = order[k] => j = k
    BY DEF Orders
  <1>4. DOMAIN items = 1..n /\ \A i \in 1..n : items[i] = batch[order[i]]
    BY <1>1
  <1>5. order \in Orders(n)
    OBVIOUS
  <1> HIDE DEF items, n
  <1>6. \A i \in 1..n : SortedBy(items, order)[order[i]] = batch[order[i]]
    <2>1. \A i \in 1..n : SortedBy(items, order)[order[i]] = items[i]
      BY <1>1, <1>5, SortedByOrder
    <2> QED BY <1>4, <2>1
  <1>7. \A p \in 1..n : \E i \in 1..n : order[i] = p
    BY <1>1, <1>3, Onto
  <1>8. \A p \in 1..n : SortedBy(items, order)[p] = batch[p]
    BY <1>6, <1>7
  <1>9. SortedBy(items, order) = [p \in 1..n |-> SortedBy(items, order)[p]]
    BY <1>3 DEF SortedBy
  <1> QED BY <1>1, <1>2, <1>8, <1>9

LEMMA DivIs ==
  ASSUME NEW m \in Nat, NEW s \in Nat \ {0}
  PROVE  m \div s \in Nat /\ (m \div s) * s <= m /\ m < (m \div s) * s + s
  OBVIOUS

LEMMA TimesNext ==
  ASSUME NEW b \in Nat, NEW s \in Nat
  PROVE  b * s \in Nat /\ (b + 1) * s = b * s + s
  OBVIOUS

LEMMA TimesGrows ==
  ASSUME NEW a \in Nat, NEW b \in Nat, NEW s \in Nat, a <= b
  PROVE  a * s <= b * s
  OBVIOUS


\* Two adjacent slices are one.
LEMMA SlicesMeet ==
  ASSUME NEW S, NEW s \in Seq(S), NEW k \in 0..Len(s), NEW m \in k..Len(s), NEW n \in m..Len(s)
  PROVE  SubSeq(s, k + 1, m) \o SubSeq(s, m + 1, n) = SubSeq(s, k + 1, n)
  <1> DEFINE a == SubSeq(s, k + 1, m)
             b == SubSeq(s, m + 1, n)
             c == SubSeq(s, k + 1, n)
  <1>1. Len(s) \in Nat /\ k \in Nat /\ m \in Nat /\ n \in Nat /\ k <= m /\ m <= n
        /\ n \in k..Len(s)
    BY LenProperties
  <1>2. a \in Seq(S) /\ Len(a) = m - k /\ \A i \in 1..m - k : a[i] = s[k + i]
    BY <1>1, Slice
  <1>3. b \in Seq(S) /\ Len(b) = n - m /\ \A i \in 1..n - m : b[i] = s[m + i]
    BY <1>1, Slice
  <1>4. c \in Seq(S) /\ Len(c) = n - k /\ \A i \in 1..n - k : c[i] = s[k + i]
    BY <1>1, Slice
  <1> HIDE DEF a, b, c
  <1>5. /\ a \o b \in Seq(S) /\ Len(a \o b) = Len(a) + Len(b)
        /\ \A i \in 1..Len(a) + Len(b) : (a \o b)[i] = IF i <= Len(a) THEN a[i] ELSE b[i - Len(a)]
    BY <1>2, <1>3, ConcatProperties
  <1>6. Len(a) + Len(b) = n - k
    BY <1>1, <1>2, <1>3
  <1>7. ASSUME NEW i \in 1..n - k
        PROVE  (a \o b)[i] = c[i]
    <2>1. CASE i <= m - k
      <3>1. i \in 1..m - k
        BY <1>1, <2>1
      <3>2. (a \o b)[i] = a[i]
        BY <1>2, <1>5, <1>6, <2>1
      <3> QED BY <1>2, <1>4, <3>1, <3>2
    <2>2. CASE ~(i <= m - k)
      <3>1. i - (m - k) \in 1..n - m /\ m + (i - (m - k)) = k + i
        BY <1>1, <2>2
      <3>2. (a \o b)[i] = b[i - (m - k)]
        BY <1>2, <1>5, <1>6, <2>2
      <3>3. b[i - (m - k)] = s[k + i]
        BY <1>3, <3>1
      <3> QED BY <1>4, <3>2, <3>3
    <2> QED BY <2>1, <2>2
  <1>8. a \o b = c
    BY <1>4, <1>5, <1>6, <1>7, SeqEqual
  <1> QED BY <1>8 DEF a, b, c

\* Whatever the size of the batches and the order of their answers.
LEMMA PassagesAreWhole ==
  ASSUME NEW A, NEW texts \in Seq(A), NEW size \in Nat \ {0}, NEW order,
         \A n \in 1..size : order[n] \in Orders(n)
  PROVE  VectorsFit(texts, size, order)
  <1> DEFINE L == Len(texts)
             count == (L + size - 1) \div size
             upto(b) == IF b * size < L THEN b * size ELSE L
             batch(b) == SubSeq(texts, (b - 1) * size + 1, upto(b))
             parts == [b \in 1..count |-> EmbedBatch(batch(b), order[Len(batch(b))])]
  <1>1. L \in Nat
    BY LenProperties
  <1>2. /\ count \in Nat /\ count * size <= L + size - 1 /\ L + size - 1 < count * size + size
    <2>1. L + size - 1 \in Nat
      BY <1>1
    <2> HIDE DEF L
    <2> QED BY <2>1, DivIs
  <1> HIDE DEF L, count
  <1>3. count * size \in Nat /\ count * size >= L
    BY <1>1, <1>2, TimesNext
  <1>4. ASSUME NEW b \in 1..count
        PROVE  /\ (b - 1) * size \in Nat /\ (b - 1) * size < L /\ upto(b - 1) = (b - 1) * size
               /\ upto(b) \in (b - 1) * size..L /\ upto(b) - (b - 1) * size \in 1..size
    <2>1. b - 1 \in Nat /\ b \in Nat /\ b <= count /\ (b - 1) + 1 = b
      BY <1>2
    <2>2. (b - 1) * size \in Nat /\ b * size = (b - 1) * size + size
      BY <2>1, TimesNext
    <2>3. b * size <= count * size
      BY <1>2, <2>1, TimesGrows
    <2> DEFINE m == (b - 1) * size
               n == b * size
               t == count * size
    <2>4. m \in Nat /\ n = m + size /\ n <= t /\ t \in Nat /\ t <= L + size - 1
      BY <1>2, <1>3, <2>2, <2>3
    <2>5. upto(b - 1) = (IF m < L THEN m ELSE L) /\ upto(b) = IF n < L THEN n ELSE L
      OBVIOUS
    <2> HIDE DEF m, n, t, upto
    <2>6. /\ m \in Nat /\ m < L /\ upto(b - 1) = m /\ upto(b) \in m..L
          /\ upto(b) - m \in 1..size
      BY <1>1, <2>4, <2>5
    <2> QED BY <2>6 DEF m
  <1>5. ASSUME NEW b \in 1..count
        PROVE  parts[b] = SubSeq(texts, upto(b - 1) + 1, upto(b)) /\ parts[b] \in Seq(A)
    <2>1. upto(b - 1) \in Nat /\ upto(b) \in upto(b - 1)..L /\ upto(b) - upto(b - 1) \in 1..size
          /\ batch(b) = SubSeq(texts, upto(b - 1) + 1, upto(b))
      BY <1>4
    <2> HIDE DEF upto, batch
    <2>2. batch(b) \in Seq(A) /\ Len(batch(b)) = upto(b) - upto(b - 1)
      BY <2>1, Slice DEF L
    <2>3. order[Len(batch(b))] \in Orders(Len(batch(b)))
      BY <2>1, <2>2
    <2>4. EmbedBatch(batch(b), order[Len(batch(b))]) = batch(b)
      BY <2>2, <2>3, BatchIsWhole
    <2> QED BY <2>1, <2>2, <2>4
  <1>6. DOMAIN parts = 1..count /\ parts \in Seq(Seq(A)) /\ Len(parts) = count
    <2>1. parts = [b \in 1..count |-> parts[b]]
      OBVIOUS
    <2> HIDE DEF parts
    <2>2. parts \in [1..count -> Seq(A)]
      BY <1>5, <2>1
    <2> QED BY <1>2, <2>2, LenProperties
  <1>7. EmbedPassages(texts, size, order) = FlattenSeq(parts)
    BY DEF EmbedPassages, L, count
  <1> HIDE DEF parts
  <1> DEFINE J == JoinedTo(parts)
  <1>8. /\ J \in [0..count -> Seq(A)] /\ J[0] = <<>> /\ Join(parts) = J[count]
        /\ \A n \in 1..count : J[n] = J[n - 1] \o parts[n]
    BY <1>6, JoinedToDef DEF Join
  <1> DEFINE S == {n \in 0..count : J[n] = SubSeq(texts, 1, upto(n))}
  <1>9. upto(0) = 0 /\ upto(count) = L
    BY <1>1, <1>2, <1>3
  <1> HIDE DEF J, upto
  <1>10. 0 \in S
    <2>1. SubSeq(texts, 0 + 1, 0) = <<>>
      BY <1>1, NoSlice DEF L
    <2> QED BY <1>2, <1>8, <1>9, <2>1
  <1>11. ASSUME NEW n \in 1..count, n - 1 \in S
         PROVE  n \in S
    <2>1. J[n - 1] = SubSeq(texts, 1, upto(n - 1)) /\ n \in 0..count
      BY <1>2, <1>11
    <2>2. upto(n - 1) \in 0..L /\ upto(n) \in upto(n - 1)..L /\ 0 \in 0..L /\ 0 + 1 = 1
      BY <1>1, <1>4
    <2>3. SubSeq(texts, 0 + 1, upto(n - 1)) \o SubSeq(texts, upto(n - 1) + 1, upto(n))
            = SubSeq(texts, 0 + 1, upto(n))
      BY <2>2, SlicesMeet DEF L
    <2>4. J[n] = SubSeq(texts, 1, upto(n))
      BY <1>5, <1>8, <2>1, <2>2, <2>3
    <2> QED BY <2>1, <2>4
  <1> HIDE DEF S
  <1>12. count \in S
    <2>1. \A n \in 0..count : n \in S
      BY <1>2, <1>10, <1>11, UpTo
    <2> QED BY <1>2, <2>1
  <1>13. Join(parts) = texts
    <2>1. SubSeq(texts, 1, L) = texts
      BY SubSeqFull DEF L
    <2> QED BY <1>8, <1>9, <1>12, <2>1 DEF S
  <1>14. FlattenSeq(parts) = Join(parts)
    BY <1>6, FlattenIsJoin
  <1> QED BY <1>7, <1>13, <1>14 DEF VectorsFit

-----------------------------------------------------------------------------
(* Groups                                                                   *)

\* Another part at the end.
LEMMA JoinMore ==
  ASSUME NEW A, NEW parts \in Seq(Seq(A)), NEW part \in Seq(A)
  PROVE  /\ Append(parts, part) \in Seq(Seq(A)) /\ Len(Append(parts, part)) = Len(parts) + 1
         /\ \A g \in 0..Len(parts) : JoinedTo(Append(parts, part))[g] = JoinedTo(parts)[g]
         /\ JoinedTo(Append(parts, part))[Len(parts) + 1] = Join(parts) \o part
         /\ Join(Append(parts, part)) = Join(parts) \o part
  <1> DEFINE all == Append(parts, part)
             N == Len(parts)
             old == JoinedTo(parts)
             new == JoinedTo(all)
             S == {n \in 0..N : new[n] = old[n]}
  <1>1. /\ all \in Seq(Seq(A)) /\ Len(all) = N + 1 /\ all[N + 1] = part
        /\ \A n \in 1..N : all[n] = parts[n]
    BY AppendProperties
  <1>2. N \in Nat
    BY LenProperties
  <1> HIDE DEF all
  <1>3. /\ Join(parts) = old[N] /\ old[0] = <<>>
        /\ \A n \in 1..N : old[n] = old[n - 1] \o parts[n]
    BY JoinedToDef DEF Join
  <1>4. /\ Join(all) = new[N + 1] /\ new[0] = <<>>
        /\ \A n \in 1..N + 1 : new[n] = new[n - 1] \o all[n]
    BY <1>1, JoinedToDef DEF Join
  <1> HIDE DEF N, old, new
  <1>5. 0 \in S
    BY <1>2, <1>3, <1>4
  <1>6. \A n \in 1..N : n - 1 \in S => n \in S
    <2>1. \A n \in 1..N : n \in 1..N + 1 /\ n \in 0..N
      BY <1>2
    <2> QED BY <1>1, <1>3, <1>4, <2>1
  <1> HIDE DEF S
  <1>7. \A n \in 0..N : n \in S
    BY <1>2, <1>5, <1>6, UpTo
  <1>8. new[N + 1] = new[N] \o part /\ new[N] = old[N]
    <2>1. N + 1 \in 1..N + 1 /\ (N + 1) - 1 = N /\ N \in 0..N
      BY <1>2
    <2> QED BY <1>1, <1>4, <1>7, <2>1 DEF S
  <1>9. \A n \in 0..N : new[n] = old[n]
    BY <1>7 DEF S
  <1> QED BY <1>1, <1>3, <1>4, <1>8, <1>9 DEF N, all, new, old

\* The first parts, put together.
LEMMA JoinFirst ==
  ASSUME NEW A, NEW parts \in Seq(Seq(A)), NEW g \in 0..Len(parts)
  PROVE  FlattenSeq(SubSeq(parts, 1, g)) = JoinedTo(parts)[g]
  <1> DEFINE first == SubSeq(parts, 1, g)
             old == JoinedTo(parts)
             new == JoinedTo(first)
             S == {n \in 0..g : new[n] = old[n]}
  <1>1. g \in Nat /\ Len(parts) \in Nat /\ g <= Len(parts)
    BY LenProperties
  <1>2. first \in Seq(Seq(A)) /\ Len(first) = g /\ \A n \in 1..g : first[n] = parts[n]
    <2>1. 0 \in Nat /\ g \in 0..Len(parts) /\ 0 + 1 = 1 /\ g - 0 = g
      BY <1>1
    <2>2. /\ SubSeq(parts, 0 + 1, g) \in Seq(Seq(A)) /\ Len(SubSeq(parts, 0 + 1, g)) = g - 0
          /\ \A n \in 1..(g - 0) : SubSeq(parts, 0 + 1, g)[n] = parts[0 + n]
      BY <2>1, Slice
    <2>3. \A n \in 1..g : 0 + n = n
      OBVIOUS
    <2> QED BY <2>1, <2>2, <2>3
  <1> HIDE DEF first
  <1>3. /\ old[0] = <<>> /\ \A n \in 1..g : old[n] = old[n - 1] \o parts[n]
    <2>1. \A n \in 1..g : n \in 1..Len(parts)
      BY <1>1
    <2> QED BY <2>1, JoinedToDef
  <1>4. /\ Join(first) = new[g] /\ new[0] = <<>>
        /\ \A n \in 1..g : new[n] = new[n - 1] \o first[n]
    BY <1>2, JoinedToDef DEF Join
  <1> HIDE DEF old, new
  <1>5. 0 \in S
    BY <1>1, <1>3, <1>4
  <1>6. \A n \in 1..g : n - 1 \in S => n \in S
    <2>1. \A n \in 1..g : n \in 0..g
      BY <1>1
    <2> QED BY <1>2, <1>3, <1>4, <2>1
  <1> HIDE DEF S
  <1>7. new[g] = old[g]
    <2>1. \A n \in 0..g : n \in S
      BY <1>1, <1>5, <1>6, UpTo
    <2>2. g \in 0..g
      BY <1>1
    <2> QED BY <2>1, <2>2 DEF S
  <1>8. FlattenSeq(first) = Join(first)
    BY <1>2, FlattenIsJoin
  <1> QED BY <1>4, <1>7, <1>8 DEF first, old

LEMMA JoinType ==
  ASSUME NEW A, NEW parts \in Seq(Seq(A))
  PROVE  Join(parts) \in Seq(A)
  <1>1. Len(parts) \in Nat /\ JoinedTo(parts) \in [0..Len(parts) -> Seq(A)]
    BY LenProperties, JoinedToDef
  <1>2. Len(parts) \in 0..Len(parts)
    BY <1>1
  <1> QED BY <1>1, <1>2 DEF Join

Groupings(A) == [groups : Seq(Seq(A)), current : Seq(A)]

LEMMA GroupSegmentType ==
  ASSUME NEW A, NEW r \in Groupings(A), NEW segment \in A, NEW closes \in BOOLEAN
  PROVE  GroupSegment(r, segment, closes) \in Groupings(A)
  <1>1. r.groups \in Seq(Seq(A)) /\ r.current \in Seq(A)
    BY DEF Groupings
  <1>2. Append(r.current, segment) \in Seq(A)
    BY <1>1, AppendProperties
  <1>3. Append(r.groups, Append(r.current, segment)) \in Seq(Seq(A)) /\ <<>> \in Seq(A)
    BY <1>1, <1>2, AppendProperties, EmptySeq
  <1>4. CASE closes
    BY <1>3, <1>4 DEF GroupSegment, Groupings
  <1>5. CASE ~closes
    BY <1>2, <1>5 DEF GroupSegment, Groupings
  <1> QED BY <1>4, <1>5

LEMMA GroupedToDef ==
  ASSUME NEW A, NEW segments \in Seq(A), NEW cuts
  PROVE  /\ GroupedTo(segments, cuts) \in [0..Len(segments) -> Groupings(A)]
         /\ GroupedTo(segments, cuts)[0] = [groups |-> <<>>, current |-> <<>>]
         /\ \A n \in 1..Len(segments) :
              GroupedTo(segments, cuts)[n] =
                GroupSegment(GroupedTo(segments, cuts)[n - 1], segments[n], n \in cuts)
  <1> DEFINE N == Len(segments)
             C == Groupings(A)
             first == [groups |-> <<>>, current |-> <<>>]
             Turn(r, n) == GroupSegment(r, segments[n], n \in cuts)
             Value(f, n) == IF n = 0 THEN first ELSE Turn(f[n - 1], n)
             Defines(f) == f = [n \in 0..N |-> Value(f, n)]
             step == [p \in C \X (1..N) |-> Turn(p[1], p[2])]
             f == GroupedTo(segments, cuts)
  <1>1. f = CHOOSE g : Defines(g)
    BY DEF GroupedTo
  <1>2. N \in Nat
    BY LenProperties
  <1>3. first \in C
    BY EmptySeq DEF Groupings
  <1>4. \A r \in C, n \in 1..N : Turn(r, n) \in C
    <2>1. \A n \in 1..N : segments[n] \in A /\ (n \in cuts) \in BOOLEAN
      BY ElementOfSeq
    <2> QED BY <2>1, GroupSegmentType
  <1> HIDE DEF Turn, first
  <1>5. step \in [C \X (1..N) -> C]
    BY <1>4
  <1>6. \A r \in C, n \in 1..N : step[<<r, n>>] = Turn(r, n)
    OBVIOUS
  <1> HIDE DEF step, N, f, C
  <1>7. PICK g \in [0..N -> C] : FollowsTo(g, first, step, N)
    BY <1>2, <1>3, <1>5, FiniteRecursion
  <1>8. g[0] = first /\ \A n \in 1..N : g[n] = Turn(g[n - 1], n)
    <2>1. \A n \in 1..N : n - 1 \in 0..N
      BY <1>2
    <2> QED BY <1>6, <1>7, <2>1 DEF FollowsTo
  <1>9. Defines(g)
    <2>1. \A n \in 0..N : n # 0 => n \in 1..N
      BY <1>2
    <2>2. \A n \in 0..N : g[n] = Value(g, n)
      BY <1>8, <2>1
    <2> HIDE DEF Value
    <2> QED BY <2>2
  <1>10. Defines(f)
    <2> HIDE DEF Defines
    <2> QED BY <1>1, <1>9
  <1>11. f[0] = first /\ \A n \in 1..N : f[n] = Turn(f[n - 1], n)
    <2>1. \A n \in 0..N : f[n] = Value(f, n)
      <3> HIDE DEF Value
      <3> QED BY <1>10
    <2> QED BY <1>2, <2>1
  <1>12. \A n \in 0..N : f[n] \in C
    <2> DEFINE S == {n \in 0..N : f[n] \in C}
    <2>1. 0 \in S
      BY <1>2, <1>3, <1>11
    <2>2. \A n \in 1..N : n - 1 \in S => n \in S
      BY <1>2, <1>4, <1>11
    <2> HIDE DEF S
    <2>3. \A n \in 0..N : n \in S
      BY <1>2, <2>1, <2>2, UpTo
    <2> QED BY <2>3 DEF S
  <1>13. f \in [0..N -> C]
    <2>1. f = [n \in 0..N |-> Value(f, n)]
      BY <1>10
    <2> HIDE DEF Value
    <2>2. \A n \in 0..N : Value(f, n) \in C
      BY <1>12, <2>1
    <2> QED BY <2>1, <2>2
  <1> QED BY <1>11, <1>13 DEF N, f, Turn, C, first

\* The groups closed after n segments, and the one that is open.
GroupsTo(segments, cuts, r, n) ==
  /\ \A g \in 1..Len(r.groups) : /\ r.groups[g] # <<>>
                                 /\ Len(JoinedTo(r.groups)[g]) \in cuts
                                 /\ Len(JoinedTo(r.groups)[g]) \in 1..n
  /\ \A i \in 1..n : i \in cuts => \E g \in 1..Len(r.groups) : i = Len(JoinedTo(r.groups)[g])
  /\ Join(r.groups) \o r.current = SubSeq(segments, 1, n)

LEMMA SegmentHolds ==
  ASSUME NEW A, NEW segments \in Seq(A), NEW cuts, NEW n \in 1..Len(segments),
         NEW r \in Groupings(A), GroupsTo(segments, cuts, r, n - 1)
  PROVE  GroupsTo(segments, cuts, GroupSegment(r, segments[n], n \in cuts), n)
  <1> DEFINE groups == r.groups
             current == r.current
             longer == Append(current, segments[n])
             N == Len(groups)
  <1>1. /\ groups \in Seq(Seq(A)) /\ current \in Seq(A) /\ N \in Nat /\ segments[n] \in A
        /\ n \in Nat \ {0} /\ n - 1 \in 0..Len(segments) /\ Len(segments) \in Nat
    BY ElementOfSeq, LenProperties DEF Groupings
  <1>g. groups \in Seq(Seq(A)) /\ current \in Seq(A) /\ segments[n] \in A
    BY <1>1
  <1> HIDE DEF groups, current
  <1>2. longer \in Seq(A) /\ Len(longer) = Len(current) + 1 /\ Len(current) \in Nat
    BY <1>g, AppendProperties, LenProperties
  <1>3. Join(groups) \in Seq(A)
    BY <1>g, JoinType
  <1>4. /\ Join(groups) \o longer = SubSeq(segments, 1, n)
        /\ Join(groups) \o longer \in Seq(A) /\ Len(Join(groups) \o longer) = n
    <2>1. Join(groups) \o current = SubSeq(segments, 0 + 1, n - 1)
      BY DEF GroupsTo, groups, current
    <2>2. Join(groups) \o longer = Append(Join(groups) \o current, segments[n])
      BY <1>g, <1>3, AppendConcat
    <2>3. 0 \in Nat /\ n - 1 \in Nat /\ 0 <= n - 1 /\ (n - 1) + 1 <= Len(segments) /\ (n - 1) + 1 = n
      BY <1>1
    <2>4. SubSeq(segments, 0 + 1, (n - 1) + 1) =
            Append(SubSeq(segments, 0 + 1, n - 1), segments[(n - 1) + 1])
      BY <2>3, SliceAppend
    <2>5. Join(groups) \o longer = SubSeq(segments, 0 + 1, n)
      BY <2>1, <2>2, <2>3, <2>4
    <2>6. 0 \in Nat /\ n \in 0..Len(segments) /\ n - 0 = n /\ 0 + 1 = 1
      BY <1>1
    <2>7. SubSeq(segments, 0 + 1, n) \in Seq(A) /\ Len(SubSeq(segments, 0 + 1, n)) = n - 0
      BY <2>6, Slice
    <2> QED BY <2>5, <2>6, <2>7
  <1>5. /\ \A g \in 1..N : /\ groups[g] # <<>>
                           /\ Len(JoinedTo(groups)[g]) \in cuts
                           /\ Len(JoinedTo(groups)[g]) \in 1..(n - 1)
        /\ \A i \in 1..(n - 1) : i \in cuts => \E g \in 1..N : i = Len(JoinedTo(groups)[g])
    BY DEF GroupsTo, groups
  <1>6. \A i \in 1..n : i \in 1..(n - 1) \/ i = n
    BY <1>1
  <1>7. \A i \in 1..(n - 1) : i \in 1..n
    BY <1>1
  <1>8. CASE n \in cuts
    <2> DEFINE all == Append(groups, longer)
    <2>1. GroupSegment(r, segments[n], n \in cuts) = [groups |-> all, current |-> <<>>]
      BY <1>8 DEF GroupSegment, groups, current
    <2>2. /\ all \in Seq(Seq(A)) /\ Len(all) = N + 1
          /\ \A g \in 0..N : JoinedTo(all)[g] = JoinedTo(groups)[g]
          /\ JoinedTo(all)[N + 1] = Join(groups) \o longer
          /\ Join(all) = Join(groups) \o longer
      <3> HIDE DEF longer
      <3> QED BY <1>g, <1>2, JoinMore
    <2>3. all[N + 1] = longer /\ \A g \in 1..N : all[g] = groups[g]
      BY <1>g, <1>2, AppendProperties
    <2>4. longer # <<>>
      <3> HIDE DEF longer
      <3> QED BY <1>2, EmptySeq
    <2> HIDE DEF all, longer
    <2>n. N \in Nat
      BY <1>g, LenProperties
    <2> HIDE DEF N
    <2>5. \A g \in 1..N + 1 : g \in 1..N \/ g = N + 1
      BY <2>n
    <2>6. N + 1 \in 1..N + 1 /\ \A g \in 1..N : g \in 0..N /\ g \in 1..N + 1
      BY <2>n
    <2>7. Len(JoinedTo(all)[N + 1]) = n /\ n \in 1..n
      BY <1>1, <1>4, <2>2
    <2>8. \A g \in 1..N : JoinedTo(all)[g] = JoinedTo(groups)[g]
      BY <2>2, <2>6
    <2>9. \A g \in 1..N + 1 : /\ all[g] # <<>>
                              /\ Len(JoinedTo(all)[g]) \in cuts
                              /\ Len(JoinedTo(all)[g]) \in 1..n
      <3>1. SUFFICES ASSUME NEW g \in 1..N + 1
                     PROVE  /\ all[g] # <<>> /\ Len(JoinedTo(all)[g]) \in cuts
                            /\ Len(JoinedTo(all)[g]) \in 1..n
        OBVIOUS
      <3>2. CASE g = N + 1
        BY <1>8, <2>3, <2>4, <2>7, <3>2
      <3>3. CASE g \in 1..N
        BY <1>5, <1>7, <2>3, <2>8, <3>3
      <3> QED BY <2>5, <3>2, <3>3
    <2>10. \A i \in 1..n : i \in cuts => \E g \in 1..N + 1 : i = Len(JoinedTo(all)[g])
      <3>1. SUFFICES ASSUME NEW i \in 1..n, i \in cuts
                     PROVE  \E g \in 1..N + 1 : i = Len(JoinedTo(all)[g])
        OBVIOUS
      <3>2. CASE i = n
        BY <2>6, <2>7, <3>2
      <3>3. CASE i \in 1..(n - 1)
        <4>1. PICK g \in 1..N : i = Len(JoinedTo(groups)[g])
          BY <1>5, <3>1, <3>3
        <4> QED BY <2>6, <2>8, <4>1
      <3> QED BY <1>6, <3>2, <3>3
    <2>11. Join(all) \o <<>> = SubSeq(segments, 1, n)
      BY <1>4, <2>2, ConcatEmptySeq
    <2>12. [groups |-> all, current |-> <<>>].groups = all
           /\ [groups |-> all, current |-> <<>>].current = <<>> /\ Len(all) = N + 1
      BY <2>2
    <2>13. GroupsTo(segments, cuts, [groups |-> all, current |-> <<>>], n)
      BY <2>9, <2>10, <2>11, <2>12 DEF GroupsTo
    <2> QED BY <2>1, <2>13
  <1>9. CASE n \notin cuts
    <2>1. GroupSegment(r, segments[n], n \in cuts) = [groups |-> groups, current |-> longer]
      BY <1>9 DEF GroupSegment, Groupings, groups, current
    <2> HIDE DEF longer
    <2>2. \A i \in 1..n : i \in cuts => \E g \in 1..N : i = Len(JoinedTo(groups)[g])
      BY <1>5, <1>6, <1>9
    <2>3. \A g \in 1..N : /\ groups[g] # <<>>
                          /\ Len(JoinedTo(groups)[g]) \in cuts
                          /\ Len(JoinedTo(groups)[g]) \in 1..n
      BY <1>5, <1>7
    <2>4. [groups |-> groups, current |-> longer].groups = groups
          /\ [groups |-> groups, current |-> longer].current = longer
      OBVIOUS
    <2>5. GroupsTo(segments, cuts, [groups |-> groups, current |-> longer], n)
      BY <1>4, <2>2, <2>3, <2>4 DEF GroupsTo
    <2> QED BY <2>1, <2>5
  <1> QED BY <1>8, <1>9

LEMMA GroupedHolds ==
  ASSUME NEW A, NEW segments \in Seq(A), NEW cuts
  PROVE  GroupsTo(segments, cuts, GroupedTo(segments, cuts)[Len(segments)], Len(segments))
  <1> DEFINE N == Len(segments)
             f == GroupedTo(segments, cuts)
             S == {n \in 0..N : GroupsTo(segments, cuts, f[n], n)}
  <1>1. N \in Nat
    BY LenProperties
  <1>2. /\ f \in [0..N -> Groupings(A)] /\ f[0] = [groups |-> <<>>, current |-> <<>>]
        /\ \A n \in 1..N : f[n] = GroupSegment(f[n - 1], segments[n], n \in cuts)
    BY GroupedToDef
  <1> HIDE DEF f
  <1>3. 0 \in S
    <2>1. f[0].groups = <<>> /\ f[0].current = <<>> /\ Len(<<>>) = 0 /\ 1..0 = {}
      BY <1>2, EmptySeq
    <2>2. SubSeq(segments, 0 + 1, 0) = <<>> /\ 0 + 1 = 1 /\ 0 \in 0..N
      BY <1>1, NoSlice
    <2>3. <<>> \in Seq(Seq(A)) /\ <<>> \in Seq(A)
      BY EmptySeq
    <2>4. Join(<<>>) = <<>>
      BY <2>1, <2>3, JoinedToDef DEF Join
    <2>5. Join(<<>>) \o <<>> = <<>>
      BY <2>3, <2>4, ConcatEmptySeq
    <2> HIDE DEF N
    <2>6. GroupsTo(segments, cuts, f[0], 0)
      BY <2>1, <2>2, <2>5 DEF GroupsTo
    <2> QED BY <2>2, <2>6
  <1>4. ASSUME NEW n \in 1..N, n - 1 \in S
        PROVE  n \in S
    <2>1. f[n - 1] \in Groupings(A) /\ n \in 0..N /\ n - 1 \in 0..N
      BY <1>1, <1>2
    <2>2. GroupsTo(segments, cuts, f[n - 1], n - 1)
      BY <1>4
    <2>3. GroupsTo(segments, cuts, GroupSegment(f[n - 1], segments[n], n \in cuts), n)
      BY <2>1, <2>2, SegmentHolds
    <2>4. GroupsTo(segments, cuts, f[n], n)
      BY <1>2, <2>3
    <2> QED BY <2>1, <2>4
  <1> HIDE DEF S, N
  <1>5. N \in S
    <2>1. \A n \in 0..N : n \in S
      BY <1>1, <1>3, <1>4, UpTo
    <2> QED BY <1>1, <2>1
  <1> QED BY <1>5 DEF S, f, N

\* Interpolation stays above the lesser of two numbers.
LEMMA Between ==
  ASSUME NEW a \in Nat, NEW b \in Nat, NEW rest \in 0..99
  PROVE  100 * a + (b - a) * rest \in Int /\ 100 * (IF a <= b THEN a ELSE b) <= 100 * a + (b - a) * rest
  <1>1. CASE a <= b
    BY <1>1
  <1>2. CASE ~(a <= b)
    <2>1. a - b \in Nat /\ rest \in Nat
      BY <1>2
    <2>2. rest * (a - b) <= 100 * (a - b)
      BY <2>1, TimesGrows
    <2>3. (b - a) * rest = -(rest * (a - b)) /\ (b - a) * rest \in Int
      BY <2>1
    <2>4. 100 * (a - b) = 100 * a - 100 * b
      BY <2>1
    <2> QED BY <1>2, <2>2, <2>3, <2>4
  <1> QED BY <1>1, <1>2

\* No percentile is below every number of the sample.
LEMMA PercentileAbove ==
  ASSUME NEW sample \in Seq(Nat), sample # <<>>
  PROVE  /\ PercentileOf(sample) \in Int
         /\ \E i \in 1..Len(sample) : 100 * sample[i] <= PercentileOf(sample)
  <1> DEFINE n == Len(sample)
             ordered == SortedBy(sample, sample)
             position == (n - 1) * Percentile
             lower == position \div 100
             rest == position % 100
  <1>1. n \in Nat \ {0} /\ sample \in [1..n -> Nat]
    BY EmptySeq, LenProperties
  <1>2. \A p \in 1..n : \E i \in 1..n : ordered[p] = sample[i]
    <2>1. n \in Nat /\ sample \in [1..n -> Nat]
      BY <1>1
    <2> HIDE DEF n
    <2>2. \A p \in 1..n : \E i \in 1..n :
            PlaceOf(sample, i) = p /\ SortedBy(sample, sample)[p] = sample[i]
      BY ONLY <2>1, SortedIs
    <2> QED BY <2>2
  <1>3. Percentile \in 0..100
    BY SplittingAssumption
  <1>4. position \in Nat /\ position <= (n - 1) * 100
    <2>1. n - 1 \in Nat /\ Percentile \in Nat /\ Percentile <= 100
      BY <1>1, <1>3
    <2> HIDE DEF n
    <2>2. Percentile * (n - 1) <= 100 * (n - 1)
      BY <2>1, TimesGrows
    <2> QED BY <2>1, <2>2
  <1> HIDE DEF n, position, ordered
  <1>5. /\ lower \in Nat /\ rest \in 0..99 /\ position = 100 * lower + rest
    BY <1>4
  <1> HIDE DEF lower, rest
  <1>6. lower + 1 \in 1..n /\ (rest # 0 => lower + 2 \in 1..n)
    BY <1>1, <1>4, <1>5
  <1>7. PICK i \in 1..n : ordered[lower + 1] = sample[i]
    BY <1>2, <1>6
  <1>8. sample[i] \in Nat
    BY <1>1
  <1>9. CASE rest = 0
    <2>1. PercentileOf(sample) = 100 * ordered[lower + 1]
      BY <1>9 DEF PercentileOf, ordered, lower, rest, position, n
    <2> QED BY <1>7, <1>8, <2>1 DEF n
  <1>10. CASE rest # 0
    <2>1. PercentileOf(sample) = 100 * ordered[lower + 1] + (ordered[lower + 2] - ordered[lower + 1]) * rest
      BY <1>10 DEF PercentileOf, ordered, lower, rest, position, n
    <2>2. PICK j \in 1..n : ordered[lower + 2] = sample[j]
      BY <1>2, <1>6, <1>10
    <2>3. sample[j] \in Nat
      BY <1>1
    <2> DEFINE a == sample[i]
               b == sample[j]
               value == 100 * a + (b - a) * rest
    <2>4. value \in Int /\ 100 * (IF a <= b THEN a ELSE b) <= value
      BY <1>5, <1>8, <2>3, Between
    <2>5. PercentileOf(sample) = value
      BY <1>7, <2>1, <2>2
    <2> HIDE DEF value
    <2> QED BY <2>4, <2>5 DEF n
  <1> QED BY <1>9, <1>10

\* The places where groups end, the last of them left out.
CutsOf(segments, groups) ==
  {i \in 1..(Len(segments) - 1) :
     \E g \in DOMAIN groups : i = Len(FlattenSeq(SubSeq(groups, 1, g)))}

Ended(last) == IF last.current = <<>> THEN last.groups ELSE Append(last.groups, last.current)

\* The groups of segments cut at some places: every segment once, in order.
LEMMA GroupsAreWhole ==
  ASSUME NEW A, NEW segments \in Seq(A), NEW cuts, cuts \subseteq 1..(Len(segments) - 1),
         segments # <<>>, NEW groups, groups = Ended(GroupedTo(segments, cuts)[Len(segments)])
  PROVE  /\ FlattenSeq(groups) = segments
         /\ \A g \in DOMAIN groups : groups[g] # <<>>
         /\ CutsOf(segments, groups) = cuts
  <1> DEFINE N == Len(segments)
             last == GroupedTo(segments, cuts)[N]
             closed == last.groups
             open == last.current
             K == Len(closed)
  <1>1. N \in Nat \ {0}
    BY EmptySeq, LenProperties
  <1>2. closed \in Seq(Seq(A)) /\ open \in Seq(A)
    <2>1. last \in Groupings(A)
      BY SMTT(30), <1>1, GroupedToDef
    <2> QED BY <2>1 DEF Groupings
  <1>3. /\ \A g \in 1..K : /\ closed[g] # <<>>
                           /\ Len(JoinedTo(closed)[g]) \in cuts
                           /\ Len(JoinedTo(closed)[g]) \in 1..N
        /\ \A i \in 1..N : i \in cuts => \E g \in 1..K : i = Len(JoinedTo(closed)[g])
        /\ Join(closed) \o open = segments
    <2>1. GroupsTo(segments, cuts, last, N)
      BY GroupedHolds
    <2>2. SubSeq(segments, 1, N) = segments
      BY SubSeqFull
    <2> HIDE DEF last
    <2> QED BY Zenon, <2>1, <2>2 DEF GroupsTo
  <1>4. Join(closed) \in Seq(A) /\ K \in Nat /\ DOMAIN closed = 1..K
    BY <1>2, JoinType, LenProperties
  <1>5. groups = IF open = <<>> THEN closed ELSE Append(closed, open)
    BY DEF Ended
  <1> HIDE DEF last, closed, open, K, N
  <1>6. \A i \in 1..(N - 1) : i \in 1..N
    BY <1>1
  <1>7. cuts \subseteq 1..(N - 1)
    BY DEF N
  <1>8. CASE open = <<>>
    <2>1. groups = closed
      BY <1>5, <1>8
    <2>2. FlattenSeq(groups) = segments
      BY <1>2, <1>3, <1>4, <1>8, <2>1, FlattenIsJoin, ConcatEmptySeq
    <2>3. ASSUME NEW g \in 1..K
          PROVE  FlattenSeq(SubSeq(closed, 1, g)) = JoinedTo(closed)[g]
      <3>1. g \in 0..Len(closed)
        BY <1>4 DEF K
      <3> QED BY <1>2, <3>1, JoinFirst
    <2>4. {i \in 1..(N - 1) : \E g \in 1..K : i = Len(FlattenSeq(SubSeq(closed, 1, g)))} = cuts
      BY <1>3, <1>6, <1>7, <2>3
    <2> QED BY <1>3, <1>4, <2>1, <2>2, <2>4 DEF N, CutsOf
  <1>9. CASE open # <<>>
    <2>1. groups = Append(closed, open)
      BY <1>5, <1>9
    <2>a. closed \in Seq(Seq(A)) /\ open \in Seq(A)
      BY <1>2
    <2>2. /\ groups \in Seq(Seq(A)) /\ Len(groups) = K + 1
          /\ \A g \in 0..K : JoinedTo(groups)[g] = JoinedTo(closed)[g]
          /\ JoinedTo(groups)[K + 1] = Join(closed) \o open
          /\ Join(groups) = Join(closed) \o open
      <3> DEFINE all == Append(closed, open)
      <3>1. /\ all \in Seq(Seq(A)) /\ Len(all) = Len(closed) + 1
            /\ \A g \in 0..Len(closed) : JoinedTo(all)[g] = JoinedTo(closed)[g]
            /\ JoinedTo(all)[Len(closed) + 1] = Join(closed) \o open
            /\ Join(all) = Join(closed) \o open
        BY ONLY <2>a, JoinMore
      <3> HIDE DEF all
      <3>2. groups = all
        BY <2>1 DEF all
      <3> QED BY <3>1, <3>2 DEF K
    <2>3. DOMAIN groups = 1..K + 1 /\ groups[K + 1] = open
          /\ \A g \in 1..K : groups[g] = closed[g]
      <3>1. /\ Append(closed, open)[Len(closed) + 1] = open
            /\ \A g \in 1..Len(closed) : Append(closed, open)[g] = closed[g]
        BY ONLY <2>a, AppendProperties
      <3>2. DOMAIN groups = 1..Len(groups)
        BY <2>2, LenProperties
      <3> QED BY <2>1, <2>2, <3>1, <3>2 DEF K
    <2>4. FlattenSeq(groups) = segments
      BY <1>3, <2>2, FlattenIsJoin
    <2>5. \A g \in 1..K + 1 : g \in 0..Len(groups) /\ (g \in 1..K \/ g = K + 1)
      BY <1>4, <2>2
    <2>6. \A g \in 1..K : g \in 0..K /\ g \in 1..K + 1
      BY <1>4
    <2>7. \A g \in 1..K + 1 : FlattenSeq(SubSeq(groups, 1, g)) = JoinedTo(groups)[g]
      BY <2>2, <2>5, JoinFirst
    <2>8. Len(JoinedTo(groups)[K + 1]) = N /\ N \notin 1..(N - 1)
      BY <1>1, <1>3, <2>2 DEF N
    <2>9. {i \in 1..(N - 1) : \E g \in 1..K + 1 : i = Len(FlattenSeq(SubSeq(groups, 1, g)))} = cuts
      <3>1. ASSUME NEW i \in 1..(N - 1), NEW g \in 1..K + 1, i = Len(FlattenSeq(SubSeq(groups, 1, g)))
            PROVE  i \in cuts
        <4>1. i = Len(JoinedTo(groups)[g])
          BY <2>7, <3>1
        <4>2. g \in 1..K
          BY <2>5, <2>8, <4>1
        <4> QED BY <1>3, <2>2, <2>6, <4>1, <4>2
      <3>2. ASSUME NEW i \in cuts
            PROVE  \E g \in 1..K + 1 : i = Len(FlattenSeq(SubSeq(groups, 1, g)))
        <4>1. PICK g \in 1..K : i = Len(JoinedTo(closed)[g])
          BY <1>3, <1>6, <1>7
        <4> QED BY <2>2, <2>6, <2>7, <4>1
      <3> QED BY <1>7, <3>1, <3>2
    <2>10. \A g \in 1..K + 1 : groups[g] # <<>>
      BY <1>3, <1>9, <2>3, <2>5
    <2> QED BY <2>3, <2>4, <2>9, <2>10 DEF N, CutsOf
  <1> QED BY <1>8, <1>9

\* Whatever the distances.
LEMMA TopicsAreWhole ==
  ASSUME NEW distances \in Seq(Nat)
  PROVE  GroupsRebuild([i \in 1..Len(distances) + 1 |-> i], distances)
  <1> DEFINE L == Len(distances)
             segments == [i \in 1..L + 1 |-> i]
             groups == Groups(segments, distances)
             cut == {i \in 1..(Len(segments) - 1) :
                       \E g \in DOMAIN groups : i = Len(FlattenSeq(SubSeq(groups, 1, g)))}
  <1>1. L \in Nat /\ DOMAIN distances = 1..L /\ \A i \in 1..L : distances[i] \in Nat
    BY LenProperties, ElementOfSeq
  <1>2. segments \in Seq(Nat) /\ Len(segments) = L + 1 /\ segments # <<>>
    <2> HIDE DEF L
    <2>1. segments \in [1..L + 1 -> Nat]
      BY <1>1
    <2>2. segments \in Seq(Nat) /\ DOMAIN segments = 1..L + 1
      BY <1>1, <2>1
    <2> HIDE DEF segments
    <2>3. Len(segments) = L + 1
      BY <1>1, <2>2, LenProperties
    <2> QED BY <1>1, <2>2, <2>3, EmptySeq
  <1> HIDE DEF segments, L, groups
  <1>3. CASE L < 2
    <2>1. groups = <<segments>>
      BY <1>1, <1>2, <1>3 DEF Groups, groups
    <2>2. groups \in Seq(Seq(Nat)) /\ Len(groups) = 1 /\ groups[1] = segments /\ DOMAIN groups = 1..1
      BY <1>2, <2>1
    <2> HIDE DEF groups
    <2>3. JoinedTo(groups)[1] = segments /\ Join(groups) = segments
      <3>1. 1 \in 1..Len(groups) /\ 1 - 1 = 0
        BY <2>2
      <3>2. JoinedTo(groups)[1] = JoinedTo(groups)[0] \o groups[1] /\ JoinedTo(groups)[0] = <<>>
        BY <2>2, <3>1, JoinedToDef
      <3>3. JoinedTo(groups)[1] = segments
        BY <1>2, <2>2, <3>2, ConcatEmptySeq
      <3> QED BY <2>2, <3>3 DEF Join
    <2>4. FlattenSeq(groups) = segments
      BY <2>2, <2>3, FlattenIsJoin
    <2>5. FlattenSeq(SubSeq(groups, 1, 1)) = segments
      <3>1. 1 \in 0..Len(groups)
        BY <2>2
      <3> QED BY <2>2, <2>3, <3>1, JoinFirst
    <2>6. cut = {}
      <3>1. Len(segments) \notin 1..(Len(segments) - 1)
        BY <1>1, <1>2
      <3>2. \A g \in 1..1 : g = 1
        OBVIOUS
      <3> QED BY <2>2, <2>5, <3>1, <3>2
    <2>7. \A g \in DOMAIN groups : groups[g] # <<>>
      BY <1>2, <2>2
    <2> HIDE DEF cut
    <2>8. \A i \in cut, j \in DOMAIN distances \ cut : distances[i] > distances[j]
      BY <2>6
    <2>9. ~(Len(distances) >= 2)
      BY <1>1, <1>3 DEF L
    <2> QED BY <2>4, <2>7, <2>8, <2>9 DEF GroupsRebuild, groups, cut, segments, L
  <1>4. CASE ~(L < 2)
    <2> DEFINE cuts == Boundaries(distances)
    <2>1. groups = Ended(GroupedTo(segments, cuts)[Len(segments)])
      <3>1. ~(Len(segments) < 3)
        BY <1>1, <1>2, <1>4
      <3> QED BY <1>2, <3>1 DEF Groups, groups, Ended
    <2>2. distances # <<>>
      BY <1>1, <1>4, EmptySeq DEF L
    <2>3. /\ PercentileOf(distances) \in Int
          /\ \E i \in 1..L : 100 * distances[i] <= PercentileOf(distances)
      BY <2>2, PercentileAbove DEF L
    <2>4. /\ cuts \subseteq DOMAIN distances
          /\ \A i \in cuts : 100 * distances[i] > PercentileOf(distances)
          /\ \A j \in DOMAIN distances \ cuts : ~(100 * distances[j] > PercentileOf(distances))
      BY DEF Boundaries
    <2> HIDE DEF cuts
    <2>5. cuts \subseteq 1..(Len(segments) - 1)
      BY <1>1, <1>2, <2>4
    <2>6. /\ FlattenSeq(groups) = segments /\ \A g \in DOMAIN groups : groups[g] # <<>>
          /\ cut = cuts
      <3>1. segments \in Seq(Nat) /\ segments # <<>>
        BY <1>2
      <3>2. /\ FlattenSeq(groups) = segments
            /\ \A g \in DOMAIN groups : groups[g] # <<>>
            /\ CutsOf(segments, groups) = cuts
        BY ONLY <2>1, <2>5, <3>1, GroupsAreWhole
      <3> QED BY <3>2 DEF CutsOf
    <2>7. \A i \in cut, j \in DOMAIN distances \ cut : distances[i] > distances[j]
      <3>1. SUFFICES ASSUME NEW i \in cuts, NEW j \in DOMAIN distances \ cuts
                     PROVE  distances[i] > distances[j]
        BY <2>6
      <3>2. distances[i] \in Nat /\ distances[j] \in Nat
        BY <1>1, <2>4
      <3>3. 100 * distances[i] > PercentileOf(distances)
            /\ ~(100 * distances[j] > PercentileOf(distances))
        BY <2>4
      <3> QED BY <2>3, <3>2, <3>3
    <2>8. cut # DOMAIN distances
      <3>1. PICK i \in 1..L : 100 * distances[i] <= PercentileOf(distances)
        BY <2>3
      <3>2. distances[i] \in Nat
        BY <1>1
      <3>3. ~(100 * distances[i] > PercentileOf(distances))
        BY <2>3, <3>1, <3>2
      <3>4. i \notin cuts
        BY <2>4, <3>3
      <3> QED BY <1>1, <2>6, <3>4
    <2> HIDE DEF cut
    <2> QED BY <2>6, <2>7, <2>8 DEF GroupsRebuild, groups, cut, segments, L
  <1> QED BY <1>3, <1>4

-----------------------------------------------------------------------------
(* Pages                                                                    *)

LEMMA GramsFinite ==
  ASSUME NEW W, NEW words \in Seq(W), NEW trigrams \in BOOLEAN
  PROVE  IsFiniteSet(Grams(words, trigrams))
  <1>1. Len(words) \in Nat /\ DOMAIN words = 1..Len(words)
    BY LenProperties
  <1>2. CASE trigrams
    <2> DEFINE I == 1..Len(words) - 2
               T == {SubSeq(words, i, i + 2) : i \in I}
               f == [i \in I |-> SubSeq(words, i, i + 2)]
    <2>1. f \in Surjection(I, T)
      BY DEF Surjection
    <2>2. IsFiniteSet(I)
      <3>1. 1 \in Int /\ Len(words) - 2 \in Int
        BY <1>1
      <3> QED BY <3>1, FS_Interval
    <2>3. Grams(words, trigrams) = T
      BY <1>2 DEF Grams
    <2> HIDE DEF f, T, I
    <2> QED BY <2>1, <2>2, <2>3, FS_Surjection
  <1>3. CASE ~trigrams
    <2> DEFINE I == 1..Len(words)
               T == {<<w>> : w \in Range(words)}
               f == [i \in I |-> <<words[i]>>]
    <2>1. f \in Surjection(I, T)
      BY <1>1 DEF Surjection, Range
    <2>2. IsFiniteSet(I)
      <3>1. 1 \in Int /\ Len(words) \in Int
        BY <1>1
      <3> QED BY <3>1, FS_Interval
    <2>3. Grams(words, trigrams) = T
      BY <1>3 DEF Grams
    <2> HIDE DEF f, T, I
    <2> QED BY <2>1, <2>2, <2>3, FS_Surjection
  <1> QED BY <1>2, <1>3

\* A page on which a text stands has all of its grams.
LEMMA GramsStand ==
  ASSUME NEW W, NEW words \in Seq(W), NEW page \in Seq(W), StandsOn(page, words),
         NEW trigrams \in BOOLEAN
  PROVE  Grams(words, trigrams) \subseteq Grams(page, trigrams)
  <1> DEFINE n == Len(words)
             N == Len(page)
  <1>1. n \in Nat /\ N \in Nat /\ DOMAIN words = 1..n /\ DOMAIN page = 1..N
    BY LenProperties
  <1>2. PICK i \in 0..N - n : SubSeq(page, i + 1, i + n) = words
    BY DEF StandsOn
  <1>3. i \in Nat /\ i + n \in i..N /\ i + n <= N /\ (i + n) - i = n
    BY <1>1, <1>2
  <1>4. CASE trigrams
    <2>1. ASSUME NEW k \in 1..n - 2
          PROVE  /\ i + k \in 1..N - 2
                 /\ SubSeq(words, k, k + 2) = SubSeq(page, i + k, (i + k) + 2)
      <3>1. /\ k - 1 \in 0..(i + n) - i /\ k + 2 \in (k - 1)..(i + n) - i
            /\ (k - 1) + 1 = k /\ (i + (k - 1)) + 1 = i + k /\ i + (k + 2) = (i + k) + 2
        BY <1>1, <1>3
      <3>2. SubSeq(SubSeq(page, i + 1, i + n), (k - 1) + 1, k + 2)
              = SubSeq(page, (i + (k - 1)) + 1, i + (k + 2))
        BY <1>3, <3>1, SliceOfSlice
      <3>3. i + k \in 1..N - 2
        BY <1>1, <1>3
      <3> QED BY <1>2, <3>1, <3>2, <3>3
    <2> HIDE DEF n, N
    <2>2. {SubSeq(words, k, k + 2) : k \in 1..n - 2} \subseteq {SubSeq(page, k, k + 2) : k \in 1..N - 2}
      BY <2>1
    <2> QED BY <1>4, <2>2 DEF Grams, n, N
  <1>5. CASE ~trigrams
    <2>1. \A k \in 1..n : words[k] = page[i + k] /\ i + k \in 1..N
      <3>1. \A k \in 1..n : SubSeq(page, i + 1, i + n)[k] = page[i + k]
        BY <1>3, Slice
      <3> QED BY <1>1, <1>2, <1>3, <3>1
    <2> HIDE DEF n, N
    <2>2. Range(words) \subseteq Range(page)
      BY <1>1, <2>1 DEF Range
    <2> QED BY <1>5, <2>2 DEF Grams
  <1> QED BY <1>4, <1>5

\* Nothing shares more with a chunk than a page it stands on, which shares
\* something.
LEMMA SharesMost ==
  ASSUME NEW W, NEW chunk \in Seq(W), chunk # <<>>, NEW page \in Seq(W)
  PROVE  /\ Shared(chunk, chunk) \in Nat \ {0}
         /\ Shared(chunk, page) \in 0..Shared(chunk, chunk)
         /\ StandsOn(page, chunk) => Shared(chunk, page) = Shared(chunk, chunk)
  <1> DEFINE trigrams == Len(chunk) >= TrigramMinWords
             own == Grams(chunk, trigrams)
             there == Grams(page, trigrams)
  <1>1. Len(chunk) \in Nat \ {0} /\ DOMAIN chunk = 1..Len(chunk)
    BY EmptySeq, LenProperties
  <1>2. trigrams \in BOOLEAN
    OBVIOUS
  <1>3. own # {}
    <2>1. CASE trigrams
      <3>1. 1 \in 1..Len(chunk) - 2
        BY <1>1, <2>1, SplittingAssumption
      <3>2. SubSeq(chunk, 1, 1 + 2) \in own
        BY <2>1, <3>1 DEF Grams
      <3> QED BY <3>2
    <2>2. CASE ~trigrams
      <3>1. chunk[1] \in Range(chunk)
        BY <1>1 DEF Range
      <3> HIDE DEF trigrams
      <3>2. <<chunk[1]>> \in own
        BY <2>2, <3>1 DEF Grams
      <3> QED BY <3>2
    <2> HIDE DEF trigrams
    <2> QED BY <1>2, <2>1, <2>2
  <1>4. /\ Shared(chunk, chunk) = Cardinality(own \cap own)
        /\ Shared(chunk, page) = Cardinality(own \cap there)
    BY DEF Shared
  <1> HIDE DEF trigrams
  <1>5. IsFiniteSet(own)
    BY <1>2, GramsFinite
  <1>6. StandsOn(page, chunk) => own \subseteq there
    BY <1>2, GramsStand
  <1> HIDE DEF own, there
  <1>7. own \cap own = own /\ (own \subseteq there => own \cap there = own)
    OBVIOUS
  <1>8. Cardinality(own) \in Nat /\ Cardinality(own) # 0
    BY <1>3, <1>5, FS_CardinalityType, FS_EmptySet
  <1>9. Cardinality(own \cap there) <= Cardinality(own) /\ Cardinality(own \cap there) \in Nat
    BY <1>5, FS_Intersection, FS_CardinalityType
  <1>10. Shared(chunk, chunk) = Cardinality(own)
    BY <1>4, <1>7
  <1>11. StandsOn(page, chunk) => Shared(chunk, page) = Cardinality(own)
    BY <1>4, <1>6, <1>7
  <1>12. Shared(chunk, chunk) \in Nat \ {0}
    BY <1>8, <1>10
  <1>13. Shared(chunk, page) \in 0..Shared(chunk, chunk)
    BY <1>4, <1>8, <1>9, <1>10
  <1> QED BY <1>10, <1>11, <1>12, <1>13

\* Windows every stride, and the tail: no word is outside all of them.
LEMMA NeedlesCover ==
  ASSUME NEW W, NEW words \in Seq(W), NEW i \in 1..Len(words)
  PROVE  \E needle \in Needles(words), j \in 0..Len(words) - 1 :
           /\ j + Len(needle) <= Len(words) /\ i \in j + 1..j + Len(needle)
           /\ SubSeq(words, j + 1, j + Len(needle)) = needle
  <1> DEFINE n == Len(words)
             under(needle, j) ==
               /\ j + Len(needle) <= n /\ i \in j + 1..j + Len(needle)
               /\ SubSeq(words, j + 1, j + Len(needle)) = needle
  <1>1. n \in Nat /\ i \in Nat /\ 1 <= i /\ i <= n
    BY LenProperties
  <1>2. NeedleSize \in Nat /\ NeedleStride \in Nat \ {0} /\ NeedleStride <= NeedleSize
    BY SplittingAssumption
  <1>3. ASSUME NEW j \in 0..n - 1, j + NeedleSize <= n, i \in j + 1..j + NeedleSize
        PROVE  under(SubSeq(words, j + 1, j + NeedleSize), j)
    <2>1. j \in Nat /\ j + NeedleSize \in j..n /\ (j + NeedleSize) - j = NeedleSize
      BY <1>1, <1>2, <1>3
    <2>2. Len(SubSeq(words, j + 1, j + NeedleSize)) = NeedleSize
      BY <2>1, Slice
    <2> QED BY <1>3, <2>2
  <1>4. CASE n <= NeedleSize
    <2>1. words \in Needles(words)
      BY <1>4 DEF Needles
    <2>2. SubSeq(words, 0 + 1, 0 + n) = words
      BY <1>1, SubSeqFull
    <2>3. 0 \in 0..n - 1 /\ 0 + n <= n /\ i \in 0 + 1..0 + n
      BY <1>1
    <2> QED BY <2>1, <2>2, <2>3
  <1>5. CASE ~(n <= NeedleSize)
    <2> DEFINE last == (n - NeedleSize) \div NeedleStride
               k == (i - 1) \div NeedleStride
               a == k * NeedleStride
               b == last * NeedleStride
    <2>1. /\ last \in Nat /\ b <= n - NeedleSize /\ n - NeedleSize < b + NeedleStride
          /\ n - NeedleSize \in Nat
      <3>1. n - NeedleSize \in Nat
        BY <1>1, <1>2, <1>5
      <3> HIDE DEF n
      <3> QED BY <1>2, <3>1, DivIs
    <2>2. k \in Nat /\ a <= i - 1 /\ i - 1 < a + NeedleStride
      <3>1. i - 1 \in Nat
        BY <1>1
      <3> QED BY <1>2, <3>1, DivIs
    <2>3. a \in Nat /\ b \in Nat
      <3> HIDE DEF k, last
      <3> QED BY <1>2, <2>1, <2>2, TimesNext
    <2>4. /\ \A w \in 0..last : SubSeq(words, NeedleStride * w + 1, NeedleStride * w + NeedleSize)
                                  \in Needles(words)
          /\ SubSeq(words, n - NeedleSize + 1, n) \in Needles(words)
      BY <1>5 DEF Needles
    <2>5. CASE k <= last
      <3>1. a <= b
        <4> HIDE DEF k, last
        <4> QED BY <1>2, <2>1, <2>2, <2>5, TimesGrows
      <3>2. NeedleStride * k = a
        <4> HIDE DEF k
        <4> QED BY <1>2, <2>2
      <3>3. k \in 0..last
        BY <2>1, <2>2, <2>5
      <3> HIDE DEF a, b, k, last, n
      <3>4. SubSeq(words, a + 1, a + NeedleSize) \in Needles(words)
        BY <2>4, <3>2, <3>3
      <3>5. a \in 0..n - 1 /\ a + NeedleSize <= n /\ i \in a + 1..a + NeedleSize
        BY <1>1, <1>2, <2>1, <2>2, <2>3, <3>1
      <3>6. under(SubSeq(words, a + 1, a + NeedleSize), a)
        BY <1>3, <3>5
      <3> QED BY <3>4, <3>5, <3>6 DEF n
    <2>6. CASE ~(k <= last)
      <3>1. b + NeedleStride <= a
        <4> HIDE DEF k, last
        <4>1. last + 1 \in Nat /\ last + 1 <= k
          BY <2>1, <2>2, <2>6
        <4>2. (last + 1) * NeedleStride <= k * NeedleStride
          BY <1>2, <2>2, <4>1, TimesGrows
        <4>3. (last + 1) * NeedleStride = last * NeedleStride + NeedleStride
          BY <1>2, <2>1, TimesNext
        <4> QED BY <4>2, <4>3
      <3> DEFINE j == n - NeedleSize
      <3> HIDE DEF a, b, k, last
      <3>2. j \in 0..n - 1 /\ j + NeedleSize = n /\ i \in j + 1..j + NeedleSize
        <4> HIDE DEF n
        <4> QED BY <1>1, <1>2, <1>5, <2>1, <2>2, <2>3, <3>1
      <3>3. SubSeq(words, j + 1, j + NeedleSize) \in Needles(words)
        BY <2>4, <3>2
      <3> HIDE DEF j
      <3>4. under(SubSeq(words, j + 1, j + NeedleSize), j)
        <4>1. j + NeedleSize <= n
          BY <1>1, <3>2
        <4> QED BY <1>3, <3>2, <4>1
      <3> QED BY <3>2, <3>3, <3>4
    <2> QED BY <2>1, <2>2, <2>5, <2>6
  <1> QED BY <1>4, <1>5

\* A chunk that stands on a page is found, whole.
LEMMA ChunksAreFound ==
  ASSUME NEW W, NEW chunk \in Seq(W), NEW pages \in Seq(Seq(W))
  PROVE  ChunkIsFound(chunk, pages)
  <1> DEFINE best == BestPage(chunk, pages)
             covered == {i \in DOMAIN chunk :
                           \E needle \in Needles(chunk), j \in 0..Len(chunk) - 1 :
                             /\ j + Len(needle) <= Len(chunk) /\ i \in j + 1..j + Len(needle)
                             /\ SubSeq(chunk, j + 1, j + Len(needle)) = needle}
  <1>1. ASSUME NEW p \in DOMAIN pages, chunk # <<>>, StandsOn(pages[p], chunk)
        PROVE  /\ best \in 1..p
               /\ Shared(chunk, pages[best]) = Shared(chunk, chunk)
               /\ covered = DOMAIN chunk
    <2> DEFINE all == Shared(chunk, chunk)
               shares == {Shared(chunk, pages[q]) : q \in DOMAIN pages}
               most == Max({0} \cup shares)
               found == {q \in DOMAIN pages : Shared(chunk, pages[q]) = most}
    <2>1. /\ DOMAIN pages = 1..Len(pages) /\ Len(pages) \in Nat
          /\ \A q \in DOMAIN pages : pages[q] \in Seq(W)
      BY LenProperties, ElementOfSeq
    <2>2. /\ all \in Nat \ {0} /\ Shared(chunk, pages[p]) = all
          /\ \A q \in DOMAIN pages : Shared(chunk, pages[q]) \in 0..all
      BY <1>1, <2>1, SharesMost
    <2>3. most = all
      <3> DEFINE H == {0} \cup shares
      <3>1. all \in H
        BY <2>2
      <3>2. \A y \in H : y \in 0..all
        BY <2>2
      <3> HIDE DEF H, all
      <3>3. all \in H /\ \A y \in H : all >= y
        BY <2>2, <3>1, <3>2
      <3>4. \A x \in H : (\A y \in H : x >= y) => x = all
        BY <2>2, <3>1, <3>2
      <3>5. Max(H) = all
        BY <3>3, <3>4 DEF Max
      <3> QED BY <3>5 DEF H
    <2>4. best = Min(found)
      <3>1. best = IF most = 0 THEN 0 ELSE Min(found)
        BY DEF BestPage
      <3> HIDE DEF most, found, all, best
      <3> QED BY <2>2, <2>3, <3>1
    <2>5. p \in found /\ found \subseteq 1..Len(pages) /\ found \subseteq Nat
      <3> HIDE DEF most, all
      <3> QED BY <2>1, <2>2, <2>3
    <2>6. \A q \in found : Shared(chunk, pages[q]) = all
      <3> HIDE DEF most, all
      <3> QED BY <2>3
    <2> HIDE DEF found, best, all, most
    <2>7. best \in found /\ \A q \in found : best <= q
      <3>1. \E min \in found : \A q \in found : min <= q
        BY <2>5, Least
      <3> QED BY <2>4, <3>1 DEF Min
    <2>8. best \in 1..p
      BY <2>5, <2>7
    <2>9. covered = DOMAIN chunk
      <3>1. DOMAIN chunk = 1..Len(chunk)
        BY LenProperties
      <3> QED BY <3>1, NeedlesCover
    <2> QED BY <2>6, <2>7, <2>8, <2>9 DEF all
  <1> QED BY <1>1 DEF ChunkIsFound

-----------------------------------------------------------------------------
(* Every input                                                             *)

\* What the growing inputs are, of whatever length.
InputInv ==
  /\ input = [alg |-> input.alg, data |-> input.data]
  /\ input.alg = "stream" => input.data \in Seq(Text)
  /\ input.alg = "reply" => input.data \in Text
  /\ input.alg = "deltas" => input.data \in Seq(Chunks)
  /\ input.alg = "excerpts" => input.data \in Seq(Excerpts)
  /\ input.alg = "prompt" => input.data \in Prompts \cup {<<>>}
  /\ input.alg = "markdown" => input.data \in Seq(Line)
  /\ input.alg \in {"distances", "passages"} => input.data \in Seq(Nat)
  /\ input.alg = "page" => input.data \in [chunk : Seq(Words), other : Seq(Words)]

LEMMA InitInput == Init => InputInv
  <1>1. /\ <<>> \in Seq(Text) /\ <<>> \in Text /\ <<>> \in Seq(Chunks) /\ <<>> \in Seq(Excerpts)
        /\ <<>> \in Seq(Line) /\ <<>> \in Seq(Nat) /\ <<>> \in Seq(Words)
    BY EmptySeq DEF Text
  <1>2. ASSUME NEW alg, alg # "page", input = [alg |-> alg, data |-> <<>>]
        PROVE  InputInv
    BY <1>1, <1>2 DEF InputInv
  <1>3. ASSUME NEW alg \in {"corpus", "golden"}, NEW data, input = [alg |-> alg, data |-> data]
        PROVE  InputInv
    BY <1>3 DEF InputInv
  <1>4. ASSUME input = [alg |-> "page", data |-> [chunk |-> <<>>, other |-> <<>>]]
        PROVE  InputInv
    BY <1>1, <1>4 DEF InputInv
  <1> QED BY <1>2, <1>3, <1>4 DEF Init, Sequential

\* An input that grows at its end.
LEMMA GrowthIs ==
  ASSUME InputInv, NEW alg, NEW pieces, Grow(alg, pieces)
  PROVE  /\ input.alg = alg
         /\ \E piece \in pieces : input' = [alg |-> alg, data |-> Append(input.data, piece)]
  <1>1. PICK piece \in pieces : input' = [input EXCEPT !.data = Append(@, piece)]
    BY DEF Grow
  <1>2. input.alg = alg /\ input = [alg |-> input.alg, data |-> input.data]
    BY DEF Grow, InputInv
  <1> QED BY <1>1, <1>2

LEMMA GrowInput ==
  ASSUME InputInv, NEW alg, NEW pieces, Grow(alg, pieces), NEW A, input.data \in Seq(A), pieces \subseteq A
  PROVE  /\ input' = [alg |-> alg, data |-> input'.data]
         /\ input'.alg = alg /\ input'.data \in Seq(A)
  <1>1. PICK piece \in pieces : input' = [alg |-> alg, data |-> Append(input.data, piece)]
    BY GrowthIs
  <1>2. Append(input.data, piece) \in Seq(A)
    BY AppendProperties
  <1> QED BY <1>1, <1>2

\* The inputs nothing is said of here keep to their algorithm.
LEMMA OtherInput ==
  ASSUME InputInv, NEW data, input' = [input EXCEPT !.data = data],
         input.alg \notin {"stream", "reply", "deltas", "excerpts", "prompt", "markdown", "distances",
                           "passages", "page"}
  PROVE  InputInv'
  <1>1. input' = [alg |-> input.alg, data |-> data]
    BY DEF InputInv
  <1> QED BY <1>1 DEF InputInv

LEMMA GrowOther ==
  ASSUME InputInv, NEW alg, NEW pieces, Grow(alg, pieces),
         alg \notin {"stream", "reply", "deltas", "excerpts", "prompt", "markdown", "distances",
                     "passages", "page"}
  PROVE  InputInv'
  <1>1. PICK piece \in pieces : input' = [input EXCEPT !.data = Append(@, piece)]
    BY DEF Grow
  <1>2. input.alg = alg
    BY DEF Grow
  <1>3. \E data : input' = [input EXCEPT !.data = data]
    BY <1>1
  <1> QED BY <1>2, <1>3, OtherInput

LEMMA NextInput ==
  ASSUME InputInv, [Next]_vars
  PROVE  InputInv'
  <1>1. CASE UNCHANGED vars
    BY <1>1 DEF vars, InputInv
  <1>2. CASE StreamCharacter
    <2>1. PICK c \in Alphabet :
            \/ input' = [input EXCEPT !.data = Append(@, <<c>>)]
            \/ /\ input.data # <<>>
               /\ input' = [input EXCEPT !.data[Len(input.data)] = Append(@, c)]
      BY <1>2 DEF StreamCharacter
    <2>2. input.data \in Seq(Text) /\ <<c>> \in Text /\ input.alg = "stream"
      BY <1>2 DEF StreamCharacter, InputInv, Text
    <2>3. CASE input' = [input EXCEPT !.data = Append(@, <<c>>)]
      <3>1. input' = [alg |-> input.alg, data |-> Append(input.data, <<c>>)]
        BY <2>3 DEF InputInv
      <3> QED BY <2>2, <3>1, AppendProperties DEF InputInv
    <2>4. CASE /\ input.data # <<>>
               /\ input' = [input EXCEPT !.data[Len(input.data)] = Append(@, c)]
      <3> DEFINE n == Len(input.data)
                 data == [input.data EXCEPT ![n] = Append(@, c)]
      <3>1. input' = [alg |-> input.alg, data |-> data]
        BY <2>4 DEF InputInv
      <3>2. n \in DOMAIN input.data /\ input.data[n] \in Text
        BY <2>2, <2>4, EmptySeq, LenProperties, ElementOfSeq
      <3>3. Append(input.data[n], c) \in Text
        BY <3>2, AppendProperties DEF Text
      <3>4. data \in Seq(Text)
        BY <2>2, <3>2, <3>3, ExceptSeq
      <3> HIDE DEF data
      <3> QED BY <2>2, <3>1, <3>4 DEF InputInv
    <2> QED BY <2>1, <2>3, <2>4
  <1>3. CASE Reply
    <2>1. Grow("reply", Alphabet) /\ input.alg = "reply"
      BY <1>3 DEF Reply, Grow
    <2>2. input.data \in Seq(Alphabet)
      BY <2>1 DEF InputInv, Text
    <2>3. /\ input' = [alg |-> "reply", data |-> input'.data]
          /\ input'.alg = "reply" /\ input'.data \in Seq(Alphabet)
      BY <2>1, <2>2, GrowInput
    <2> QED BY <2>3 DEF InputInv, Text
  <1>4. CASE ReadDelta
    <2>1. [reasoning : Pieces, content : Pieces] \subseteq Chunks
      BY StreamAssumption DEF Chunks, Text
    <2>2. Grow("deltas", [reasoning : Pieces, content : Pieces]) /\ input.alg = "deltas"
      BY <1>4 DEF ReadDelta, Grow
    <2>3. input.data \in Seq(Chunks)
      BY <2>2 DEF InputInv
    <2>4. /\ input' = [alg |-> "deltas", data |-> input'.data]
          /\ input'.alg = "deltas" /\ input'.data \in Seq(Chunks)
      BY <2>1, <2>2, <2>3, GrowInput
    <2> QED BY <2>4 DEF InputInv
  <1>5. CASE RetrieveExcerpt
    <2>1. Grow("excerpts", Excerpts) /\ input.alg = "excerpts"
      BY <1>5 DEF RetrieveExcerpt, Grow
    <2>2. input.data \in Seq(Excerpts)
      BY <2>1 DEF InputInv
    <2>3. /\ input' = [alg |-> "excerpts", data |-> input'.data]
          /\ input'.alg = "excerpts" /\ input'.data \in Seq(Excerpts)
      BY <2>1, <2>2, GrowInput
    <2> QED BY <2>3 DEF InputInv
  <1>6. CASE Prompt
    <2>1. PICK value \in Prompts : input' = [input EXCEPT !.data = value]
      BY <1>6 DEF Prompt, Choose
    <2>2. input' = [alg |-> input.alg, data |-> value] /\ input.alg = "prompt"
      BY <1>6, <2>1 DEF InputInv, Prompt, Choose
    <2> QED BY <2>2 DEF InputInv
  <1>7. CASE Export
    BY <1>7 DEF Export, InputInv
  <1>8. CASE ReadPage \/ FindFile \/ PlayConversation \/ EvaluateGraph \/ AskEngine
    BY <1>8, GrowOther DEF ReadPage, FindFile, PlayConversation, EvaluateGraph, AskEngine
  <1>9. CASE ReadRow
    <2>1. \E pieces : Grow("rows", pieces)
      BY <1>9 DEF ReadRow
    <2> QED BY <2>1, GrowOther
  <1>10. CASE Rank \/ Lose \/ Author \/ Rechunk \/ RankGolden
    <2>1. input.alg \in {"corpus", "golden"}
      BY SMTT(30), <1>10 DEF Rank, Lose, Author, Rechunk, RankGolden, Extend
    <2>2. \E data : input' = [input EXCEPT !.data = data]
      BY <1>10 DEF Rank, Lose, Author, Rechunk, RankGolden, Extend
    <2> QED BY <2>1, <2>2, OtherInput
  <1>11. CASE Configure \/ Campaign
    <2>1. input.alg \in {"settings", "campaign"}
      BY <1>11 DEF Configure, Campaign, Choose
    <2>2. \E data : input' = [input EXCEPT !.data = data]
      BY <1>11 DEF Configure, Campaign, Choose
    <2> QED BY <2>1, <2>2, OtherInput
  <1>12. CASE ReadLine
    <2>1. Lines \subseteq Line
      <3>1. [kind : {"heading"}, level : Levels, mark : {"none"}] \subseteq Line
        <4>1. SUFFICES ASSUME NEW line \in [kind : {"heading"}, level : Levels, mark : {"none"}]
                       PROVE  line \in Line
          OBVIOUS
        <4>2. line.level \in Nat \ {0}
          BY TextAssumption
        <4> QED BY <4>2 DEF Line, Fences
      <3>2. [kind : {"fence"}, level : {0}, mark : {"backticks", "tildes"}] \subseteq Line
        BY DEF Line, Fences
      <3>3. [kind : {"text", "blank"}, level : {0}, mark : {"none"}] \subseteq Line
        BY DEF Line, Fences
      <3> QED BY <3>1, <3>2, <3>3 DEF Lines
    <2>2. Grow("markdown", Lines) /\ input.alg = "markdown"
      BY <1>12 DEF ReadLine, Grow
    <2>3. input.data \in Seq(Line)
      BY <2>2 DEF InputInv
    <2>4. /\ input' = [alg |-> "markdown", data |-> input'.data]
          /\ input'.alg = "markdown" /\ input'.data \in Seq(Line)
      BY <2>1, <2>2, <2>3, GrowInput
    <2> QED BY <2>4 DEF InputInv
  <1>13. CASE Measure
    <2>1. Grow("distances", Distances) /\ input.alg = "distances" /\ Distances \subseteq Nat
      BY <1>13, TextAssumption DEF Measure, Grow
    <2>2. input.data \in Seq(Nat)
      BY <2>1 DEF InputInv
    <2>3. /\ input' = [alg |-> "distances", data |-> input'.data]
          /\ input'.alg = "distances" /\ input'.data \in Seq(Nat)
      BY <2>1, <2>2, GrowInput
    <2> QED BY <2>3 DEF InputInv
  <1>14. CASE ReadPassage
    <2>1. Grow("passages", {Len(input.data)}) /\ input.alg = "passages"
      BY <1>14 DEF ReadPassage, Grow
    <2>2. input.data \in Seq(Nat)
      BY <2>1 DEF InputInv
    <2>3. {Len(input.data)} \subseteq Nat
      BY <2>2, LenProperties
    <2>4. /\ input' = [alg |-> "passages", data |-> input'.data]
          /\ input'.alg = "passages" /\ input'.data \in Seq(Nat)
      BY <2>1, <2>2, <2>3, GrowInput
    <2> QED BY <2>4 DEF InputInv
  <1>15. CASE ReadWord
    <2>1. PICK field \in {"chunk", "other"}, word \in Words :
            input' = [input EXCEPT !.data[field] = Append(@, word)]
      BY <1>15 DEF ReadWord, Extend
    <2>2. input.alg = "page" /\ input.data \in [chunk : Seq(Words), other : Seq(Words)]
      BY <1>15 DEF ReadWord, Extend, InputInv
    <2> DEFINE data == [input.data EXCEPT ![field] = Append(@, word)]
    <2>3. input' = [alg |-> input.alg, data |-> data]
      BY <2>1 DEF InputInv
    <2>4. Append(input.data[field], word) \in Seq(Words)
      <3>1. input.data[field] \in Seq(Words)
        BY <2>2
      <3> QED BY <3>1, AppendProperties
    <2>5. data \in [chunk : Seq(Words), other : Seq(Words)]
      BY <2>2, <2>4
    <2> HIDE DEF data
    <2> QED BY <2>2, <2>3, <2>5 DEF InputInv
  <1> QED BY <1>1, <1>2, <1>3, <1>4, <1>5, <1>6, <1>7, <1>8, <1>9, <1>10, <1>11, <1>12, <1>13, <1>14,
             <1>15 DEF Next

LEMMA StreamsAreWhole == InputInv => StreamedAsWhole
  <1> SUFFICES ASSUME InputInv
               PROVE  StreamedAsWhole
    OBVIOUS
  <1>1. CASE input.alg = "stream"
    BY <1>1, AnyCutSplitsAlike DEF InputInv, StreamedAsWhole
  <1>2. CASE input.alg = "reply"
    <2>1. input.data \in Text
      BY <1>2 DEF InputInv
    <2>2. ASSUME NEW history \in Histories, NEW settings \in Condensings
          PROVE  SearchIsClean(<<"q">>, history, input.data, settings)
      <3>1. /\ history \in Seq(STRING) /\ <<"q">> # <<>>
            /\ settings.turns \in Nat /\ settings.maxChars \in Nat
        BY StreamAssumption
      <3> QED BY <2>1, <3>1, SearchStaysClean
    <2> QED BY <1>2, <2>2 DEF StreamedAsWhole
  <1>3. CASE input.alg = "deltas"
    BY <1>3, BothTransportsAgree DEF InputInv, StreamedAsWhole
  <1> QED BY <1>1, <1>2, <1>3 DEF StreamedAsWhole

LEMMA EvidenceFits == InputInv => GroundingFits
  <1> SUFFICES ASSUME InputInv
               PROVE  GroundingFits
    OBVIOUS
  <1>1. CASE input.alg = "excerpts"
    <2>1. input.data \in Seq(Excerpts) /\ Excerpts \in SUBSET Excerpt /\ BlanksFit(Excerpts, Frame)
      BY <1>1, EvidenceAssumption DEF InputInv, Excerpt, BlanksFit
    <2>2. \A facts \in Facts, max \in Budgets :
            PacksInBudget([facts |-> facts, excerpts |-> input.data], max, Frame)
      BY <2>1, ContextsFit, EvidenceAssumption
    <2> QED BY <1>1, <2>2 DEF GroundingFits
  <1>2. CASE input.alg = "prompt" /\ input.data # <<>>
    <2> DEFINE p == input.data
               s == [LLM_CONTEXT_TOKENS |-> p.window, CONTEXTUALIZE_MAX_TOKENS |-> p.cap]
    <2>1. p \in Prompts
      BY <1>2 DEF InputInv
    <2>2. /\ p.window \in Nat /\ p.cap \in Nat \ {0} /\ p.document \in Nat /\ p.chunk \in Nat
          /\ p.scaffolding \in Nat
      BY <2>1, EvidenceAssumption
    <2>3. BlurbKeepsItsCap(s, p.document, p.chunk, p.scaffolding)
      BY <2>2, BlurbIsWhole
    <2>4. BudgetsAgree(p.window, p.cap)
      BY <2>2, AnswerKeepsItsCap
    <2> QED BY <1>2, <2>3, <2>4 DEF GroundingFits
  <1> QED BY <1>1, <1>2 DEF GroundingFits

LEMMA TextsAreWhole == InputInv => TextsKept
  <1> SUFFICES ASSUME InputInv
               PROVE  TextsKept
    OBVIOUS
  <1>1. CASE input.alg = "markdown"
    <2>1. input.data \in Seq(Line)
      BY <1>1 DEF InputInv
    <2> QED BY <1>1, <2>1, SectionsAreWhole DEF TextsKept
  <1>2. CASE input.alg = "distances"
    <2>1. input.data \in Seq(Nat)
      BY <1>2 DEF InputInv
    <2> QED BY <1>2, <2>1, TopicsAreWhole DEF TextsKept
  <1>3. CASE input.alg = "passages"
    <2>1. input.data \in Seq(Nat)
      BY <1>3 DEF InputInv
    <2>2. ASSUME NEW size \in BatchSizes, NEW order, \A n \in 1 .. size : order[n] \in Orders(n)
          PROVE  VectorsFit(input.data, size, order)
      <3>1. size \in Nat \ {0}
        BY TextAssumption
      <3> QED BY <2>1, <2>2, <3>1, PassagesAreWhole
    <2> QED BY <1>3, <2>2 DEF TextsKept
  <1>4. CASE input.alg = "page"
    <2> DEFINE chunk == input.data.chunk
               other == input.data.other
    <2>1. chunk \in Seq(Words) /\ other \in Seq(Words)
      BY <1>4 DEF InputInv
    <2>2. ASSUME NEW before \in Words, NEW after \in Words
          PROVE  LET whole == <<before>> \o chunk \o <<after>>
                 IN  /\ ChunkIsFound(chunk, <<other, whole>>)
                     /\ ChunkIsFound(chunk, <<whole, other>>)
      <3> DEFINE whole == <<before>> \o chunk \o <<after>>
      <3> HIDE DEF chunk, other
      <3>1. <<before>> \in Seq(Words) /\ <<after>> \in Seq(Words)
        OBVIOUS
      <3>2. whole \in Seq(Words)
        BY <2>1, <3>1, ConcatProperties
      <3> HIDE DEF whole
      <3>3. <<other, whole>> \in Seq(Seq(Words)) /\ <<whole, other>> \in Seq(Seq(Words))
        BY <2>1, <3>2
      <3>4. ChunkIsFound(chunk, <<other, whole>>) /\ ChunkIsFound(chunk, <<whole, other>>)
        BY <2>1, <3>3, ChunksAreFound
      <3> QED BY <3>4 DEF whole
    <2> QED BY <1>4, <2>2 DEF TextsKept
  <1> QED BY <1>1, <1>2, <1>3, <1>4 DEF TextsKept

\* models/stream.py, models/llm.py, models/condense.py: however a model's
\* output is cut and whichever way it marks its reasoning, what a client saw
\* arriving is what is stored, and no reasoning reaches a search.
THEOREM StreamsTellTheWholeAnswer == Spec => []StreamedAsWhole
  <1>1. Init => InputInv
    BY InitInput
  <1>2. InputInv /\ [Next]_vars => InputInv'
    BY NextInput
  <1>3. InputInv => StreamedAsWhole
    BY StreamsAreWhole
  <1> QED BY <1>1, <1>2, <1>3, PTL DEF Spec

\* graph/answer.py, chunking/contextual.py, models/llm.py: every context stays
\* in its budget, whatever evidence is packed into it, and an answer and a
\* blurb keep the tokens they were promised.
THEOREM EvidenceFitsItsBudget == Spec => []GroundingFits
  <1>1. Init => InputInv
    BY InitInput
  <1>2. InputInv /\ [Next]_vars => InputInv'
    BY NextInput
  <1>3. InputInv => GroundingFits
    BY EvidenceFits
  <1> QED BY <1>1, <1>2, <1>3, PTL DEF Spec

\* chunking/, models/embeddings.py, preview/: however a document is written
\* and however the embedding service answers, every line of content is in one
\* section under its heading, every segment in one group, every text has its
\* own vector, and a chunk that stands on a page is found on it.
THEOREM TextsReachTheIndexWhole == Spec => []TextsKept
  <1>1. Init => InputInv
    BY InitInput
  <1>2. InputInv /\ [Next]_vars => InputInv'
    BY NextInput
  <1>3. InputInv => TextsKept
    BY TextsAreWhole
  <1> QED BY <1>1, <1>2, <1>3, PTL DEF Spec
=============================================================================
