-------------------------- MODULE GraphBuildProofs --------------------------
(***************************************************************************)
(* First the renderer, for every message stream: packing is a function     *)
(* defined by recursion over the days, and what it promises is proved by   *)
(* induction over them.  Then the builds.  The manifest is the graph's:    *)
(* for any corpus, windows and chunk size, as long as the process is not   *)
(* killed, the workdir is wiped whole and the engine takes what it is      *)
(* offered - deletes, parses, extraction and saves of the manifest may     *)
(* fail at will.                                                           *)
(***************************************************************************)
EXTENDS GraphBuild, TranscriptGrowth, TLAPS, WellFoundedInduction, FiniteSetTheorems, SequenceTheorems

-----------------------------------------------------------------------------
(* Induction and recursion over the naturals, stated of sets and functions  *)

\* A set of naturals that has 0 and every successor has them all.
LEMMA SetInduction ==
  ASSUME NEW S, 0 \in S, \A n \in Nat : n \in S => n + 1 \in S
  PROVE  \A n \in Nat : n \in S
  <1> DEFINE T == Nat \ S
  <1>1. SUFFICES ASSUME T # {}
                 PROVE  FALSE
    OBVIOUS
  <1>2. PICK least \in T : \A n \in T : <<n, least>> \notin OpToRel(<, Nat)
    BY <1>1, WFMin, NatLessThanWellFounded
  <1>3. \A n \in T : ~(n < least)
    BY <1>2 DEF OpToRel
  <1>4. least # 0 /\ least - 1 \in Nat /\ least - 1 < least
    OBVIOUS
  <1>5. least - 1 \in S
    BY <1>3, <1>4
  <1> QED BY <1>4, <1>5

Follows(g, init, step) ==
  g[0] = init /\ \A n \in Nat : g[n + 1] = step[<<g[n], n + 1>>]

\* A function may be defined from its value at the number before.
LEMMA Recursion ==
  ASSUME NEW V, NEW init \in V, NEW step \in [V \X Nat -> V]
  PROVE  \E g \in [Nat -> V] : Follows(g, init, step)
  <1> DEFINE Approx(g, n) == /\ g \in [0..n -> V]
                             /\ g[0] = init
                             /\ \A i \in 0..(n - 1) : g[i + 1] = step[<<g[i], i + 1>>]
  <1>1. \A n \in Nat : \E g : Approx(g, n)
    <2> DEFINE S == {n \in Nat : \E g : Approx(g, n)}
    <2>1. 0 \in S
      <3>1. Approx([i \in 0..0 |-> init], 0)
        OBVIOUS
      <3> QED BY <3>1
    <2>2. ASSUME NEW n \in Nat, n \in S
          PROVE  n + 1 \in S
      <3>1. PICK g : Approx(g, n)
        BY <2>2
      <3> DEFINE next == step[<<g[n], n + 1>>]
                 h == [i \in 0..(n + 1) |-> IF i = n + 1 THEN next ELSE g[i]]
      <3>2. next \in V
        BY <3>1
      <3>3. h \in [0..(n + 1) -> V] /\ h[0] = init
        BY <3>1, <3>2
      <3>4. ASSUME NEW i \in 0..(n + 1 - 1)
            PROVE  h[i + 1] = step[<<h[i], i + 1>>]
        <4>1. CASE i = n
          <5>1. n + 1 \in 0..(n + 1) /\ n \in 0..(n + 1) /\ n # n + 1
            OBVIOUS
          <5>2. h[n + 1] = next /\ h[n] = g[n]
            BY <5>1
          <5> QED BY <4>1, <5>2
        <4>2. CASE i # n
          <5>1. i \in 0..(n - 1) /\ i + 1 \in 0..n /\ i + 1 # n + 1 /\ i # n + 1
            BY <4>2
          <5>2. h[i + 1] = g[i + 1] /\ h[i] = g[i]
            BY <5>1
          <5> QED BY <3>1, <5>1, <5>2
        <4> QED BY <4>1, <4>2
      <3>5. Approx(h, n + 1)
        <4> HIDE DEF h, next
        <4> QED BY <3>3, <3>4
      <3> QED
        <4> HIDE DEF Approx, h
        <4> QED BY <3>5
    <2> HIDE DEF S
    <2>3. \A n \in Nat : n \in S
      BY <2>1, <2>2, SetInduction
    <2> HIDE DEF Approx
    <2> QED BY <2>3 DEF S
  <1>2. ASSUME NEW m \in Nat, NEW n \in Nat, NEW g, NEW h, Approx(g, m), Approx(h, n), m <= n
        PROVE  g[m] = h[m]
    <2> DEFINE S == {i \in Nat : i <= m => g[i] = h[i]}
    <2>1. 0 \in S
      BY <1>2
    <2>2. ASSUME NEW i \in Nat, i \in S
          PROVE  i + 1 \in S
      <3>1. SUFFICES ASSUME i + 1 <= m
                     PROVE  g[i + 1] = h[i + 1]
        OBVIOUS
      <3>2. i \in 0..(m - 1) /\ i \in 0..(n - 1) /\ g[i] = h[i]
        BY <1>2, <2>2, <3>1
      <3> QED BY <1>2, <3>2
    <2> HIDE DEF S
    <2>3. m \in S
      BY <2>1, <2>2, SetInduction
    <2> QED BY <2>3 DEF S
  <1> DEFINE G == [n \in Nat |-> (CHOOSE g : Approx(g, n))[n]]
  <1>3. ASSUME NEW n \in Nat
        PROVE  \E g : Approx(g, n) /\ G[n] = g[n]
    <2>1. Approx(CHOOSE g : Approx(g, n), n)
      <3> HIDE DEF Approx
      <3> QED BY <1>1
    <2> HIDE DEF Approx
    <2> QED BY <2>1
  <1>4. ASSUME NEW n \in Nat
        PROVE  G[n] \in V /\ G[n + 1] = step[<<G[n], n + 1>>]
    <2> HIDE DEF Approx, G
    <2>1. PICK g : Approx(g, n) /\ G[n] = g[n]
      BY <1>3
    <2>2. PICK h : Approx(h, n + 1) /\ G[n + 1] = h[n + 1]
      BY <1>3
    <2>3. g[n] = h[n]
      BY <1>2, <2>1, <2>2
    <2> USE DEF Approx
    <2>4. n \in 0..(n + 1 - 1) /\ n \in 0..n
      OBVIOUS
    <2>5. h[n + 1] = step[<<h[n], n + 1>>]
      BY <2>2, <2>4
    <2> QED BY <2>1, <2>2, <2>3, <2>4, <2>5
  <1>5. G[0] = init
    <2> HIDE DEF Approx, G
    <2>1. PICK g : Approx(g, 0) /\ G[0] = g[0]
      BY <1>3
    <2> QED BY <2>1 DEF Approx
  <1>6. G \in [Nat -> V]
    <2>1. \A n \in Nat : (CHOOSE g : Approx(g, n))[n] \in V
      BY <1>4
    <2> HIDE DEF Approx
    <2> QED BY <2>1
  <1> HIDE DEF G
  <1> QED BY <1>4, <1>5, <1>6 DEF Follows

-----------------------------------------------------------------------------
(* Days and documents *)

\* A stream of messages holds messages of the databases.
IsStream(messages) == DOMAIN messages \subseteq Messages

\* Days are positive and a stream's are finitely many.
LEMMA DaysFinite ==
  ASSUME NEW messages, IsStream(messages)
  PROVE  Days(messages) \subseteq Nat \ {0} /\ IsFiniteSet(Days(messages))
  <1> DEFINE S == DOMAIN messages
             day == [m \in S |-> DayOf[m]]
  <1>1. \A m \in S : DayOf[m] \in Nat \ {0}
    BY TranscriptsAssumption DEF IsStream
  <1>2. IsFiniteSet(S)
    BY TranscriptsAssumption, FS_Subset DEF IsStream
  <1>3. day \in Surjection(S, Days(messages))
    BY DEF Surjection, Days
  <1> QED BY <1>1, <1>2, <1>3, FS_Surjection DEF Days

\* A finite set of naturals with an element has a largest one.
LEMMA Largest ==
  ASSUME NEW S, S \subseteq Nat, IsFiniteSet(S), S # {}
  PROVE  \E max \in S : \A n \in S : n <= max
  <1> DEFINE HasMax(T) == \E max \in T : \A n \in T : n <= max
             Sizes == {size \in Nat : \A T \in SUBSET S : Cardinality(T) = size + 1 => HasMax(T)}
  <1>1. ASSUME NEW T \in SUBSET S
        PROVE  IsFiniteSet(T) /\ Cardinality(T) \in Nat
    BY FS_Subset, FS_CardinalityType
  <1>2. 0 \in Sizes
    <2>1. ASSUME NEW T \in SUBSET S, Cardinality(T) = 1
          PROVE  HasMax(T)
      <3>1. PICK x : T = {x}
        BY <1>1, <2>1, FS_Singleton
      <3> QED BY <3>1
    <2> QED BY <2>1
  <1>3. ASSUME NEW size \in Nat, size \in Sizes
        PROVE  size + 1 \in Sizes
    <2>1. ASSUME NEW T \in SUBSET S, Cardinality(T) = size + 1 + 1
          PROVE  HasMax(T)
      <3> HIDE DEF HasMax
      <3>0. T # {}
        BY <1>1, <2>1, FS_EmptySet
      <3> USE DEF HasMax
      <3>1. PICK x \in T : TRUE
        BY <3>0
      <3>2. Cardinality(T \ {x}) = size + 1 /\ T \ {x} \in SUBSET S
        BY <1>1, <2>1, FS_RemoveElement
      <3>3. PICK max \in T \ {x} : \A n \in T \ {x} : n <= max
        BY <1>3, <3>2
      <3>4. x \in Nat /\ max \in Nat /\ T \subseteq Nat
        OBVIOUS
      <3>5. CASE x <= max
        BY <3>3, <3>4, <3>5
      <3>6. CASE ~(x <= max)
        <4>1. \A n \in T : n <= x
          BY <3>3, <3>4, <3>6
        <4> QED BY <4>1
      <3> QED BY <3>5, <3>6
    <2> QED BY <2>1
  <1> HIDE DEF Sizes
  <1>4. \A size \in Nat : size \in Sizes
    BY <1>2, <1>3, SetInduction
  <1>5. Cardinality(S) - 1 \in Nat
    BY <1>1, FS_EmptySet
  <1> QED BY <1>1, <1>4, <1>5 DEF Sizes

\* A document's key is made of its days, and spans them.
LEMMA KeySpansDays ==
  ASSUME NEW days, days \subseteq Nat, IsFiniteSet(days), days # {}
  PROVE  /\ DocKey(days) \in days \X days
         /\ \A day \in days : DocKey(days)[1] <= day /\ day <= DocKey(days)[2]
  <1>1. PICK max \in days : \A day \in days : day <= max
    BY Largest
  <1>2. PICK min \in days : \A day \in days : <<day, min>> \notin OpToRel(<, Nat)
    BY WFMin, NatLessThanWellFounded
  <1>3. ASSUME NEW day \in days
        PROVE  min <= day
    <2>1. day \in Nat /\ min \in Nat
      OBVIOUS
    <2>2. ~(day < min)
      BY <1>2, <2>1 DEF OpToRel
    <2> QED BY <2>1, <2>2
  <1>4. <<min, max>> \in days \X days
        /\ \A day \in days : <<min, max>>[1] <= day /\ day <= <<min, max>>[2]
    BY <1>1, <1>3
  <1> QED BY <1>4 DEF DocKey

\* Packs share out the days.
LEMMA PacksPartition ==
  ASSUME NEW messages
  PROVE  /\ \A pack \in Packs(messages) : pack # {} /\ pack \subseteq Days(messages)
         /\ \A day \in Days(messages) : \E pack \in Packs(messages) : day \in pack
         /\ \A pack, other \in Packs(messages) : pack \cap other # {} => pack = other
  <1> DEFINE open == OpenDoc(messages)
             pack(first) == {day \in Days(messages) : open[day] = first}
  <1>1. Packs(messages) = {pack(first) : first \in {open[day] : day \in Days(messages)}}
    BY DEF Packs
  <1> HIDE DEF open
  <1>2. \A day \in Days(messages) : pack(open[day]) \in Packs(messages) /\ day \in pack(open[day])
    BY <1>1
  <1>3. ASSUME NEW any \in Packs(messages)
        PROVE  /\ any # {} /\ any \subseteq Days(messages)
               /\ \A day \in any : any = pack(open[day])
    BY <1>1
  <1> HIDE DEF pack
  <1> QED BY <1>2, <1>3

\* So no two documents have the same key.
LEMMA PackOfKey ==
  ASSUME NEW messages, IsStream(messages), NEW pack \in Packs(messages)
  PROVE  /\ pack # {} /\ pack \subseteq Days(messages)
         /\ DocKey(pack) \in pack \X pack
         /\ \A day \in pack : DocKey(pack)[1] <= day /\ day <= DocKey(pack)[2]
         /\ \A other \in Packs(messages) : DocKey(other) = DocKey(pack) => other = pack
  <1>1. ASSUME NEW any \in Packs(messages)
        PROVE  /\ any # {} /\ any \subseteq Days(messages) /\ any \subseteq Nat
               /\ DocKey(any) \in any \X any
               /\ \A day \in any : DocKey(any)[1] <= day /\ day <= DocKey(any)[2]
    <2>1. any # {} /\ any \subseteq Days(messages)
      BY PacksPartition
    <2>2. any \subseteq Nat /\ IsFiniteSet(any)
      BY <2>1, DaysFinite, FS_Subset
    <2> QED BY <2>1, <2>2, KeySpansDays
  <1>2. ASSUME NEW other \in Packs(messages), DocKey(other) = DocKey(pack)
        PROVE  other = pack
    <2>1. DocKey(pack)[1] \in pack \cap other
      BY <1>1, <1>2
    <2> QED BY <2>1, PacksPartition
  <1> QED BY <1>1, <1>2

\* Documents are the packs, by key.
LEMMA DocsArePacks ==
  ASSUME NEW messages, IsStream(messages)
  PROVE  LET docs == ThreadTranscripts(messages)
         IN  /\ DOMAIN docs = {DocKey(pack) : pack \in Packs(messages)}
             /\ \A pack \in Packs(messages) :
                  docs[DocKey(pack)] = [m \in OnDays(messages, pack) |-> messages[m]]
  <1> DEFINE Pack(key) == CHOOSE pack \in Packs(messages) : DocKey(pack) = key
  <1>1. ASSUME NEW pack \in Packs(messages)
        PROVE  Pack(DocKey(pack)) = pack
    BY PackOfKey
  <1> QED BY <1>1 DEF ThreadTranscripts

\* A render indexes every message, each document one of its first day and
\* none of a day outside its key.
LEMMA DocsCover ==
  ASSUME NEW messages, IsStream(messages)
  PROVE  LET docs == ThreadTranscripts(messages)
         IN  /\ UNION {DOMAIN docs[key] : key \in DOMAIN docs} = DOMAIN messages
             /\ \A key \in DOMAIN docs :
                  /\ \E m \in DOMAIN docs[key] : DayOf[m] = key[1]
                  /\ \A m \in DOMAIN docs[key] : key[1] <= DayOf[m] /\ DayOf[m] <= key[2]
  <1> DEFINE docs == ThreadTranscripts(messages)
  <1>1. /\ DOMAIN docs = {DocKey(pack) : pack \in Packs(messages)}
        /\ \A pack \in Packs(messages) : DOMAIN docs[DocKey(pack)] = OnDays(messages, pack)
    <2>1. \A pack \in Packs(messages) : docs[DocKey(pack)] = [m \in OnDays(messages, pack) |-> messages[m]]
      BY DocsArePacks
    <2> QED BY <2>1, DocsArePacks
  <1> HIDE DEF docs
  <1>2. ASSUME NEW m \in DOMAIN messages
        PROVE  \E key \in DOMAIN docs : m \in DOMAIN docs[key]
    <2>1. PICK pack \in Packs(messages) : DayOf[m] \in pack
      BY PacksPartition DEF Days
    <2> QED BY <1>1, <2>1 DEF OnDays
  <1>3. ASSUME NEW key \in DOMAIN docs
        PROVE  /\ DOMAIN docs[key] \subseteq DOMAIN messages
               /\ \E m \in DOMAIN docs[key] : DayOf[m] = key[1]
               /\ \A m \in DOMAIN docs[key] : key[1] <= DayOf[m] /\ DayOf[m] <= key[2]
    <2>1. PICK pack \in Packs(messages) : key = DocKey(pack)
      BY <1>1
    <2>2. key[1] \in pack /\ pack \subseteq Days(messages)
      BY <2>1, PackOfKey
    <2>3. PICK m \in DOMAIN messages : DayOf[m] = key[1]
      BY <2>2 DEF Days
    <2>4. m \in DOMAIN docs[key]
      BY <1>1, <2>1, <2>2, <2>3 DEF OnDays
    <2> QED BY <1>1, <2>1, <2>3, <2>4, PackOfKey DEF OnDays
  <1>4. UNION {DOMAIN docs[key] : key \in DOMAIN docs} = DOMAIN messages
    BY <1>2, <1>3
  <1> QED BY <1>3, <1>4 DEF docs

-----------------------------------------------------------------------------
(* Packing *)

\* OpenDoc is the function its recursive definition describes.
LEMMA OpenDocDef ==
  ASSUME NEW messages
  PROVE  /\ OpenDoc(messages) \in [Nat -> Nat]
         /\ OpenDoc(messages)[0] = 0
         /\ \A day \in Nat : OpenDoc(messages)[day + 1] =
              IF day + 1 \notin Days(messages) THEN OpenDoc(messages)[day]
              ELSE OpenAfter(messages, OpenDoc(messages)[day], day + 1)
  <1> DEFINE Body(f, day) == IF day = 0 THEN 0
                             ELSE IF day \notin Days(messages) THEN f[day - 1]
                             ELSE OpenAfter(messages, f[day - 1], day)
             Defines(f) == f = [day \in Nat |-> Body(f, day)]
             step == [p \in Nat \X Nat |->
                        IF p[2] \notin Days(messages) THEN p[1] ELSE OpenAfter(messages, p[1], p[2])]
  <1>1. OpenDoc(messages) = CHOOSE f : Defines(f)
    BY DEF OpenDoc
  <1>2. step \in [Nat \X Nat -> Nat]
    <2>1. \A open, day \in Nat : OpenAfter(messages, open, day) \in Nat
      BY DEF OpenAfter
    <2> QED BY <2>1
  <1>3. \A open, day \in Nat : step[<<open, day>>] =
          IF day \notin Days(messages) THEN open ELSE OpenAfter(messages, open, day)
    OBVIOUS
  <1> HIDE DEF step
  <1>4. PICK g \in [Nat -> Nat] : g[0] = 0 /\ \A n \in Nat : g[n + 1] = step[<<g[n], n + 1>>]
    <2> DEFINE V == Nat
               init == 0
    <2>1. init \in V /\ step \in [V \X Nat -> V]
      BY <1>2
    <2> HIDE DEF V, init
    <2>2. \E g \in [Nat -> V] : Follows(g, init, step)
      BY <2>1, Recursion
    <2> QED BY <2>2 DEF V, init, Follows
  <1>5. Defines(g)
    <2>1. ASSUME NEW day \in Nat
          PROVE  g[day] = Body(g, day)
      <3>1. CASE day = 0
        BY <1>4, <3>1
      <3>2. CASE day # 0
        <4>1. day - 1 \in Nat /\ (day - 1) + 1 = day
          BY <3>2
        <4>2. g[(day - 1) + 1] = step[<<g[day - 1], (day - 1) + 1>>]
          BY <1>4, <4>1
        <4> QED BY <1>3, <1>4, <3>2, <4>1, <4>2
      <3> QED BY <3>1, <3>2
    <2> HIDE DEF Body
    <2> QED BY <2>1
  <1>6. Defines(OpenDoc(messages))
    <2> HIDE DEF Defines
    <2> QED BY <1>1, <1>5
  <1>7. \A day \in Nat : OpenDoc(messages)[day] = Body(OpenDoc(messages), day)
    <2> HIDE DEF Body
    <2> QED BY <1>6
  <1>8. OpenDoc(messages)[0] = 0
    BY <1>7
  <1>9. ASSUME NEW day \in Nat
        PROVE  OpenDoc(messages)[day + 1] =
                 IF day + 1 \notin Days(messages) THEN OpenDoc(messages)[day]
                 ELSE OpenAfter(messages, OpenDoc(messages)[day], day + 1)
    <2>1. day + 1 \in Nat /\ day + 1 # 0 /\ (day + 1) - 1 = day
      OBVIOUS
    <2>2. OpenDoc(messages)[day + 1] = Body(OpenDoc(messages), day + 1)
      BY <1>7, <2>1
    <2> QED BY <2>1, <2>2
  <1>10. OpenDoc(messages) \in [Nat -> Nat]
    <2> DEFINE S == {n \in Nat : OpenDoc(messages)[n] \in Nat}
    <2>1. 0 \in S
      BY <1>8
    <2>2. ASSUME NEW n \in Nat, n \in S
          PROVE  n + 1 \in S
      <3>1. OpenDoc(messages)[n + 1] = OpenDoc(messages)[n] \/ OpenDoc(messages)[n + 1] = n + 1
        BY <1>9 DEF OpenAfter
      <3> QED BY <2>2, <3>1
    <2> HIDE DEF S
    <2>3. \A n \in Nat : n \in S
      BY <2>1, <2>2, SetInduction
    <2>4. \A n \in Nat : OpenDoc(messages)[n] \in Nat
      BY <2>3 DEF S
    <2>5. OpenDoc(messages) = [n \in Nat |-> OpenDoc(messages)[n]]
      <3> HIDE DEF Body
      <3> QED BY <1>6
    <2> QED BY <2>4, <2>5
  <1> QED BY <1>8, <1>9, <1>10

\* A day's document begins no later than the day, with a day that begins it.
LEMMA OpenDocBounds ==
  ASSUME NEW messages, IsStream(messages), NEW day \in Nat
  PROVE  /\ OpenDoc(messages)[day] \in 0..day
         /\ OpenDoc(messages)[day] # 0 => OpenDoc(messages)[day] \in Days(messages)
         /\ day \in Days(messages) => OpenDoc(messages)[day] # 0
         /\ OpenDoc(messages)[OpenDoc(messages)[day]] = OpenDoc(messages)[day]
  <1> DEFINE open == OpenDoc(messages)
             S == {n \in Nat : /\ open[n] \in 0..n
                               /\ open[n] # 0 => open[n] \in Days(messages)
                               /\ n \in Days(messages) => open[n] # 0
                               /\ open[open[n]] = open[n]}
  <1>1. /\ open \in [Nat -> Nat] /\ open[0] = 0
        /\ \A n \in Nat : open[n + 1] = IF n + 1 \notin Days(messages) THEN open[n]
                                        ELSE OpenAfter(messages, open[n], n + 1)
    BY OpenDocDef
  <1>2. Days(messages) \subseteq Nat \ {0}
    BY DaysFinite
  <1> HIDE DEF open
  <1>3. 0 \in S
    BY <1>1, <1>2
  <1>4. ASSUME NEW n \in Nat, n \in S
        PROVE  n + 1 \in S
    <2>1. \/ open[n + 1] = open[n] /\ (n + 1 \in Days(messages) => open[n] # 0)
          \/ open[n + 1] = n + 1 /\ n + 1 \in Days(messages)
      BY <1>1 DEF OpenAfter
    <2>2. CASE open[n + 1] = open[n] /\ (n + 1 \in Days(messages) => open[n] # 0)
      BY <1>1, <1>4, <2>2
    <2>3. CASE open[n + 1] = n + 1 /\ n + 1 \in Days(messages)
      BY <1>1, <2>3
    <2> QED BY <2>1, <2>2, <2>3
  <1> HIDE DEF S
  <1>5. day \in S
    BY <1>3, <1>4, SetInduction
  <1> QED BY <1>5 DEF S, open

\* Later days are in later documents.
LEMMA OpenDocGrows ==
  ASSUME NEW messages, IsStream(messages), NEW day \in Nat, NEW later \in Nat, day <= later
  PROVE  OpenDoc(messages)[day] <= OpenDoc(messages)[later]
  <1> DEFINE open == OpenDoc(messages)
             S == {n \in Nat : day <= n => open[day] <= open[n]}
  <1>1. /\ open \in [Nat -> Nat] /\ open[0] = 0
        /\ \A n \in Nat : open[n + 1] = IF n + 1 \notin Days(messages) THEN open[n]
                                        ELSE OpenAfter(messages, open[n], n + 1)
    BY OpenDocDef
  <1>2. \A n \in Nat : open[n] \in 0..n
    BY OpenDocBounds
  <1> HIDE DEF open
  <1>3. 0 \in S
    BY <1>1
  <1>4. ASSUME NEW n \in Nat, n \in S
        PROVE  n + 1 \in S
    <2>1. open[n + 1] = open[n] \/ open[n + 1] = n + 1
      BY <1>1 DEF OpenAfter
    <2>2. open[n] <= open[n + 1] /\ open[n] \in Nat /\ open[n + 1] \in Nat /\ open[day] \in Nat
      BY <1>1, <1>2, <2>1
    <2>3. CASE day = n + 1
      BY <2>2, <2>3
    <2>4. CASE day # n + 1
      BY <1>4, <2>2, <2>4
    <2> QED BY <2>3, <2>4
  <1> HIDE DEF S
  <1>5. later \in S
    BY <1>3, <1>4, SetInduction
  <1> QED BY <1>5 DEF S, open

\* A pack is what opens with its first day, and every day in its span.
LEMMA PacksAreSpans ==
  ASSUME NEW messages, IsStream(messages), NEW pack \in Packs(messages)
  PROVE  LET key == DocKey(pack)
         IN  /\ pack = {day \in Days(messages) : OpenDoc(messages)[day] = key[1]}
             /\ pack = {day \in Days(messages) : key[1] <= day /\ day <= key[2]}
             /\ key[1] \in pack /\ key[2] \in pack /\ pack \subseteq Nat \ {0}
             /\ key = <<key[1], key[2]>>
  <1> DEFINE open == OpenDoc(messages)
             key == DocKey(pack)
  <1>1. PICK d \in Days(messages) : pack = {day \in Days(messages) : open[day] = open[d]}
    <2> HIDE DEF open
    <2>1. Packs(messages) = {{day \in Days(messages) : open[day] = first} :
                               first \in {open[day] : day \in Days(messages)}}
      BY DEF Packs, open
    <2> QED BY <2>1
  <1>2. Days(messages) \subseteq Nat \ {0}
    BY DaysFinite
  <1>3. /\ key \in pack \X pack /\ pack \subseteq Days(messages)
        /\ \A day \in pack : key[1] <= day /\ day <= key[2]
    BY PackOfKey
  <1> HIDE DEF key
  <1>4. /\ open[d] \in Days(messages) /\ open[open[d]] = open[d]
        /\ \A day \in Days(messages) : open[day] \in 0..day
    BY <1>2, OpenDocBounds
  <1>5. \A day, later \in Days(messages) : day <= later => open[day] <= open[later]
    BY <1>2, OpenDocGrows
  <1> HIDE DEF open
  <1>6. open[d] \in pack /\ key[1] = open[d]
    <2>1. open[d] \in pack
      BY <1>1, <1>4
    <2>2. key[1] <= open[d] /\ open[key[1]] = open[d] /\ key[1] \in Days(messages)
      BY <1>1, <1>3, <2>1
    <2>3. open[d] <= key[1] /\ key[1] \in Nat /\ open[d] \in Nat
      BY <1>2, <1>4, <2>2
    <2> QED BY <2>1, <2>2, <2>3
  <1>7. ASSUME NEW day \in Days(messages), key[1] <= day, day <= key[2]
        PROVE  day \in pack
    <2>1. open[key[1]] = open[d] /\ open[key[2]] = open[d]
          /\ key[1] \in Days(messages) /\ key[2] \in Days(messages)
      BY <1>1, <1>3
    <2>2. open[d] <= open[day] /\ open[day] <= open[d]
      BY <1>5, <1>7, <2>1
    <2>3. open[day] \in Nat /\ open[d] \in Nat
      BY <1>4
    <2> QED BY <1>1, <2>2, <2>3
  <1>8. pack = {day \in Days(messages) : key[1] <= day /\ day <= key[2]}
    BY <1>3, <1>7
  <1> QED BY <1>1, <1>2, <1>3, <1>6, <1>8 DEF open, key

\* For every stream of messages: each is in the one document whose day span
\* contains it, spans do not overlap, and no day is split in two, so a
\* document key names the same messages in every render of one corpus
\* (thread_transcripts, _transcript_doc).
THEOREM KeysNameTheirContent ==
  ASSUME NEW messages, IsStream(messages)
  PROVE  KeysNameContent(messages)
  <1> DEFINE docs == ThreadTranscripts(messages)
  <1>1. /\ DOMAIN docs = {DocKey(pack) : pack \in Packs(messages)}
        /\ \A pack \in Packs(messages) : DOMAIN docs[DocKey(pack)] = OnDays(messages, pack)
    <2>1. \A pack \in Packs(messages) :
            docs[DocKey(pack)] = [m \in OnDays(messages, pack) |-> messages[m]]
      BY DocsArePacks
    <2> QED BY <2>1, DocsArePacks
  <1>2. UNION {DOMAIN docs[key] : key \in DOMAIN docs} = DOMAIN messages
    BY DocsCover
  <1> HIDE DEF docs
  <1>3. ASSUME NEW pack \in Packs(messages), NEW other \in Packs(messages), pack # other
        PROVE  DocKey(pack)[2] < DocKey(other)[1] \/ DocKey(other)[2] < DocKey(pack)[1]
    <2> DEFINE key == DocKey(pack)
               okey == DocKey(other)
    <2>1. /\ pack = {day \in Days(messages) : key[1] <= day /\ day <= key[2]}
          /\ key[1] \in pack /\ key[2] \in pack /\ pack \subseteq Nat
      BY PacksAreSpans
    <2>2. /\ other = {day \in Days(messages) : okey[1] <= day /\ day <= okey[2]}
          /\ okey[1] \in other /\ okey[2] \in other /\ other \subseteq Nat
      BY PacksAreSpans
    <2>3. pack \cap other = {}
      BY <1>3, PacksPartition
    <2> HIDE DEF key, okey
    <2>4. key[1] \notin other /\ okey[1] \notin pack
      BY <2>1, <2>2, <2>3
    <2>5. key[2] < okey[1] \/ okey[2] < key[1]
      <3>1. key[1] \in Days(messages) /\ okey[1] \in Days(messages)
        BY <2>1, <2>2
      <3>2. key[1] \in Nat /\ key[2] \in Nat /\ okey[1] \in Nat /\ okey[2] \in Nat
        BY <2>1, <2>2
      <3>3. ~(okey[1] <= key[1] /\ key[1] <= okey[2])
        BY <2>2, <2>4, <3>1
      <3>4. ~(key[1] <= okey[1] /\ okey[1] <= key[2])
        BY <2>1, <2>4, <3>1
      <3> QED BY <3>2, <3>3, <3>4
    <2> QED BY <2>5 DEF key, okey
  <1>4. ASSUME NEW pack \in Packs(messages)
        PROVE  OnDays(messages, pack) = {m \in DOMAIN messages : InSpan(m, DocKey(pack))}
    <2>1. pack = {day \in Days(messages) : DocKey(pack)[1] <= day /\ day <= DocKey(pack)[2]}
      BY PacksAreSpans
    <2> QED BY <2>1 DEF OnDays, InSpan, Days
  <1>5. \A m \in DOMAIN messages : \E key \in DOMAIN docs : m \in DOMAIN docs[key]
    BY <1>2
  <1>6. \A key, other \in DOMAIN docs : key # other => key[2] < other[1] \/ other[2] < key[1]
    BY <1>1, <1>3
  <1>7. \A key \in DOMAIN docs : DOMAIN docs[key] = {m \in DOMAIN messages : InSpan(m, key)}
    BY <1>1, <1>4
  <1> QED BY <1>5, <1>6, <1>7 DEF KeysNameContent, docs

\* More days hold no fewer messages.
LEMMA SizeGrows ==
  ASSUME NEW messages, IsStream(messages), NEW days, NEW more, days \subseteq more
  PROVE  /\ Size(messages, days) \in Nat /\ Size(messages, more) \in Nat
         /\ Size(messages, days) <= Size(messages, more)
  <1>1. IsFiniteSet(DOMAIN messages)
    BY TranscriptsAssumption, FS_Subset DEF IsStream
  <1>2. OnDays(messages, more) \subseteq DOMAIN messages
        /\ OnDays(messages, days) \subseteq OnDays(messages, more)
    BY DEF OnDays
  <1>3. IsFiniteSet(OnDays(messages, more)) /\ IsFiniteSet(OnDays(messages, days))
    BY <1>1, <1>2, FS_Subset
  <1> QED BY <1>2, <1>3, FS_Subset, FS_CardinalityType DEF Size

\* The day after a document's last would have overflowed it.
LEMMA NextDayOverflows ==
  ASSUME NEW messages, IsStream(messages), NEW pack \in Packs(messages),
         NEW day \in Days(messages), DocKey(pack)[2] < day
  PROVE  Size(messages, DocKey(pack)[1]..day) > MaxChars
  <1> DEFINE open == OpenDoc(messages)
             first == DocKey(pack)[1]
             last == DocKey(pack)[2]
             after == {d \in Days(messages) : last < d}
  <1>1. Days(messages) \subseteq Nat \ {0}
    BY DaysFinite
  <1>2. /\ pack = {d \in Days(messages) : open[d] = first}
        /\ pack = {d \in Days(messages) : first <= d /\ d <= last}
        /\ first \in pack /\ last \in pack
    BY PacksAreSpans
  <1>3. /\ open \in [Nat -> Nat]
        /\ \A d \in Nat : open[d + 1] = IF d + 1 \notin Days(messages) THEN open[d]
                                        ELSE OpenAfter(messages, open[d], d + 1)
    BY OpenDocDef
  <1>4. \A d \in Nat : /\ open[d] \in 0..d /\ open[open[d]] = open[d]
                       /\ open[d] # 0 => open[d] \in Days(messages)
    BY OpenDocBounds
  <1>5. \A d, e \in Nat : d <= e => open[d] <= open[e]
    BY OpenDocGrows
  <1> HIDE DEF open, first, last
  <1>6. first \in Nat \ {0} /\ last \in Nat /\ open[first] = first /\ open[last] = first
        /\ first <= last
    BY <1>1, <1>2
  <1>7. PICK next \in after : \A d \in after : next <= d
    <2>1. after \subseteq Nat /\ after # {}
      BY <1>1 DEF last
    <2> HIDE DEF after
    <2>2. PICK next \in after : \A d \in after : <<d, next>> \notin OpToRel(<, Nat)
      BY <2>1, WFMin, NatLessThanWellFounded
    <2>3. ASSUME NEW d \in after
          PROVE  next <= d
      <3>1. d \in Nat /\ next \in Nat
        BY <2>1
      <3>2. ~(d < next)
        BY <2>2, <3>1 DEF OpToRel
      <3> QED BY <3>1, <3>2
    <2> QED BY <2>3
  <1>8. next \in Nat \ {0} /\ last < next /\ next \in Days(messages) /\ next - 1 \in Nat
        /\ last <= next - 1 /\ (next - 1) + 1 = next
    BY <1>1, <1>6, <1>7
  <1>9. open[next - 1] = first
    <2> DEFINE x == open[next - 1]
    <2>1. first <= x /\ x \in 0..(next - 1) /\ open[x] = x
      BY <1>4, <1>5, <1>6, <1>8
    <2>2. x \in Days(messages) /\ x \in Nat
      BY <1>4, <1>6, <1>8, <2>1
    <2> HIDE DEF x
    <2>3. x <= last
      <3>1. CASE last < x
        <4>1. next <= x
          BY <1>7, <2>2, <3>1
        <4> QED BY <1>8, <2>1, <2>2, <4>1
      <3> QED BY <1>6, <2>2, <3>1
    <2>4. open[x] <= first
      BY <1>5, <1>6, <2>2, <2>3
    <2>5. x = first
      BY <1>6, <2>1, <2>2, <2>4
    <2> QED BY <2>5 DEF x
  <1>10. open[next] = OpenAfter(messages, first, next)
    BY <1>3, <1>8, <1>9
  <1>11. open[next] # first
    BY <1>2, <1>6, <1>8
  <1>12. ~(Size(messages, first..next) <= MaxChars)
    BY <1>6, <1>10, <1>11 DEF OpenAfter
  <1>13. first..next \subseteq first..day
    <2>1. next <= day /\ day \in Nat
      BY <1>1, <1>7 DEF last
    <2> QED BY <1>6, <1>8, <2>1
  <1>14. /\ Size(messages, first..next) \in Nat /\ Size(messages, first..day) \in Nat
         /\ Size(messages, first..next) <= Size(messages, first..day)
    BY <1>13, SizeGrows
  <1>15. MaxChars \in Nat
    BY TranscriptsAssumption
  <1>16. Size(messages, first..day) > MaxChars
    BY <1>12, <1>14, <1>15
  <1> QED BY <1>16 DEF first

\* For every stream: no document is over the cap unless it is a single day,
\* and none could have taken the next one's first day as well, so packing
\* never opens a document it could have done without (thread_transcripts).
THEOREM PacksAreTight ==
  ASSUME NEW messages, IsStream(messages)
  PROVE  TightlyPacked(messages)
  <1> DEFINE docs == ThreadTranscripts(messages)
             open == OpenDoc(messages)
  <1>1. DOMAIN docs = {DocKey(pack) : pack \in Packs(messages)}
    BY DocsArePacks
  <1>2. \A key \in DOMAIN docs : DOMAIN docs[key] = {m \in DOMAIN messages : InSpan(m, key)}
    BY KeysNameTheirContent DEF KeysNameContent
  <1> HIDE DEF docs
  <1>3. Days(messages) \subseteq Nat \ {0}
    BY DaysFinite
  <1>4. ASSUME NEW pack \in Packs(messages), NEW key, key = DocKey(pack), key \in DOMAIN docs,
               key[1] # key[2]
        PROVE  Cardinality(DOMAIN docs[key]) <= MaxChars
    <2>1. /\ pack = {d \in Days(messages) : open[d] = key[1]}
          /\ key[1] \in pack /\ key[2] \in pack
      BY <1>4, PacksAreSpans
    <2>2. \A d \in Nat : open[d + 1] = IF d + 1 \notin Days(messages) THEN open[d]
                                       ELSE OpenAfter(messages, open[d], d + 1)
      BY OpenDocDef
    <2> HIDE DEF open
    <2>3. key[1] \in Nat /\ key[2] \in Days(messages) /\ key[2] \in Nat \ {0} /\ open[key[2]] = key[1]
      BY <1>3, <2>1
    <2>4. key[2] - 1 \in Nat /\ (key[2] - 1) + 1 = key[2]
      BY <2>3
    <2>5. open[key[2]] = OpenAfter(messages, open[key[2] - 1], key[2])
      BY <2>2, <2>3, <2>4
    <2>6. Size(messages, key[1]..key[2]) <= MaxChars
      BY <1>4, <2>3, <2>5 DEF OpenAfter
    <2>7. DOMAIN docs[key] = OnDays(messages, key[1]..key[2])
      <3>1. \A m \in DOMAIN messages : DayOf[m] \in Nat
        BY <1>3 DEF Days
      <3>2. \A m \in DOMAIN messages : InSpan(m, key) <=> DayOf[m] \in key[1]..key[2]
        BY <2>3, <3>1 DEF InSpan
      <3> QED BY <1>2, <1>4, <3>2 DEF OnDays
    <2> QED BY <2>6, <2>7 DEF Size
  <1>5. ASSUME NEW pack \in Packs(messages), NEW other \in Packs(messages),
               DocKey(pack)[2] < DocKey(other)[1]
        PROVE  Size(messages, DocKey(pack)[1]..DocKey(other)[1]) > MaxChars
    <2>1. DocKey(other)[1] \in Days(messages)
      BY PacksAreSpans
    <2> QED BY <1>5, <2>1, NextDayOverflows
  <1>6. ASSUME NEW key \in DOMAIN docs
        PROVE  /\ Cardinality(DOMAIN docs[key]) <= MaxChars \/ key[1] = key[2]
               /\ \A later \in DOMAIN docs :
                    key[2] < later[1] => Size(messages, key[1]..later[1]) > MaxChars
    BY <1>1, <1>4, <1>5
  <1> QED BY <1>6 DEF TightlyPacked, docs

\* Up to a day the old stream has, one grown at its tail is the same.
LEMMA TailIsLate ==
  ASSUME NEW old, NEW new, IsStream(old), IsStream(new), GrownAtTail(old, new),
         NEW day \in Days(old), NEW days, \A d \in days : d < day
  PROVE  OnDays(new, days) = OnDays(old, days)
  <1>1. ASSUME NEW m \in DOMAIN new, DayOf[m] \in days
        PROVE  m \in DOMAIN old
    <2>1. SUFFICES ASSUME m \notin DOMAIN old
                   PROVE  FALSE
      OBVIOUS
    <2>2. PICK n \in DOMAIN old : DayOf[n] = day
      BY DEF Days
    <2>3. n < m /\ m \in Messages /\ n \in Messages
      BY <2>1, <2>2 DEF GrownAtTail, IsStream
    <2>4. m \in Nat /\ n \in Nat /\ DayOf[m] \in Nat /\ DayOf[n] \in Nat
      BY <2>3, TranscriptsAssumption
    <2>5. DayOf[n] <= DayOf[m]
      BY <2>3, <2>4, TranscriptsAssumption
    <2> QED BY <1>1, <2>2, <2>4, <2>5
  <1> QED BY <1>1 DEF OnDays, GrownAtTail

\* So days before one of the old stream's are packed as they were...
LEMMA PackedAsBefore ==
  ASSUME NEW old, NEW new, IsStream(old), IsStream(new), GrownAtTail(old, new),
         NEW day \in Days(old), NEW before \in Nat, before < day
  PROVE  /\ OpenDoc(new)[before] = OpenDoc(old)[before]
         /\ before \in Days(new) <=> before \in Days(old)
  <1> DEFINE was == OpenDoc(old)
             is == OpenDoc(new)
             S == {n \in Nat : n < day => is[n] = was[n]}
  <1>1. day \in Nat /\ Days(old) \subseteq Nat \ {0}
    BY DaysFinite
  <1>2. ASSUME NEW days, \A d \in days : d < day
        PROVE  OnDays(new, days) = OnDays(old, days) /\ Size(new, days) = Size(old, days)
    BY <1>2, TailIsLate DEF Size
  <1>3. ASSUME NEW n \in Nat, n < day
        PROVE  n \in Days(new) <=> n \in Days(old)
    <2>1. OnDays(new, {n}) = OnDays(old, {n})
      BY <1>2, <1>3
    <2> QED BY <2>1 DEF OnDays, Days
  <1>4. /\ was \in [Nat -> Nat] /\ was[0] = 0
        /\ \A n \in Nat : was[n + 1] = IF n + 1 \notin Days(old) THEN was[n]
                                       ELSE OpenAfter(old, was[n], n + 1)
    BY OpenDocDef
  <1>5. /\ is \in [Nat -> Nat] /\ is[0] = 0
        /\ \A n \in Nat : is[n + 1] = IF n + 1 \notin Days(new) THEN is[n]
                                      ELSE OpenAfter(new, is[n], n + 1)
    BY OpenDocDef
  <1> HIDE DEF was, is
  <1>6. 0 \in S
    BY <1>4, <1>5
  <1>7. ASSUME NEW n \in Nat, n \in S
        PROVE  n + 1 \in S
    <2>1. SUFFICES ASSUME n + 1 < day
                   PROVE  is[n + 1] = was[n + 1]
      OBVIOUS
    <2>2. is[n] = was[n] /\ was[n] \in Nat
      BY <1>1, <1>4, <1>7, <2>1
    <2>3. n + 1 \in Days(new) <=> n + 1 \in Days(old)
      BY <1>3, <2>1
    <2>4. \A d \in was[n]..(n + 1) : d < day
      BY <1>1, <2>1, <2>2
    <2>5. Size(new, was[n]..(n + 1)) = Size(old, was[n]..(n + 1))
      BY <1>2, <2>4
    <2>6. OpenAfter(new, is[n], n + 1) = OpenAfter(old, was[n], n + 1)
      BY <2>2, <2>5 DEF OpenAfter
    <2> QED BY <1>4, <1>5, <2>2, <2>3, <2>6
  <1> HIDE DEF S
  <1>8. before \in S
    BY <1>6, <1>7, SetInduction
  <1> QED BY <1>3, <1>8 DEF S, was, is

\* ...and a document's first day still begins one.
LEMMA StillBegins ==
  ASSUME NEW old, NEW new, IsStream(old), IsStream(new), GrownAtTail(old, new),
         NEW first \in Days(old), OpenDoc(old)[first] = first
  PROVE  OpenDoc(new)[first] = first
  <1> DEFINE was == OpenDoc(old)
             is == OpenDoc(new)
             open == was[first - 1]
  <1>1. first \in Nat \ {0} /\ first - 1 \in Nat /\ first - 1 < first /\ (first - 1) + 1 = first
    BY DaysFinite
  <1>2. first \in Days(new)
    BY DEF GrownAtTail, Days
  <1>3. \A n \in Nat : was[n + 1] = IF n + 1 \notin Days(old) THEN was[n]
                                    ELSE OpenAfter(old, was[n], n + 1)
    BY OpenDocDef
  <1>4. \A n \in Nat : is[n + 1] = IF n + 1 \notin Days(new) THEN is[n]
                                   ELSE OpenAfter(new, is[n], n + 1)
    BY OpenDocDef
  <1>5. is[first - 1] = open
    BY <1>1, PackedAsBefore
  <1>6. open \in 0..(first - 1)
    BY <1>1, OpenDocBounds
  <1>7. OpenAfter(old, open, first) = first
    <2> HIDE DEF was
    <2>1. was[first] = OpenAfter(old, was[first - 1], first)
      BY <1>1, <1>3
    <2> QED BY <2>1 DEF was
  <1>8. is[first] = OpenAfter(new, open, first)
    <2> HIDE DEF is, open
    <2> QED BY <1>1, <1>2, <1>4, <1>5
  <1> HIDE DEF open, was, is
  <1>9. Size(new, open..first) \in Nat /\ Size(old, open..first) \in Nat
        /\ Size(old, open..first) <= Size(new, open..first)
    <2>1. OnDays(old, open..first) \subseteq OnDays(new, open..first)
      BY DEF OnDays, GrownAtTail
    <2>2. IsFiniteSet(DOMAIN new) /\ OnDays(new, open..first) \subseteq DOMAIN new
      BY TranscriptsAssumption, FS_Subset DEF IsStream, OnDays
    <2>3. IsFiniteSet(OnDays(new, open..first)) /\ IsFiniteSet(OnDays(old, open..first))
      BY <2>1, <2>2, FS_Subset
    <2> QED BY <2>1, <2>3, FS_Subset, FS_CardinalityType DEF Size
  <1>10. MaxChars \in Nat
    BY TranscriptsAssumption
  <1>11. OpenAfter(new, open, first) = first
    BY <1>1, <1>6, <1>7, <1>9, <1>10 DEF OpenAfter
  <1> QED BY <1>8, <1>11 DEF is

\* For any two streams of which one has only grown at its newest end: every
\* document but the last is rendered under its old key with its old text, so
\* a growing database costs the extraction of its last document alone
\* (render.py's "the same thread-days always produce the same doc_key and the
\* same text").
THEOREM GrowthKeepsDocuments ==
  ASSUME NEW old, NEW new, IsStream(old), IsStream(new), GrownAtTail(old, new)
  PROVE  KeepsDocs(old, new)
  <1> DEFINE was == ThreadTranscripts(old)
             is == ThreadTranscripts(new)
  <1>1. /\ DOMAIN was = {DocKey(pack) : pack \in Packs(old)}
        /\ \A pack \in Packs(old) : was[DocKey(pack)] = [m \in OnDays(old, pack) |-> old[m]]
    BY DocsArePacks
  <1>2. /\ DOMAIN is = {DocKey(pack) : pack \in Packs(new)}
        /\ \A pack \in Packs(new) : is[DocKey(pack)] = [m \in OnDays(new, pack) |-> new[m]]
    BY DocsArePacks
  <1> HIDE DEF was, is
  <1>3. ASSUME NEW pack \in Packs(old), NEW later \in Packs(old),
               DocKey(pack)[2] < DocKey(later)[1]
        PROVE  /\ pack \in Packs(new)
               /\ [m \in OnDays(new, pack) |-> new[m]] = [m \in OnDays(old, pack) |-> old[m]]
    <2> DEFINE first == DocKey(pack)[1]
               last == DocKey(pack)[2]
               next == DocKey(later)[1]
               opened == OpenDoc(old)
               opens == OpenDoc(new)
    <2>1. /\ pack = {d \in Days(old) : opened[d] = first}
          /\ pack = {d \in Days(old) : first <= d /\ d <= last}
          /\ first \in pack /\ last \in pack
      BY PacksAreSpans
    <2>2. next \in Days(old) /\ opened[next] = next
      BY PacksAreSpans
    <2>3. opens[next] = next
      BY <2>2, StillBegins
    <2>4. \A d \in Nat : d < next =>
            opens[d] = opened[d] /\ (d \in Days(new) <=> d \in Days(old))
      BY <2>2, PackedAsBefore
    <2>5. Days(old) \subseteq Nat \ {0} /\ Days(new) \subseteq Nat \ {0}
      BY DaysFinite
    <2>6. \A d, e \in Nat : d <= e => opens[d] <= opens[e]
      BY OpenDocGrows
    <2>7. opens \in [Nat -> Nat]
      BY OpenDocDef
    <2>8. last < next
      BY <1>3
    <2> HIDE DEF first, last, next, opened, opens
    <2>9. first \in Nat /\ last \in Nat /\ next \in Nat /\ first <= last
      BY <2>1, <2>2, <2>5
    <2>10. \A d \in pack : d \in Nat /\ d < next /\ d \in Days(new) /\ opens[d] = first
      BY <2>1, <2>4, <2>5, <2>8, <2>9
    <2>11. ASSUME NEW d \in Days(new), opens[d] = first
           PROVE  d \in pack
      <3>1. d \in Nat
        BY <2>5
      <3>2. CASE next <= d
        BY <2>3, <2>6, <2>8, <2>9, <2>11, <3>1, <3>2
      <3>3. CASE d < next
        BY <2>1, <2>4, <2>11, <3>1, <3>3
      <3> QED BY <2>9, <3>1, <3>2, <3>3
    <2>12. pack = {d \in Days(new) : opens[d] = first}
      BY <2>10, <2>11
    <2>13. pack \in Packs(new)
      <3>1. first \in Days(new) /\ opens[first] = first
        BY <2>1, <2>10
      <3>2. Packs(new) = {{d \in Days(new) : opens[d] = f} : f \in {opens[d] : d \in Days(new)}}
        BY DEF Packs, opens
      <3> QED BY <2>12, <3>1, <3>2
    <2>14. OnDays(new, pack) = OnDays(old, pack)
      BY <2>2, <2>10, TailIsLate
    <2>15. \A m \in OnDays(old, pack) : new[m] = old[m]
      BY DEF GrownAtTail, OnDays
    <2> QED BY <2>13, <2>14, <2>15
  <1>4. ASSUME NEW key \in DOMAIN was, NEW later \in DOMAIN was, key[2] < later[1]
        PROVE  key \in DOMAIN is /\ is[key] = was[key]
    <2>1. PICK pack \in Packs(old) : key = DocKey(pack)
      BY <1>1
    <2>2. PICK other \in Packs(old) : later = DocKey(other)
      BY <1>1
    <2>3. /\ pack \in Packs(new)
          /\ [m \in OnDays(new, pack) |-> new[m]] = [m \in OnDays(old, pack) |-> old[m]]
      BY <1>3, <1>4, <2>1, <2>2
    <2> QED BY <1>1, <1>2, <2>1, <2>3
  <1> QED BY <1>4 DEF KeepsDocs, was, is

-----------------------------------------------------------------------------
(* Windows *)

\* Batches are streams, numbered in the order they are listed.
IsCorpus(batches) ==
  /\ DOMAIN batches \subseteq Nat /\ IsFiniteSet(DOMAIN batches)
  /\ \A i \in DOMAIN batches : IsStream(batches[i])

\* Merging what is kept of the batches keeps of the merged stream the same.
LEMMA MergeNarrowed ==
  ASSUME NEW batches, IsCorpus(batches), NEW kept
  PROVE  /\ DOMAIN MergeBatches(batches) \subseteq Messages
         /\ MergeBatches(Narrowed(batches, kept)) =
              [m \in DOMAIN MergeBatches(batches) \cap kept |-> MergeBatches(batches)[m]]
  <1> DEFINE narrowed == Narrowed(batches, kept)
             Holding(b, m) == {i \in DOMAIN b : m \in DOMAIN b[i]}
             First(b, m) == CHOOSE i \in Holding(b, m) : \A j \in Holding(b, m) : i <= j
             Held(b) == UNION {DOMAIN b[i] : i \in DOMAIN b}
  <1>1. /\ MergeBatches(batches) = [m \in Held(batches) |-> batches[First(batches, m)][m]]
        /\ MergeBatches(narrowed) = [m \in Held(narrowed) |-> narrowed[First(narrowed, m)][m]]
    BY DEF MergeBatches
  <1>2. /\ DOMAIN narrowed = {i \in DOMAIN batches : DOMAIN batches[i] \cap kept # {}}
        /\ \A i \in DOMAIN narrowed :
             narrowed[i] = [m \in DOMAIN batches[i] \cap kept |-> batches[i][m]]
    BY DEF Narrowed
  <1> HIDE DEF narrowed
  <1>3. ASSUME NEW i \in DOMAIN narrowed
         PROVE  /\ i \in DOMAIN batches
                /\ DOMAIN narrowed[i] = DOMAIN batches[i] \cap kept
                /\ \A m \in DOMAIN batches[i] \cap kept : narrowed[i][m] = batches[i][m]
    BY <1>2
  <1>4. \A i \in DOMAIN batches : \A m \in DOMAIN batches[i] \cap kept : i \in DOMAIN narrowed
    BY <1>2
  <1>5. Held(narrowed) = Held(batches) \cap kept
    <2>1. ASSUME NEW m \in Held(narrowed)
          PROVE  m \in Held(batches) \cap kept
      <3>1. PICK i \in DOMAIN narrowed : m \in DOMAIN narrowed[i]
        OBVIOUS
      <3> QED BY <1>3, <3>1
    <2>2. ASSUME NEW m \in Held(batches) \cap kept
          PROVE  m \in Held(narrowed)
      <3>1. PICK i \in DOMAIN batches : m \in DOMAIN batches[i]
        OBVIOUS
      <3>2. i \in DOMAIN narrowed /\ m \in DOMAIN narrowed[i]
        BY <1>3, <1>4, <3>1
      <3> QED BY <3>2
    <2> HIDE DEF Held
    <2> QED BY <2>1, <2>2
  <1>6. ASSUME NEW m \in Held(batches) \cap kept
        PROVE  narrowed[First(narrowed, m)][m] = batches[First(batches, m)][m]
    <2>1. Holding(narrowed, m) = Holding(batches, m)
      BY <1>3, <1>4
    <2>2. First(narrowed, m) = First(batches, m)
      BY <2>1
    <2>3. First(batches, m) \in Holding(batches, m)
      <3>1. Holding(batches, m) \subseteq Nat /\ Holding(batches, m) # {}
        BY DEF IsCorpus
      <3> DEFINE H == Holding(batches, m)
      <3> HIDE DEF H
      <3>2. PICK i \in H : \A j \in H : <<j, i>> \notin OpToRel(<, Nat)
        BY <3>1, WFMin, NatLessThanWellFounded DEF H
      <3>3. ASSUME NEW j \in H
            PROVE  i <= j
        <4>1. i \in Nat /\ j \in Nat
          BY <3>1 DEF H
        <4>2. ~(j < i)
          BY <3>2, <4>1 DEF OpToRel
        <4> QED BY <4>1, <4>2
      <3> QED BY <3>3 DEF H
    <2>4. First(batches, m) \in DOMAIN narrowed /\ m \in DOMAIN batches[First(batches, m)] \cap kept
      BY <1>2, <2>1, <2>3
    <2> HIDE DEF First
    <2> QED BY <1>3, <2>2, <2>4
  <1>7. DOMAIN MergeBatches(batches) \subseteq Messages
    BY <1>1 DEF IsCorpus, IsStream
  <1> HIDE DEF Held, First
  <1>8. MergeBatches(narrowed) = [m \in Held(batches) \cap kept |-> batches[First(batches, m)][m]]
    BY <1>1, <1>5, <1>6
  <1>9. MergeBatches(narrowed) =
          [m \in DOMAIN MergeBatches(batches) \cap kept |-> MergeBatches(batches)[m]]
    BY <1>1, <1>8
  <1> QED BY <1>7, <1>9 DEF narrowed

\* A window by date alone is what the floor leaves of the merged stream.
LEMMA FloorWindow ==
  ASSUME NEW batches, IsCorpus(batches), NEW bound, bound.limit = 0
  PROVE  LET merged == MergeBatches(batches)
             inRange == {m \in DOMAIN merged : DayOf[m] >= bound.since}
         IN  /\ IsStream(merged)
             /\ Window(batches, bound) = [m \in inRange |-> merged[m]]
  <1> DEFINE merged == MergeBatches(batches)
             kept == {m \in Messages : DayOf[m] >= bound.since}
  <1>1. ApplyBounds(batches, bound) = Narrowed(batches, kept)
    BY DEF ApplyBounds
  <1>2. /\ DOMAIN merged \subseteq Messages
        /\ Window(batches, bound) = [m \in DOMAIN merged \cap kept |-> merged[m]]
    BY <1>1, MergeNarrowed DEF Window
  <1> HIDE DEF merged
  <1>3. DOMAIN merged \cap kept = {m \in DOMAIN merged : DayOf[m] >= bound.since}
    BY <1>2
  <1> QED BY <1>2, <1>3 DEF merged, IsStream

\* For any batches and any two windows by date: a floor cuts on a day
\* boundary, so that a document both windows render is rendered alike, and
\* moving the floor re-extracts nothing it still has whole (apply_bounds,
\* thread_transcripts).  A message_limit may cut a day in two.
THEOREM FloorsCutBetweenDays ==
  ASSUME NEW batches, IsCorpus(batches), NEW bound, NEW other,
         bound.limit = 0, other.limit = 0, bound.since \in Nat, other.since \in Nat
  PROVE  WindowsAgree(batches, bound, other)
  <1> DEFINE merged == MergeBatches(batches)
             this == Window(batches, bound)
             that == Window(batches, other)
  <1>1. /\ IsStream(merged)
        /\ this = [m \in {n \in DOMAIN merged : DayOf[n] >= bound.since} |-> merged[m]]
        /\ that = [m \in {n \in DOMAIN merged : DayOf[n] >= other.since} |-> merged[m]]
    BY FloorWindow
  <1>2. \A m \in DOMAIN merged : DayOf[m] \in Nat
    BY <1>1, TranscriptsAssumption DEF IsStream
  <1> HIDE DEF merged, this, that
  <1>3. IsStream(this) /\ IsStream(that)
    BY <1>1 DEF IsStream
  <1>4. ASSUME NEW messages, IsStream(messages), NEW key \in DOMAIN ThreadTranscripts(messages)
        PROVE  /\ ThreadTranscripts(messages)[key] =
                    [m \in {n \in DOMAIN messages : InSpan(n, key)} |-> messages[m]]
               /\ \E m \in DOMAIN messages : DayOf[m] = key[1]
    <2> DEFINE docs == ThreadTranscripts(messages)
    <2>1. PICK pack \in Packs(messages) : key = DocKey(pack)
      <3>1. DOMAIN docs = {DocKey(pack) : pack \in Packs(messages)}
        BY <1>4, DocsArePacks
      <3> QED BY <3>1
    <2>2. docs[key] = [m \in OnDays(messages, pack) |-> messages[m]]
      BY <1>4, <2>1, DocsArePacks
    <2>3. DOMAIN docs[key] = {n \in DOMAIN messages : InSpan(n, key)}
      BY <1>4, KeysNameTheirContent DEF KeysNameContent
    <2>4. \E m \in DOMAIN messages : DayOf[m] = key[1]
      <3>1. key[1] \in Days(messages)
        BY <1>4, <2>1, PackOfKey
      <3> QED BY <3>1 DEF Days
    <2> QED BY <2>2, <2>3, <2>4
  <1>5. ASSUME NEW key \in DOMAIN ThreadTranscripts(this) \cap DOMAIN ThreadTranscripts(that)
        PROVE  ThreadTranscripts(this)[key] = ThreadTranscripts(that)[key]
    <2>1. /\ ThreadTranscripts(this)[key] = [m \in {n \in DOMAIN this : InSpan(n, key)} |-> this[m]]
          /\ ThreadTranscripts(that)[key] = [m \in {n \in DOMAIN that : InSpan(n, key)} |-> that[m]]
          /\ \E m \in DOMAIN this : DayOf[m] = key[1]
          /\ \E m \in DOMAIN that : DayOf[m] = key[1]
      BY <1>3, <1>4
    <2>2. key[1] \in Nat /\ bound.since <= key[1] /\ other.since <= key[1]
      BY <1>1, <1>2, <2>1
    <2>3. \A m \in DOMAIN merged : InSpan(m, key) => m \in DOMAIN this /\ m \in DOMAIN that
      BY <1>1, <1>2, <2>2 DEF InSpan
    <2>4. {n \in DOMAIN this : InSpan(n, key)} = {n \in DOMAIN that : InSpan(n, key)}
      BY <1>1, <2>3
    <2>5. \A m \in {n \in DOMAIN this : InSpan(n, key)} : this[m] = that[m]
      BY <1>1, <2>4
    <2> QED BY <2>1, <2>4, <2>5
  <1> QED BY <1>5 DEF WindowsAgree, this, that

\* For any batches and any window, floor and limit together: it is a set of
\* newest messages in range, at most message_limit of them however many
\* exports hold copies, and not empty when there are any (apply_bounds).
THEOREM LimitsKeepNewest ==
  ASSUME NEW batches, IsCorpus(batches), NEW bound, bound.limit \in Nat
  PROVE  KeepsNewest(batches, bound)
  <1> DEFINE InRange(m) == DayOf[m] >= bound.since
             Newer(m) == {e \in Messages \X DOMAIN batches :
                            e[1] > m /\ e[1] \in DOMAIN batches[e[2]] /\ InRange(e[1])}
             kept == {m \in Messages : InRange(m) /\
                        (bound.limit # 0 => Cardinality(Newer(m)) < bound.limit)}
             merged == DOMAIN MergeBatches(batches)
             inRange == {m \in merged : InRange(m)}
             window == DOMAIN Window(batches, bound)
  <1>1. ApplyBounds(batches, bound) = Narrowed(batches, kept)
    BY DEF ApplyBounds
  <1>2. merged \subseteq Messages /\ window = merged \cap kept
    <2> HIDE DEF kept
    <2>1. /\ merged \subseteq Messages
          /\ Window(batches, bound) = [m \in merged \cap kept |-> MergeBatches(batches)[m]]
      BY <1>1, MergeNarrowed DEF Window
    <2> HIDE DEF merged
    <2> QED BY <2>1
  <1>3. \A m \in merged : \E i \in DOMAIN batches : m \in DOMAIN batches[i]
    BY DEF MergeBatches
  <1>4. \A m \in Messages : IsFiniteSet(Newer(m)) /\ Cardinality(Newer(m)) \in Nat
    <2>1. IsFiniteSet(Messages \X DOMAIN batches)
      BY TranscriptsAssumption, FS_Product DEF IsCorpus
    <2>2. ASSUME NEW m \in Messages
          PROVE  Newer(m) \subseteq Messages \X DOMAIN batches
      OBVIOUS
    <2> HIDE DEF Newer
    <2> QED BY <2>1, <2>2, FS_Subset, FS_CardinalityType
  <1>5. Messages \subseteq Nat /\ IsFiniteSet(Messages)
    BY TranscriptsAssumption
  <1>6. window \subseteq inRange
    BY <1>2
  <1>7. IsFiniteSet(inRange) /\ IsFiniteSet(window) /\ inRange \subseteq Nat
        /\ Cardinality(window) \in Nat
    <2>1. inRange \subseteq Messages /\ window \subseteq Messages
      BY <1>2, <1>6
    <2> HIDE DEF inRange, window
    <2> QED BY <1>5, <2>1, FS_Subset, FS_CardinalityType
  <1>8. \A m \in window, n \in inRange : n >= m => n \in window
    <2>1. SUFFICES ASSUME NEW m \in window, NEW n \in inRange, n >= m, bound.limit # 0
                   PROVE  Cardinality(Newer(n)) < bound.limit
      <3> HIDE DEF Newer, window
      <3> QED BY <1>2
    <2>2. m \in Nat /\ n \in Nat /\ m \in Messages /\ n \in Messages
          /\ Cardinality(Newer(m)) < bound.limit
      <3> HIDE DEF Newer, window
      <3> QED BY <1>2, <1>5, <2>1
    <2>3. Newer(n) \subseteq Newer(m)
      <3>1. \A e \in Messages \X DOMAIN batches : e[1] \in Nat
        BY <1>5
      <3> QED BY <2>1, <2>2, <3>1
    <2> HIDE DEF Newer
    <2>4. Cardinality(Newer(n)) <= Cardinality(Newer(m))
      BY <1>4, <2>2, <2>3, FS_Subset
    <2> QED BY <1>4, <2>2, <2>4
  <1>9. inRange # {} => window # {}
    <2>1. SUFFICES ASSUME inRange # {}
                   PROVE  \E m \in inRange : m \in window
      <3> HIDE DEF inRange, window
      <3> QED BY <1>6
    <2>2. PICK max \in inRange : \A m \in inRange : m <= max
      <3> HIDE DEF inRange
      <3> QED BY <1>7, <2>1, Largest
    <2>3. Newer(max) = {}
      <3>1. ASSUME NEW e \in Newer(max)
            PROVE  FALSE
        <4>1. e[1] \in merged
          BY DEF MergeBatches
        <4>2. e[1] \in inRange /\ e[1] > max
          BY <4>1
        <4>3. e[1] \in Nat /\ max \in Nat
          BY <1>7, <4>2
        <4> QED BY <2>2, <4>2, <4>3
      <3> HIDE DEF Newer
      <3> QED BY <3>1
    <2>4. Cardinality(Newer(max)) = 0
      BY <2>3, FS_EmptySet
    <2> HIDE DEF Newer, window
    <2> QED BY <1>2, <2>4
  <1>10. bound.limit # 0 => Cardinality(window) <= bound.limit
    <2>1. SUFFICES ASSUME bound.limit # 0, ~(Cardinality(window) <= bound.limit)
                   PROVE  FALSE
      OBVIOUS
    <2>2. window # {} /\ window \subseteq Messages /\ window \subseteq Nat
      <3> HIDE DEF window, kept, merged
      <3>1. window \subseteq Messages
        BY <1>2
      <3>2. CASE window = {}
        <4>1. Cardinality(window) = 0
          BY <3>2, FS_EmptySet
        <4> QED BY <2>1, <4>1
      <3> QED BY <1>5, <3>1, <3>2
    <2>3. PICK min \in window : \A m \in window : <<m, min>> \notin OpToRel(<, Nat)
      <3> HIDE DEF window
      <3> QED BY <2>2, WFMin, NatLessThanWellFounded
    <2> DEFINE rest == window \ {min}
               entry == [m \in rest |-> <<m, CHOOSE i \in DOMAIN batches : m \in DOMAIN batches[i]>>]
    <2>4. ASSUME NEW m \in rest
          PROVE  entry[m] \in Newer(min)
      <3> DEFINE i == CHOOSE j \in DOMAIN batches : m \in DOMAIN batches[j]
      <3>1. i \in DOMAIN batches /\ m \in DOMAIN batches[i]
        <4>1. m \in merged
          BY <1>2
        <4> HIDE DEF merged
        <4> QED BY <1>3, <4>1
      <3>2. m \in Nat /\ min \in Nat /\ m # min
        BY <2>2
      <3>3. ~(m < min)
        BY <2>3, <3>2 DEF OpToRel
      <3>4. m > min /\ m \in Messages /\ InRange(m)
        BY <1>6, <2>2, <3>2, <3>3
      <3>5. entry[m] = <<m, i>>
        OBVIOUS
      <3> HIDE DEF entry, i
      <3> QED BY <3>1, <3>4, <3>5
    <2>5. entry \in Injection(rest, Newer(min))
      <3>1. \A m \in rest : entry[m][1] = m
        OBVIOUS
      <3>2. entry \in [rest -> Newer(min)]
        <4> HIDE DEF rest, Newer
        <4> QED BY <2>4
      <3> HIDE DEF entry, rest, Newer
      <3> QED BY <3>1, <3>2 DEF Injection, IsInjective
    <2>6. IsFiniteSet(rest) /\ Cardinality(rest) = Cardinality(window) - 1
      <3> HIDE DEF window
      <3> QED BY <1>7, FS_RemoveElement
    <2>7. Cardinality(Newer(min)) < bound.limit /\ min \in Messages
      <3> HIDE DEF Newer, window
      <3> QED BY <1>2, <2>1, <2>2
    <2> HIDE DEF Newer, rest, entry, window
    <2>8. Cardinality(rest) <= Cardinality(Newer(min))
      BY <1>4, <2>5, <2>7, FS_Injection
    <2> QED BY <1>4, <1>7, <2>1, <2>6, <2>7, <2>8
  <1> HIDE DEF window
  <1> QED BY <1>6, <1>8, <1>9, <1>10 DEF KeepsNewest, window

-----------------------------------------------------------------------------
(* Citations *)

\* Of the keys of two renders, a citation of keys of one of them brings in no
\* key of the other: a key within a cited one is of its first day alone, and
\* the keys of one render do not begin on one day.
LEMMA CitedKeysAreFound ==
  ASSUME NEW keys, NEW cited, cited \subseteq keys, NEW bare,
         \A key \in keys : key = <<key[1], key[2]>>,
         \A key, other \in cited : key[1] = other[1] => key = other
  PROVE  KeysInText([bare |-> bare, cites |-> cited], keys) = cited
  <1> DEFINE hits == {key \in keys : \E other \in cited : Within(key, other)}
             found == {key \in hits : \A other \in hits : other = key \/ ~Within(key, other)}
  <1>1. cited \subseteq hits
    BY DEF Within
  <1>2. ASSUME NEW key \in found
        PROVE  key \in cited
    <2>1. PICK other \in cited : Within(key, other)
      OBVIOUS
    <2> QED BY <1>1, <2>1
  <1>3. ASSUME NEW key \in cited, NEW other \in hits, Within(key, other)
        PROVE  other = key
    <2>1. PICK third \in cited : Within(other, third)
      OBVIOUS
    <2>2. CASE key # other
      <3>1. key[1] = key[2] /\ key[1] = other[1]
        BY <1>3, <2>2 DEF Within
      <3>2. other[1] = third[1]
        BY <2>1 DEF Within
      <3>3. third = key
        BY <3>1, <3>2
      <3>4. other[1] = other[2]
        BY <2>1, <2>2, <3>3 DEF Within
      <3>5. other = <<other[1], other[2]>> /\ key = <<key[1], key[2]>>
        OBVIOUS
      <3> QED BY <3>1, <3>4, <3>5
    <2> QED BY <2>2
  <1>4. found = cited
    BY <1>1, <1>2, <1>3
  <1> QED BY <1>4 DEF KeysInText

\* So a citation is resolved to the messages of the documents it names, in a
\* workdir that has documents of another render as well.
LEMMA PayloadsResolve ==
  ASSUME NEW index, NEW cited, cited # {}, cited \subseteq DOMAIN index,
         \A key \in DOMAIN index : key = <<key[1], key[2]>>,
         \A key, other \in cited : key[1] = other[1] => key = other
  PROVE  LET messages == UNION {index[key] : key \in cited}
         IN  /\ GuidsInPayload({[bare |-> FALSE, cites |-> cited]}, index) = messages
             /\ GuidsInPayload({[bare |-> TRUE, cites |-> {key}] : key \in cited}, index)
                  = messages
  <1>1. KeysInText([bare |-> FALSE, cites |-> cited], DOMAIN index) = cited
    BY CitedKeysAreFound
  <1>2. ASSUME NEW key \in cited
        PROVE  KeysInText([bare |-> TRUE, cites |-> {key}], DOMAIN index) = {key}
    BY CitedKeysAreFound
  <1> DEFINE joined == {[bare |-> FALSE, cites |-> cited]}
             alone == {[bare |-> TRUE, cites |-> {key}] : key \in cited}
             In(payload) == UNION {KeysInText(text, DOMAIN index) : text \in payload}
  <1>3. In(joined) = cited
    BY <1>1
  <1>4. In(alone) = cited
    <2>1. \A key \in cited : [bare |-> TRUE, cites |-> {key}] \in alone
      OBVIOUS
    <2>2. cited \subseteq In(alone)
      BY <1>2, <2>1
    <2>3. ASSUME NEW text \in alone
          PROVE  KeysInText(text, DOMAIN index) \subseteq cited
      <3>1. PICK key \in cited : text = [bare |-> TRUE, cites |-> {key}]
        OBVIOUS
      <3> QED BY <1>2, <3>1
    <2> HIDE DEF alone
    <2> QED BY <2>2, <2>3
  <1> QED BY <1>3, <1>4 DEF GuidsInPayload

-----------------------------------------------------------------------------
(* A conversation whose exports grow *)

ExportsInv == exports \in Seq(AnyExport)

\* Exports are batches, and their merge is a stream.
LEMMA ExportsAreCorpus ==
  ASSUME NEW listed \in Seq(AnyExport)
  PROVE  IsCorpus(listed) /\ IsStream(MergeBatches(listed))
  <1>1. DOMAIN listed = 1 .. Len(listed) /\ Len(listed) \in Nat
    OBVIOUS
  <1>2. IsFiniteSet(DOMAIN listed) /\ DOMAIN listed \subseteq Nat
    BY <1>1, FS_Interval
  <1>3. ASSUME NEW i \in DOMAIN listed
        PROVE  IsStream(listed[i])
    <2>1. listed[i] \in AnyExport
      OBVIOUS
    <2> QED BY <2>1 DEF AnyExport, IsStream
  <1>4. IsCorpus(listed)
    BY <1>2, <1>3 DEF IsCorpus
  <1> QED BY <1>4, MergeNarrowed DEF IsStream

\* An upload and another export leave exports.
LEMMA ExportsStay ==
  ASSUME ExportsInv, [GrowthNext]_exports
  PROVE  ExportsInv'
  <1>1. ASSUME NEW export \in AnyExport, Upload(export)
        PROVE  ExportsInv'
    BY <1>1 DEF Upload, ExportsInv
  <1>2. ASSUME NEW m \in Messages, ExportAgain(m)
        PROVE  ExportsInv'
    <2> DEFINE last == Len(exports)
               more == [n \in DOMAIN exports[last] \cup {m} |-> 0]
    <2>1. exports # <<>> /\ exports' = [exports EXCEPT ![last] = more]
      BY <1>2 DEF ExportAgain
    <2>2. last \in 1 .. Len(exports) /\ exports[last] \in AnyExport
      BY <2>1 DEF ExportsInv
    <2>3. more \in AnyExport
      <3>1. DOMAIN exports[last] \in SUBSET Messages
        BY <2>2 DEF AnyExport
      <3> DEFINE held == DOMAIN exports[last] \cup {m}
      <3>2. held \in SUBSET Messages
        BY <3>1
      <3> HIDE DEF held
      <3>3. [n \in held |-> 0] \in [held -> {0}]
        OBVIOUS
      <3>4. [n \in held |-> 0] \in AnyExport
        BY <3>2, <3>3 DEF AnyExport
      <3> QED BY <3>4 DEF held
    <2> HIDE DEF last, more
    <2> QED BY <2>1, <2>2, <2>3, ExceptSeq DEF ExportsInv
  <1>3. CASE UNCHANGED exports
    BY <1>3 DEF ExportsInv
  <1> QED BY <1>1, <1>2, <1>3 DEF GrowthNext

\* A key is a pair of days, and no two documents of a render begin on one day.
LEMMA KeysDiffer ==
  ASSUME NEW messages, IsStream(messages), NEW key \in DOMAIN ThreadTranscripts(messages)
  PROVE  /\ key = <<key[1], key[2]>>
         /\ \A other \in DOMAIN ThreadTranscripts(messages) : key[1] = other[1] => key = other
  <1> DEFINE docs == ThreadTranscripts(messages)
  <1>1. ASSUME NEW k \in DOMAIN docs
        PROVE  /\ k = <<k[1], k[2]>> /\ k[1] \in Nat /\ k[2] \in Nat /\ k[1] <= k[2]
    <2>0. DOMAIN docs = {DocKey(pack) : pack \in Packs(messages)}
      BY DocsArePacks
    <2> HIDE DEF docs
    <2>1. PICK pack \in Packs(messages) : k = DocKey(pack)
      BY <2>0
    <2>2. k \in pack \X pack /\ pack \subseteq Days(messages)
          /\ \A day \in pack : k[1] <= day /\ day <= k[2]
      BY <2>1, PackOfKey
    <2>3. pack \subseteq Nat
      BY <2>2, DaysFinite
    <2>4. k[1] \in pack /\ k[2] \in pack /\ k = <<k[1], k[2]>>
      BY <2>2
    <2> QED BY <2>2, <2>3, <2>4
  <1>2. \A k, l \in DOMAIN docs : k # l => k[2] < l[1] \/ l[2] < k[1]
    BY KeysNameTheirContent DEF KeysNameContent
  <1> HIDE DEF docs
  <1>3. ASSUME NEW other \in DOMAIN docs, key[1] = other[1]
        PROVE  key = other
    <2>1. key \in DOMAIN docs
      BY DEF docs
    <2> QED BY <1>1, <1>2, <1>3, <2>1
  <1>4. key = <<key[1], key[2]>>
    BY <1>1 DEF docs
  <1> QED BY <1>3, <1>4 DEF docs

\* Every citation of documents of one render, the current or an earlier one.
LEMMA CitationsAreResolved ==
  ASSUME ExportsInv
  PROVE  CitationsResolve
  <1> SUFFICES ASSUME NEW n \in 0 .. Len(exports)
               PROVE  LET older == ThreadTranscripts(MergeBatches(SubSeq(exports, 1, n)))
                          index == GuidIndex(older, Docs)
                      IN  \A cited \in (SUBSET DOMAIN older) \cup (SUBSET DOMAIN Docs) : cited # {} =>
                            LET messages == UNION {index[key] : key \in cited}
                            IN  /\ GuidsInPayload({[bare |-> FALSE, cites |-> cited]}, index)
                                     = messages
                                /\ GuidsInPayload({[bare |-> TRUE, cites |-> {key}] :
                                                     key \in cited}, index) = messages
    BY DEF CitationsResolve
  <1> DEFINE then == MergeBatches(SubSeq(exports, 1, n))
             older == ThreadTranscripts(then)
             index == GuidIndex(older, Docs)
  <1>1. SubSeq(exports, 1, n) \in Seq(AnyExport)
    BY SubSeqProperties DEF ExportsInv
  <1>2. IsStream(then) /\ IsStream(Conversation)
    BY <1>1, ExportsAreCorpus DEF ExportsInv, Conversation
  <1>3. DOMAIN index = DOMAIN older \cup DOMAIN Docs
    BY DEF GuidIndex
  <1> HIDE DEF then, index
  <1>4. ASSUME NEW cited \in (SUBSET DOMAIN older) \cup (SUBSET DOMAIN Docs)
        PROVE  \A key, other \in cited : key[1] = other[1] => key = other
    BY <1>2, KeysDiffer DEF Docs
  <1>5. \A key \in DOMAIN index : key = <<key[1], key[2]>>
    BY <1>2, <1>3, KeysDiffer DEF Docs
  <1>6. ASSUME NEW cited \in (SUBSET DOMAIN older) \cup (SUBSET DOMAIN Docs), cited # {}
        PROVE  LET messages == UNION {index[key] : key \in cited}
               IN  /\ GuidsInPayload({[bare |-> FALSE, cites |-> cited]}, index) = messages
                   /\ GuidsInPayload({[bare |-> TRUE, cites |-> {key}] : key \in cited}, index)
                        = messages
    BY <1>3, <1>4, <1>5, <1>6, PayloadsResolve
  <1> QED BY <1>6 DEF index, then

\* For every history of a conversation's exports, every day cap and every
\* window: documents are named by their days, packed tightly, cut by a floor
\* only between days and by a limit only at the old end, and a citation leads
\* back to the messages of the documents it names (thread_transcripts,
\* apply_bounds, guids_in_payload).
THEOREM TranscriptsAlwaysHold == GrowthSpec => []TranscriptsHold
  <1>1. NoExports => ExportsInv
    BY DEF NoExports, ExportsInv
  <1>2. ExportsInv /\ [GrowthNext]_exports => ExportsInv'
    BY ExportsStay
  <1>3. ExportsInv => TranscriptsHold
    <2> SUFFICES ASSUME ExportsInv
                 PROVE  TranscriptsHold
      OBVIOUS
    <2>1. IsCorpus(exports) /\ IsStream(Conversation)
      BY ExportsAreCorpus DEF ExportsInv, Conversation
    <2>2. KeyNamesContent /\ PackedTightly
      BY <2>1, KeysNameTheirContent, PacksAreTight DEF KeyNamesContent, PackedTightly
    <2>3. SinceKeepsContent
      BY <2>1, WindowsAssumption, FloorsCutBetweenDays DEF SinceKeepsContent
    <2>4. LimitKeepsNewest
      BY <2>1, WindowsAssumption, LimitsKeepNewest DEF LimitKeepsNewest
    <2> QED BY <2>2, <2>3, <2>4, CitationsAreResolved DEF TranscriptsHold
  <1> QED BY <1>1, <1>2, <1>3, PTL DEF GrowthSpec

\* Every export that only gained messages at its newest end leaves all
\* documents but the last as they were (thread_transcripts).
THEOREM TailGrowthCostsTheTail == GrowthSpec => TailGrowthKeepsDocs
  <1>1. NoExports => ExportsInv
    BY DEF NoExports, ExportsInv
  <1>2. ExportsInv /\ [GrowthNext]_exports => ExportsInv'
    BY ExportsStay
  <1>3. ASSUME ExportsInv, ExportsInv', GrownAtTail(Conversation, Conversation')
        PROVE  KeepsDocs(Conversation, Conversation')
    <2>1. IsStream(Conversation)
      BY <1>3, ExportsAreCorpus DEF ExportsInv, Conversation
    <2>2. IsStream(Conversation')
      BY <1>3, ExportsAreCorpus DEF ExportsInv, Conversation
    <2> QED BY <1>3, <2>1, <2>2, GrowthKeepsDocuments
  <1> QED BY <1>1, <1>2, <1>3, PTL DEF GrowthSpec, TailGrowthKeepsDocs

-----------------------------------------------------------------------------
\* The failures under which the manifest can be trusted.
Survivable == Faults \subseteq {"parse", "delete", "process", "save"}

\* What the current write is to take out of the graph.
Drop ==
  IF task.kind = "build" /\ Prune THEN Removed(task.rendered) ELSE task.respanned

\* Documents to be deleted that are still there, and documents put back.
Left == task.stale \cup task.undeleted
Gone == (Changed(task.rendered) \cup Drop) \ Left
Done == (New(task.rendered) \cup Changed(task.rendered)) \ (Left \cup task.queue)

\* What the engine holds in the middle of a write.
Expected ==
  [k \in (DOMAIN manifest \ Gone) \cup Done |->
     IF k \in Done THEN task.rendered[k] ELSE manifest[k]]

TaskInv ==
  /\ DOMAIN task = DOMAIN NoTask
  /\ task.kind \in {"none", "build", "resume", "delete"}
  /\ pc \in {"idle", "reset", "diff", "write", "process"}
  /\ pc \in {"reset", "diff"} => task.kind = "build" /\ task.undeleted = {}
  /\ pc \in {"reset", "diff"} => ~task.failed /\ task.respanned = {}
  /\ pc = "write" => task.kind \in {"build", "delete"}
  /\ pc = "process" => task.kind \in {"build", "resume"}
  /\ pc = "process" => task.stale = {} /\ task.queue = {}
  /\ task.kind = "delete" => task.rendered = Nothing
  /\ manifest = [k \in DOMAIN manifest |-> manifest[k]]
  /\ \A k \in DOMAIN store :
       /\ store[k] = [content |-> store[k].content, extracted |-> store[k].extracted]
       /\ store[k].extracted \in BOOLEAN

WipeInv ==
  pc = "reset" =>
    /\ "store" \in task.wiping \/ store = Nothing
    /\ "sidecar" \in task.wiping \/ sidecar = Nothing

WriteInv ==
  pc \in {"write", "process"} =>
    /\ Contents(store) = Expected
    /\ Left \subseteq Changed(task.rendered) \cup Drop
    /\ task.queue \subseteq New(task.rendered) \cup Changed(task.rendered)
    /\ task.respanned \subseteq Removed(task.rendered)
    /\ task.kind = "build" /\ Prune => task.respanned = {}
    /\ task.stale \cap task.undeleted = {}
    /\ task.stale # {} =>
         task.queue = New(task.rendered) \cup Changed(task.rendered)
    /\ ~task.failed => task.undeleted = {}

IdleInv ==
  pc \in {"idle", "diff"} \/ task.kind = "resume" => manifest = Contents(store)

MirrorInv == TaskInv /\ WipeInv /\ WriteInv /\ IdleInv

-----------------------------------------------------------------------------

\* At first the manifest and the graph are empty.
LEMMA InitMirror == Init => MirrorInv
  BY DEF Init, MirrorInv, TaskInv, WipeInv, WriteInv, IdleInv, NoTask, Nothing, Contents

\* Steps before the writer has the diff, and steps of the environment.
LEMMA SameTask ==
  ASSUME MirrorInv, UNCHANGED <<manifest, sidecar, store, pc, task>>
  PROVE  MirrorInv'
  BY DEF MirrorInv, TaskInv, WipeInv, WriteInv, IdleInv, Contents, Expected, Gone, Done,
         Left, Drop, Prune, Changed, New, Removed

\* A scan sets up a build over what the manifest mirrors.
LEMMA ScanMirror ==
  ASSUME MirrorInv, NEW bound, NEW reingest, NEW unparsed,
         Scan(bound, reingest, unparsed)
  PROVE  MirrorInv'
  <1>1. TaskInv'
    BY DEF MirrorInv, TaskInv, Scan, NoTask
  <1>2. WipeInv'
    BY DEF MirrorInv, TaskInv, WipeInv, Scan, NoTask
  <1>3. WriteInv' /\ IdleInv'
    BY DEF MirrorInv, TaskInv, IdleInv, WriteInv, Scan, Contents
  <1> QED BY <1>1, <1>2, <1>3 DEF MirrorInv

\* A reset that removes an entry, or fails to.
LEMMA RemoveMirror ==
  ASSUME MirrorInv, Survivable, NEW entry, RemoveEntry(entry)
  PROVE  MirrorInv'
  <1>1. TaskInv'
    BY DEF MirrorInv, TaskInv, RemoveEntry, NoTask, Nothing, Fault, Survivable
  <1>2. WipeInv'
    BY DEF MirrorInv, TaskInv, WipeInv, RemoveEntry, NoTask, Fault, Survivable
  <1>3. WriteInv' /\ IdleInv'
    BY DEF MirrorInv, TaskInv, WriteInv, IdleInv, RemoveEntry, NoTask
  <1> QED BY <1>1, <1>2, <1>3 DEF MirrorInv

\* A session reopened after the reset reads a manifest of an empty graph.
LEMMA ReopenMirror ==
  ASSUME MirrorInv, Reopen
  PROVE  MirrorInv'
  <1>1. TaskInv'
    BY DEF MirrorInv, TaskInv, WipeInv, Reopen, Nothing
  <1>2. WipeInv' /\ WriteInv'
    BY DEF WipeInv, WriteInv, Reopen
  <1>3. IdleInv'
    BY DEF MirrorInv, WipeInv, IdleInv, Reopen, Contents, Nothing
  <1> QED BY <1>1, <1>2, <1>3 DEF MirrorInv

\* The diff against the manifest says what the graph lacks and has too much.
LEMMA DiffMirror ==
  ASSUME MirrorInv, Diff
  PROVE  MirrorInv'
  <1>1. TaskInv'
    BY DEF MirrorInv, TaskInv, Diff, NoTask
  <1>2. WipeInv' /\ IdleInv'
    BY DEF MirrorInv, TaskInv, WipeInv, IdleInv, Diff, NoTask
  <1>3. WriteInv'
    <2> DEFINE docs == task.rendered
    <2>1. /\ task'.kind = "build" /\ task'.rendered = docs /\ task'.bound = task.bound
          /\ task'.undeleted = {} /\ ~task'.failed
          /\ task'.queue = New(docs) \cup Changed(docs)
          /\ task'.respanned = IF Prune THEN {} ELSE Respanned(docs)
          /\ task'.stale = Changed(docs) \cup (IF Prune THEN Removed(docs) ELSE task'.respanned)
      BY DEF MirrorInv, TaskInv, Diff, NoTask
    <2>2. UNCHANGED <<manifest, store>>
      BY DEF Diff
    <2>3. New(docs)' = New(docs) /\ Changed(docs)' = Changed(docs) /\ Removed(docs)' = Removed(docs)
      BY <2>1, <2>2 DEF New, Changed, Removed
    <2>4. Prune' = Prune /\ Respanned(docs) \subseteq Removed(docs)
      BY <2>1 DEF Prune, Respanned
    <2>5. Gone' = {} /\ Done' = {} /\ Left' \subseteq (Changed(docs) \cup Drop)'
      BY <2>1, <2>2, <2>3, <2>4 DEF Gone, Done, Left, Drop
    <2>6. manifest = [k \in DOMAIN manifest |-> manifest[k]] /\ manifest = Contents(store)
      BY DEF MirrorInv, TaskInv, IdleInv, Diff
    <2>7. Contents(store)' = Expected'
      BY <2>2, <2>5, <2>6 DEF Expected, Contents
    <2> QED BY <2>1, <2>3, <2>4, <2>5, <2>7 DEF WriteInv
  <1> QED BY <1>1, <1>2, <1>3 DEF MirrorInv

\* A delete the engine accepts moves a document from Left to Gone; one it
\* refuses leaves it among the undeleted.
LEMMA DeleteMirror ==
  ASSUME MirrorInv, NEW key \in task.stale, Delete(key)
  PROVE  MirrorInv'
  <1> DEFINE docs == task.rendered
  <1>1. /\ task'.kind = task.kind /\ task'.rendered = docs /\ task'.bound = task.bound
        /\ task'.queue = task.queue /\ task'.respanned = task.respanned
        /\ task'.stale = task.stale \ {key}
        /\ DOMAIN task' = DOMAIN task
    BY DEF MirrorInv, TaskInv, Delete, NoTask
  <1>2. \/ store' = Without(store, {key}) /\ task'.undeleted = task.undeleted
           /\ task'.failed = task.failed
        \/ store' = store /\ task'.undeleted = task.undeleted \cup {key} /\ task'.failed
    BY DEF MirrorInv, TaskInv, Delete, NoTask
  <1>3. UNCHANGED <<manifest, sidecar, pc>> /\ pc = "write"
    BY DEF Delete
  <1>4. New(docs)' = New(docs) /\ Changed(docs)' = Changed(docs) /\ Removed(docs)' = Removed(docs)
        /\ Drop' = Drop
    BY <1>1, <1>3 DEF New, Changed, Removed, Drop, Prune
  <1>5. TaskInv' /\ WipeInv' /\ IdleInv'
    BY <1>1, <1>2, <1>3 DEF MirrorInv, TaskInv, WipeInv, IdleInv, Without
  <1>6. CASE store' = store /\ task'.undeleted = task.undeleted \cup {key} /\ task'.failed
    <2>1. Left' = Left /\ Gone' = Gone /\ Done' = Done
      BY <1>1, <1>4, <1>6 DEF Left, Gone, Done
    <2>2. Contents(store)' = Expected'
      BY <1>1, <1>3, <1>6, <2>1 DEF MirrorInv, WriteInv, Expected, Contents
    <2> QED BY <1>1, <1>3, <1>4, <1>5, <1>6, <2>1, <2>2 DEF MirrorInv, WriteInv, Prune
  <1>7. CASE store' = Without(store, {key}) /\ task'.undeleted = task.undeleted
             /\ task'.failed = task.failed
    <2>1. Left' = Left \ {key}
      BY <1>1, <1>7 DEF Left, MirrorInv, WriteInv, Delete
    <2>2. key \in Changed(docs) \cup Drop
      BY DEF Left, MirrorInv, WriteInv, Delete
    <2>3. key \in Changed(docs) => key \in task.queue
      BY DEF MirrorInv, WriteInv, Delete
    <2>4. key \notin New(docs)
      BY <2>2 DEF New, Changed, Drop, Removed, MirrorInv, WriteInv, Delete
    <2>5. Gone' = Gone \cup {key} /\ Done' = Done /\ key \notin Done
      BY <1>1, <1>4, <2>1, <2>2, <2>3, <2>4 DEF Gone, Done
    <2>6. Expected' = Without(Expected, {key})
      BY <1>1, <1>3, <2>5 DEF Expected, Without
    <2>7. Contents(store)' = Without(Contents(store), {key})
      BY <1>7 DEF Contents, Without
    <2>8. Contents(store)' = Expected'
      BY <2>6, <2>7, <1>3 DEF MirrorInv, WriteInv
    <2> QED BY <1>1, <1>3, <1>4, <1>5, <1>7, <2>1, <2>8 DEF MirrorInv, WriteInv, Prune
  <1> QED BY <1>2, <1>6, <1>7

\* The engine takes every document of the chunk that is not Left in the graph:
\* it has none of the others.
LEMMA EnqueueMirror ==
  ASSUME MirrorInv, Survivable, NEW chunk \in SUBSET task.queue, Enqueue(chunk)
  PROVE  MirrorInv'
  <1> DEFINE docs == task.rendered
  <1>1. /\ task'.kind = task.kind /\ task'.rendered = docs /\ task'.bound = task.bound
        /\ task'.respanned = task.respanned /\ task'.stale = task.stale
        /\ task'.undeleted = task.undeleted /\ task'.failed = task.failed
        /\ task'.queue = task.queue \ chunk
        /\ DOMAIN task' = DOMAIN task
    BY DEF MirrorInv, TaskInv, Enqueue, NoTask, Fault, Survivable
  <1>2. UNCHANGED <<manifest, sidecar, pc>> /\ pc = "write" /\ task.stale = {}
    BY DEF Enqueue
  <1>3. store' = Offer(chunk)
    BY DEF Enqueue, Fault, Survivable
  <1>4. New(docs)' = New(docs) /\ Changed(docs)' = Changed(docs) /\ Removed(docs)' = Removed(docs)
        /\ Drop' = Drop /\ Left' = Left /\ Gone' = Gone
    BY <1>1, <1>2 DEF New, Changed, Removed, Drop, Prune, Left, Gone
  <1>5. TaskInv' /\ WipeInv' /\ IdleInv'
    BY <1>1, <1>2, <1>3 DEF MirrorInv, TaskInv, WipeInv, IdleInv, Offer
  <1>6. Done' = Done \cup (chunk \ Left)
    BY <1>1, <1>4 DEF Done, MirrorInv, WriteInv, Enqueue
  <1>7. DOMAIN store = (DOMAIN manifest \ Gone) \cup Done
    BY <1>2 DEF MirrorInv, WriteInv, Contents, Expected
  <1>8. \A k \in chunk : k \in DOMAIN store <=> k \in Left
    BY <1>2, <1>7 DEF MirrorInv, WriteInv, Left, Gone, Done, New, Changed, Drop, Removed
  <1>9. Contents(store)' = Expected'
    <2>1. DOMAIN store' = DOMAIN store \cup (chunk \ Left)
      BY <1>3, <1>8 DEF Offer
    <2>2. DOMAIN Expected' = DOMAIN store'
      BY <1>2, <1>4, <1>6, <1>7, <2>1 DEF Expected
    <2>3. ASSUME NEW k \in DOMAIN store'
          PROVE  store'[k].content = Expected'[k]
      <3>1. CASE k \in DOMAIN store
        <4>1. store'[k].content = store[k].content
          BY <3>1, <1>3 DEF Offer
        <4>2. store[k].content = Expected[k]
          <5>1. Contents(store)[k] = store[k].content
            BY <3>1 DEF Contents
          <5> QED BY <5>1, <1>2 DEF MirrorInv, WriteInv
        <4>3. k \in Done' <=> k \in Done
          BY <3>1, <1>6, <1>8
        <4>4. Expected'[k] = Expected[k]
          BY <3>1, <4>3, <1>1, <1>2, <1>4, <1>6, <1>7 DEF Expected
        <4> QED BY <4>1, <4>2, <4>4
      <3>2. CASE k \notin DOMAIN store
        <4>1. k \in chunk /\ k \in Done'
          BY <3>2, <2>1, <1>6
        <4> QED BY <3>2, <4>1, <1>1, <1>3 DEF Offer, Expected
      <3> QED BY <3>1, <3>2
    <2> QED BY <2>2, <2>3 DEF Contents, Expected
  <1> QED BY <1>1, <1>2, <1>4, <1>5, <1>9 DEF MirrorInv, WriteInv, Prune

\* The extraction pass changes no document.
LEMMA PassMirror ==
  ASSUME MirrorInv, Process \/ Resume \/ \E k \in DOMAIN store : Extract(k)
  PROVE  MirrorInv'
  <1>1. CASE Process
    <2>1. UNCHANGED <<manifest, sidecar, store, task>> /\ pc = "write" /\ pc' = "process"
      BY <1>1 DEF Process
    <2> QED BY <1>1, <2>1 DEF Process, MirrorInv, TaskInv, WipeInv, WriteInv, IdleInv, Contents,
              Expected, Gone, Done, Left, Drop, Prune, Changed, New, Removed
  <1>2. CASE Resume
    <2>1. /\ task'.kind = "resume" /\ task'.rendered = Nothing /\ task'.stale = {}
          /\ task'.queue = {} /\ task'.undeleted = {} /\ task'.respanned = {}
          /\ ~task'.failed /\ DOMAIN task' = DOMAIN NoTask
      BY <1>2 DEF Resume, NoTask
    <2>2. UNCHANGED <<manifest, sidecar, store>> /\ pc = "idle" /\ pc' = "process"
      BY <1>2 DEF Resume
    <2>3. Gone' = {} /\ Done' = {}
      BY <2>1 DEF Gone, Done, Left, New, Changed, Drop, Nothing
    <2>4. Contents(store)' = Expected'
      BY <2>2, <2>3 DEF MirrorInv, TaskInv, IdleInv, Expected, Contents
    <2> QED BY <2>1, <2>2, <2>4 DEF MirrorInv, TaskInv, WipeInv, WriteInv, IdleInv, Left, Prune
  <1>3. ASSUME NEW k \in DOMAIN store, Extract(k)
        PROVE  MirrorInv'
    <2>1. UNCHANGED <<manifest, sidecar, pc, task>>
      BY <1>3 DEF Extract
    <2>2. Contents(store)' = Contents(store)
      BY <1>3 DEF MirrorInv, TaskInv, Extract, Contents
    <2>3. store'[k] = [content |-> store[k].content, extracted |-> TRUE]
          /\ DOMAIN store' = DOMAIN store
          /\ \A l \in DOMAIN store \ {k} : store'[l] = store[l]
      <3>1. store[k] = [content |-> store[k].content, extracted |-> store[k].extracted]
        BY DEF MirrorInv, TaskInv
      <3>2. store' = [store EXCEPT ![k] = [store[k] EXCEPT !.extracted = TRUE]]
        BY <1>3 DEF Extract
      <3> QED BY <3>1, <3>2
    <2>5. \A l \in DOMAIN store' :
            /\ store'[l] = [content |-> store'[l].content, extracted |-> store'[l].extracted]
            /\ store'[l].extracted \in BOOLEAN
      <3>1. ASSUME NEW l \in DOMAIN store \ {k}
            PROVE  /\ store'[l] = [content |-> store'[l].content,
                                   extracted |-> store'[l].extracted]
                   /\ store'[l].extracted \in BOOLEAN
        BY <2>3 DEF MirrorInv, TaskInv
      <3>2. /\ store'[k] = [content |-> store'[k].content, extracted |-> store'[k].extracted]
            /\ store'[k].extracted \in BOOLEAN
        BY <2>3
      <3> QED BY <2>3, <3>1, <3>2
    <2>6. TaskInv' /\ WipeInv' /\ IdleInv'
      BY <1>3, <2>1, <2>2, <2>5 DEF MirrorInv, TaskInv, WipeInv, IdleInv, Extract
    <2>4. WriteInv'
      BY <2>1, <2>2 DEF MirrorInv, WriteInv, Expected, Gone, Done, Left, Drop, Prune, Changed,
                        New, Removed
    <2> QED BY <2>4, <2>6 DEF MirrorInv
  <1> QED BY <1>1, <1>2, <1>3

\* delete_documents sets up a write that only deletes.
LEMMA DeleteDocumentsMirror ==
  ASSUME MirrorInv, NEW keys \in SUBSET (DOMAIN store \cup DOMAIN manifest),
         DeleteDocuments(keys)
  PROVE  MirrorInv'
  <1>1. /\ task'.kind = "delete" /\ task'.rendered = Nothing /\ task'.stale = keys
        /\ task'.queue = {} /\ task'.undeleted = {} /\ task'.respanned = keys
        /\ ~task'.failed /\ DOMAIN task' = DOMAIN NoTask
    BY DEF DeleteDocuments, NoTask
  <1>2. UNCHANGED <<manifest, sidecar, store>> /\ pc = "idle" /\ pc' = "write"
    BY DEF DeleteDocuments
  <1>3. keys \subseteq DOMAIN manifest
    BY <1>2 DEF MirrorInv, IdleInv, Contents
  <1>4. Gone' = {} /\ Done' = {}
    BY <1>1 DEF Gone, Done, Left, New, Changed, Drop, Nothing
  <1>5. Contents(store)' = Expected'
    BY <1>2, <1>4 DEF MirrorInv, TaskInv, IdleInv, Expected, Contents
  <1>6. WriteInv'
    BY <1>1, <1>2, <1>3, <1>5 DEF WriteInv, Left, Drop, New, Changed, Removed, Nothing
  <1> QED BY <1>1, <1>2, <1>6 DEF MirrorInv, TaskInv, WipeInv, IdleInv

\* What build() remembers is what the deletes and the enqueues have made.
LEMMA MergedIsExpected ==
  ASSUME MirrorInv, pc = "process", task.kind = "build"
  PROVE  Merged = Contents(store)
  <1> DEFINE docs == task.rendered
  <1>1. task.stale = {} /\ task.queue = {} /\ Left = task.undeleted
    BY DEF MirrorInv, TaskInv, Left
  <1>2. Contents(store) = Expected /\ task.undeleted \subseteq Changed(docs) \cup Drop
    BY <1>1 DEF MirrorInv, WriteInv
  <1>3. DOMAIN Merged = DOMAIN Expected
    BY <1>1, <1>2 DEF Merged, Expected, Gone, Done, Drop, New, Changed, Removed, MirrorInv, WriteInv
  <1>4. ASSUME NEW k \in DOMAIN Merged
        PROVE  Merged[k] = Expected[k]
    BY <1>1, <1>2, <1>3, <1>4 DEF Merged, Expected, Gone, Done, Drop, New, Changed, Removed
  <1> QED BY <1>2, <1>3, <1>4 DEF Merged, Expected

\* The end of a write records what it has made of the graph.
LEMMA FinishMirror ==
  ASSUME MirrorInv, Survivable,
         (\E failed \in BOOLEAN : FinishBuild(failed) \/ FinishResume(failed)) \/ FinishDelete
  PROVE  MirrorInv'
  <1>1. ASSUME NEW failed \in BOOLEAN, FinishBuild(failed)
        PROVE  MirrorInv'
    <2>1. manifest' = Contents(store) /\ store' = store /\ pc' = "idle"
      BY <1>1, MergedIsExpected DEF FinishBuild, Remember, Processed
    <2>2. DOMAIN task' = DOMAIN task /\ task'.kind = "build"
      BY <1>1 DEF FinishBuild, MirrorInv, TaskInv, NoTask
    <2> QED BY <2>1, <2>2 DEF MirrorInv, TaskInv, WipeInv, WriteInv, IdleInv, Contents
  <1>2. ASSUME NEW failed \in BOOLEAN, FinishResume(failed)
        PROVE  MirrorInv'
    <2>1. UNCHANGED <<manifest, sidecar, store, task>> /\ pc = "process" /\ pc' = "idle"
          /\ task.kind = "resume"
      BY <1>2 DEF FinishResume, Processed
    <2>2. task.stale = {} /\ task.queue = {}
      BY <2>1 DEF MirrorInv, TaskInv
    <2> QED BY <2>1, <2>2 DEF MirrorInv, TaskInv, WipeInv, WriteInv, IdleInv
  <1>3. ASSUME FinishDelete
        PROVE  MirrorInv'
    <2>1. task.rendered = Nothing /\ task.stale = {} /\ task.kind = "delete" /\ pc = "write"
      BY <1>3 DEF FinishDelete, MirrorInv, TaskInv
    <2>2. Left = task.undeleted /\ New(task.rendered) = {} /\ Changed(task.rendered) = {}
          /\ Drop = task.respanned /\ Done = {}
      BY <2>1 DEF Left, New, Changed, Nothing, Drop, Done
    <2>3. Contents(store) = Without(manifest, task.respanned \ task.undeleted)
      BY <2>1, <2>2 DEF MirrorInv, WriteInv, Expected, Gone, Without
    <2>4. manifest' = Contents(store) /\ UNCHANGED <<store, task>> /\ pc' = "idle"
      BY <1>3, <2>3 DEF FinishDelete, Remember
    <2> QED BY <2>1, <2>4 DEF MirrorInv, TaskInv, WipeInv, WriteInv, IdleInv, Contents
  <1> QED BY <1>1, <1>2, <1>3

\* Every step keeps the manifest's account of the graph.
LEMMA NextMirror ==
  ASSUME MirrorInv, Survivable, [Next]_vars
  PROVE  MirrorInv'
  <1>1. CASE UNCHANGED vars
    BY <1>1, SameTask DEF vars
  <1>2. ASSUME NEW f \in 1..Files, NEW export \in Exports, Edit(f, export)
        PROVE  MirrorInv'
    BY <1>2, SameTask DEF Edit
  <1>3. CASE Kill
    BY <1>3 DEF Kill, Fault, Survivable
  <1> QED BY <1>1, <1>2, <1>3, ScanMirror, RemoveMirror, ReopenMirror, DiffMirror, DeleteMirror,
             EnqueueMirror, PassMirror, DeleteDocumentsMirror, FinishMirror DEF Next

\* Between writes the manifest records exactly what the engine holds, so that
\* no later build takes a stale document for an unchanged one
\* (WorkdirManifest.merged with retain, _delete, _remember).
THEOREM ManifestIsTheGraph ==
  ASSUME Survivable
  PROVE  Spec => []ManifestMirrorsGraph
  <1>1. MirrorInv => ManifestMirrorsGraph
    BY DEF MirrorInv, IdleInv, ManifestMirrorsGraph
  <1>2. MirrorInv /\ [Next]_vars => MirrorInv'
    BY NextMirror
  <1> QED BY <1>1, <1>2, InitMirror, PTL DEF Spec

\* A build that ends cleanly met no refused delete: nothing is retained.
LEMMA FinishCurrent ==
  ASSUME MirrorInv, NEW failed \in BOOLEAN, FinishBuild(failed)
  PROVE  CleanBuildIsCurrent'
  <1> DEFINE docs == task.rendered
  <1>1. SUFFICES ASSUME ~task'.failed
                 PROVE  /\ \A k \in DOMAIN docs :
                             /\ k \in DOMAIN store
                             /\ store[k] = [content |-> docs[k], extracted |-> TRUE]
                        /\ Prune => DOMAIN store = DOMAIN docs
    <2>1. store' = store /\ task'.rendered = docs /\ task'.bound = task.bound
      BY DEF FinishBuild, MirrorInv, TaskInv, NoTask
    <2>2. Prune' = Prune
      BY <2>1 DEF Prune
    <2>3. CASE task'.failed
      BY <2>3 DEF CleanBuildIsCurrent
    <2>4. CASE ~task'.failed
      BY <1>1, <2>1, <2>2, <2>4 DEF CleanBuildIsCurrent
    <2> QED BY <2>3, <2>4
  <1>2. ~failed /\ ~task.failed
    BY <1>1 DEF FinishBuild, MirrorInv, TaskInv, NoTask
  <1>3. task.kind = "build" /\ pc = "process" /\ \A k \in DOMAIN store : store[k].extracted
    BY <1>2 DEF FinishBuild, Processed
  <1>4. task.undeleted = {}
    BY <1>2, <1>3 DEF MirrorInv, WriteInv
  <1>5. Contents(store) = Merged
    BY <1>3, MergedIsExpected
  <1>6. \A k \in DOMAIN docs : k \in DOMAIN Merged /\ Merged[k] = docs[k]
    BY <1>4 DEF Merged
  <1>7. Prune => DOMAIN Merged = DOMAIN docs
    BY <1>4 DEF Merged
  <1>8. DOMAIN store = DOMAIN Merged /\ \A k \in DOMAIN store : store[k].content = Merged[k]
    BY <1>5 DEF Contents
  <1>9. ASSUME NEW k \in DOMAIN docs
        PROVE  k \in DOMAIN store /\ store[k] = [content |-> docs[k], extracted |-> TRUE]
    <2>1. k \in DOMAIN store /\ store[k].content = docs[k]
      BY <1>6, <1>8
    <2>2. store[k].extracted = TRUE
      BY <1>3, <2>1 DEF MirrorInv, TaskInv
    <2>3. store[k] = [content |-> store[k].content, extracted |-> store[k].extracted]
      BY <2>1 DEF MirrorInv, TaskInv
    <2> QED BY <2>1, <2>2, <2>3
  <1> QED BY <1>7, <1>8, <1>9

\* Every step keeps what a clean build has left.
LEMMA NextCurrent ==
  ASSUME MirrorInv, CleanBuildIsCurrent, Survivable, [Next]_vars
  PROVE  CleanBuildIsCurrent'
  <1>1. ASSUME UNCHANGED <<store, pc, task>>
        PROVE  CleanBuildIsCurrent'
    BY <1>1 DEF CleanBuildIsCurrent, Built, Prune
  <1>2. ASSUME pc' # "idle" \/ task'.kind # "build"
        PROVE  CleanBuildIsCurrent'
    BY <1>2 DEF CleanBuildIsCurrent, Built
  <1>3. CASE UNCHANGED vars
    BY <1>1, <1>3 DEF vars
  <1>4. ASSUME NEW f \in 1..Files, NEW export \in Exports, Edit(f, export)
        PROVE  CleanBuildIsCurrent'
    BY <1>1, <1>4 DEF Edit
  <1>5. ASSUME NEW bound, NEW reingest, NEW unparsed, Scan(bound, reingest, unparsed)
        PROVE  CleanBuildIsCurrent'
    BY <1>2, <1>5 DEF Scan
  <1>6. ASSUME NEW entry, RemoveEntry(entry)
        PROVE  CleanBuildIsCurrent'
    BY <1>2, <1>6 DEF RemoveEntry
  <1>7. CASE Reopen \/ Diff \/ Process \/ Resume
    BY <1>2, <1>7 DEF Reopen, Diff, Process, Resume
  <1>8. ASSUME NEW key, Delete(key) \/ Enqueue(key) \/ Extract(key) \/ DeleteDocuments(key)
        PROVE  CleanBuildIsCurrent'
    BY <1>2, <1>8 DEF Delete, Enqueue, Extract, DeleteDocuments
  <1>9. ASSUME NEW failed \in BOOLEAN, FinishResume(failed)
        PROVE  CleanBuildIsCurrent'
    BY <1>2, <1>9 DEF FinishResume
  <1>10. CASE FinishDelete
    BY <1>2, <1>10 DEF FinishDelete
  <1>11. CASE Kill
    BY <1>11 DEF Kill, Fault, Survivable
  <1> QED BY <1>3, <1>4, <1>5, <1>6, <1>7, <1>8, <1>9, <1>10, <1>11, FinishCurrent DEF Next

\* A build that reports no failure leaves its whole render in the graph, as
\* rendered and extracted, and after a full one nothing else - whatever the
\* builds before it failed to delete, parse or extract (build()).
THEOREM CleanBuildSucceeds ==
  ASSUME Survivable
  PROVE  Spec => []CleanBuildIsCurrent
  <1>1. Init => CleanBuildIsCurrent
    BY DEF Init, CleanBuildIsCurrent, Built, NoTask
  <1>2. MirrorInv /\ [Next]_vars => MirrorInv'
    BY NextMirror
  <1>3. MirrorInv /\ CleanBuildIsCurrent /\ [Next]_vars => CleanBuildIsCurrent'
    BY NextCurrent
  <1> QED BY <1>1, <1>2, <1>3, InitMirror, PTL DEF Spec

-----------------------------------------------------------------------------
(***************************************************************************)
(* The same promise where the process may be killed at any step but in the *)
(* middle of a wipe, and a save of the manifest may fail: the next clean   *)
(* build is current again, provided the source is left as it was until     *)
(* that build, every build renders all of it, and the engine takes what it *)
(* is offered.                                                             *)
(***************************************************************************)

Whole == [since |-> 0, limit |-> 0]

Recoverable ==
  /\ Faults \subseteq {"kill", "delete", "process", "save"}
  /\ Bounds \subseteq {Whole}
  /\ ~Retracts /\ ~DirtyEdits

\* What a build would render of the files as they are.
Corpus == Render(ApplyBounds(Parsed(files, {}), Whole))

Agree(f, g, k) ==
  /\ k \in DOMAIN f <=> k \in DOMAIN g
  /\ k \in DOMAIN f => f[k] = g[k]

Wiping == pc = "reset" /\ task.wiping # {"store", "sidecar"}
Building == pc # "idle" /\ task.kind = "build"
Writing == pc \in {"write", "process"} /\ task.kind = "build"

BuildInv ==
  /\ TaskInv
  /\ sidecar = [k \in DOMAIN sidecar |-> sidecar[k]]
  /\ task.kind # "delete"
  /\ Building => task.rendered = Corpus /\ task.bound = Whole /\ task.respanned = {}

\* The saved manifest is behind the one in memory in current records only.
SidecarLags ==
  ~Wiping => \A k : Agree(manifest, sidecar, k) \/ Agree(manifest, Corpus, k)

\* Every document held is recorded, or is current although no record says so;
\* and a record that is current is of a document held.
HeldOrCurrent(k) ==
  \/ k \in DOMAIN manifest /\ store[k].content = manifest[k]
  \/ k \in DOMAIN Corpus /\ store[k].content = Corpus[k]

GraphAccounted ==
  ~Wiping =>
    /\ \A k \in DOMAIN store : HeldOrCurrent(k)
    /\ \A k \in DOMAIN manifest \cap DOMAIN Corpus :
         manifest[k] = Corpus[k] => k \in DOMAIN store

\* Without a crash behind it, a session's manifest is saved and exact.
Finished ==
  ~Wiping /\ ~unfinished =>
    /\ manifest = sidecar
    /\ ~Writing => manifest = Contents(store)

\* A write: what is still to be deleted or enqueued, and what is done.
WriteQueue ==
  Writing =>
    /\ task.queue \subseteq New(Corpus) \cup Changed(Corpus)
    /\ Left \subseteq Changed(Corpus) \cup Removed(Corpus)
    /\ task.stale # {} => task.queue = New(Corpus) \cup Changed(Corpus)
    /\ task.stale \cap task.undeleted = {}
    /\ ~task.failed => task.undeleted = {}
WriteDone ==
  Writing =>
    /\ \A k \in (New(Corpus) \cup Changed(Corpus)) \ task.queue : k \in DOMAIN store
    /\ \A k \in (Changed(Corpus) \cup Removed(Corpus)) \ Left :
         k \in DOMAIN store => k \in DOMAIN Corpus /\ store[k].content = Corpus[k]
    /\ ~unfinished => \A k \in Left : k \in DOMAIN store /\ store[k].content = manifest[k]

CrashInv ==
  /\ BuildInv /\ WipeInv /\ SidecarLags /\ GraphAccounted /\ Finished
  /\ WriteQueue /\ WriteDone

-----------------------------------------------------------------------------

\* Before the first build there is nothing to recover.
LEMMA InitCrash == Init => CrashInv
  <1> SUFFICES ASSUME Init PROVE CrashInv
    OBVIOUS
  <1>1. /\ manifest = Nothing /\ sidecar = Nothing /\ store = Nothing /\ pc = "idle"
        /\ task.kind = "none" /\ DOMAIN task = DOMAIN NoTask /\ DOMAIN Nothing = {}
    BY DEF Init, NoTask, Nothing
  <1>2. BuildInv
    BY <1>1 DEF BuildInv, TaskInv, Building, Nothing
  <1>3. WipeInv /\ WriteQueue /\ WriteDone
    BY <1>1 DEF WipeInv, WriteQueue, WriteDone, Writing
  <1>4. SidecarLags
    BY <1>1 DEF SidecarLags, Agree
  <1>5. GraphAccounted
    BY <1>1 DEF GraphAccounted
  <1>6. Finished
    BY <1>1 DEF Finished, Contents, Nothing
  <1> QED BY <1>2, <1>3, <1>4, <1>5, <1>6 DEF CrashInv

\* Nothing the invariant speaks of has changed.
LEMMA SameCrash ==
  ASSUME CrashInv, UNCHANGED <<files, manifest, sidecar, store, pc, task, unfinished>>
  PROVE  CrashInv'
  <1>1. Corpus' = Corpus
    BY DEF Corpus
  <1>2. Left' = Left /\ New(Corpus)' = New(Corpus) /\ Changed(Corpus)' = Changed(Corpus)
        /\ Removed(Corpus)' = Removed(Corpus) /\ Contents(store)' = Contents(store)
        /\ Wiping' = Wiping /\ Writing' = Writing /\ Building' = Building
    BY <1>1 DEF Left, New, Changed, Removed, Contents, Wiping, Writing, Building
  <1>3. BuildInv' /\ WipeInv'
    BY <1>1, <1>2 DEF CrashInv, BuildInv, TaskInv, WipeInv
  <1>4. SidecarLags' /\ GraphAccounted' /\ Finished'
    BY <1>1, <1>2 DEF CrashInv, SidecarLags, GraphAccounted, HeldOrCurrent, Agree, Finished
  <1>5. WriteQueue' /\ WriteDone'
    BY <1>1, <1>2 DEF CrashInv, WriteQueue, WriteDone
  <1> QED BY <1>3, <1>4, <1>5 DEF CrashInv

\* Sources change only between builds, when the manifest is exact.
LEMMA EditCrash ==
  ASSUME CrashInv, Recoverable, "kill" \in Faults,
         NEW f \in 1..Files, NEW export \in Exports, Edit(f, export)
  PROVE  CrashInv'
  <1>1. UNCHANGED <<manifest, sidecar, store, pc, task, unfinished>> /\ pc = "idle" /\ ~unfinished
    BY DEF Edit, Recoverable
  <1>2. manifest = sidecar /\ manifest = Contents(store)
    BY <1>1 DEF CrashInv, Finished, Wiping, Writing
  <1>3. BuildInv' /\ WipeInv' /\ WriteQueue' /\ WriteDone'
    BY <1>1 DEF CrashInv, BuildInv, TaskInv, WipeInv, WriteQueue, WriteDone, Writing, Building
  <1>4. Finished'
    BY <1>1, <1>2 DEF Finished, Contents
  <1>5. SidecarLags'
    BY <1>1, <1>2 DEF SidecarLags, Agree
  <1>6. GraphAccounted'
    BY <1>1, <1>2 DEF GraphAccounted, HeldOrCurrent, Contents
  <1> QED BY <1>3, <1>4, <1>5, <1>6 DEF CrashInv

\* A scan renders the whole corpus.
LEMMA ScanCrash ==
  ASSUME CrashInv, Recoverable, NEW bound \in Bounds, NEW reingest \in BOOLEAN,
         NEW unparsed \in SUBSET (1..Files), Scan(bound, reingest, unparsed)
  PROVE  CrashInv'
  <1>1. unparsed = {} /\ bound = Whole
    BY DEF Scan, Fault, Recoverable
  <1>2. /\ task'.rendered = Corpus /\ task'.bound = Whole /\ task'.respanned = {}
        /\ task'.kind = "build" /\ DOMAIN task' = DOMAIN NoTask /\ task'.undeleted = {}
        /\ ~task'.failed
        /\ task'.wiping = IF reingest THEN {"store", "sidecar"} ELSE {}
    BY <1>1 DEF Scan, NoTask, Corpus
  <1>3. UNCHANGED <<files, manifest, sidecar, store, unfinished>> /\ pc = "idle"
        /\ pc' = IF reingest THEN "reset" ELSE "diff"
    BY DEF Scan
  <1>4. Corpus' = Corpus
    BY <1>3 DEF Corpus
  <1>5. ~Wiping /\ ~Wiping' /\ ~Writing /\ ~Writing'
    BY <1>2, <1>3 DEF Wiping, Writing
  <1>6. BuildInv'
    BY <1>2, <1>3, <1>4 DEF CrashInv, BuildInv, TaskInv, Building
  <1>7. WipeInv'
    BY <1>2, <1>3 DEF WipeInv
  <1>8. SidecarLags' /\ GraphAccounted' /\ Finished'
    BY <1>3, <1>4, <1>5 DEF CrashInv, SidecarLags, GraphAccounted, HeldOrCurrent, Agree,
                           Finished, Contents
  <1>9. WriteQueue' /\ WriteDone'
    BY <1>5 DEF WriteQueue, WriteDone
  <1> QED BY <1>6, <1>7, <1>8, <1>9 DEF CrashInv

\* A wipe takes what it is given; a session reopened after it knows nothing.
LEMMA WipeCrash ==
  ASSUME CrashInv, Recoverable, (\E entry \in {"store", "sidecar"} : RemoveEntry(entry)) \/ Reopen
  PROVE  CrashInv'
  <1>1. ASSUME NEW entry \in {"store", "sidecar"}, RemoveEntry(entry)
        PROVE  CrashInv'
    <2>1. /\ UNCHANGED <<files, manifest, pc, unfinished>> /\ pc = "reset"
          /\ task' = [task EXCEPT !.wiping = @ \ {entry}]
          /\ store' = IF entry = "store" THEN Nothing ELSE store
          /\ sidecar' = IF entry = "sidecar" THEN Nothing ELSE sidecar
      BY <1>1 DEF RemoveEntry, Fault, Recoverable
    <2>2. /\ task'.kind = task.kind /\ task'.rendered = task.rendered /\ task'.bound = task.bound
          /\ task'.respanned = task.respanned /\ task'.undeleted = task.undeleted
          /\ task'.failed = task.failed /\ DOMAIN task' = DOMAIN task
          /\ task'.wiping = task.wiping \ {entry}
      BY <2>1 DEF CrashInv, BuildInv, TaskInv, NoTask
    <2>3. Corpus' = Corpus
      BY <2>1 DEF Corpus
    <2>4. BuildInv'
      <3>1. \A k \in DOMAIN store' : k \in DOMAIN store /\ store'[k] = store[k]
        BY <2>1 DEF Nothing
      <3>2. sidecar' = [k \in DOMAIN sidecar' |-> sidecar'[k]]
        BY <2>1 DEF CrashInv, BuildInv, Nothing
      <3> QED BY <2>1, <2>2, <2>3, <3>1, <3>2 DEF CrashInv, BuildInv, TaskInv, Building
    <2>5. WipeInv'
      BY <2>1, <2>2 DEF CrashInv, WipeInv
    <2>6. Wiping' /\ ~Writing'
      BY <2>1, <2>2 DEF Wiping, Writing
    <2> QED BY <2>4, <2>5, <2>6 DEF CrashInv, SidecarLags, GraphAccounted, Finished, WriteQueue,
                                  WriteDone
  <1>2. CASE Reopen
    <2>1. /\ UNCHANGED <<files, sidecar, store, task, unfinished>> /\ pc = "reset" /\ pc' = "diff"
          /\ manifest' = sidecar /\ sidecar = Nothing /\ store = Nothing
      BY <1>2 DEF Reopen, CrashInv, WipeInv
    <2>2. DOMAIN Nothing = {} /\ Contents(Nothing) = Nothing
      BY DEF Contents, Nothing
    <2>3. Corpus' = Corpus
      BY <2>1 DEF Corpus
    <2>4. BuildInv' /\ WipeInv'
      BY <2>1, <2>3 DEF CrashInv, BuildInv, TaskInv, Building, WipeInv
    <2>5. ~Writing'
      BY <2>1 DEF Writing
    <2>6. Finished' /\ SidecarLags' /\ GraphAccounted'
      BY <2>1, <2>2 DEF Finished, SidecarLags, GraphAccounted, Agree, Contents
    <2> QED BY <2>4, <2>5, <2>6 DEF CrashInv, WriteQueue, WriteDone
  <1> QED BY <1>1, <1>2

\* In a write what is to do and what is done are in terms of the render.
LEMMA DiffCrash ==
  ASSUME CrashInv, Diff
  PROVE  CrashInv'
  <1>1. /\ UNCHANGED <<files, manifest, sidecar, store, unfinished>> /\ pc = "diff" /\ pc' = "write"
        /\ task.kind = "build" /\ task.undeleted = {} /\ ~task.failed
    BY DEF Diff, CrashInv, BuildInv, TaskInv
  <1>2. task.rendered = Corpus /\ task.bound = Whole /\ Prune
    BY <1>1 DEF CrashInv, BuildInv, Building, Prune, Bounded, Whole
  <1>3. /\ task'.kind = task.kind /\ task'.rendered = task.rendered /\ task'.bound = task.bound
        /\ task'.undeleted = task.undeleted /\ task'.failed = task.failed
        /\ task'.respanned = {} /\ DOMAIN task' = DOMAIN task
        /\ task'.stale = Changed(Corpus) \cup Removed(Corpus)
        /\ task'.queue = New(Corpus) \cup Changed(Corpus)
    BY <1>2 DEF Diff, CrashInv, BuildInv, TaskInv, NoTask
  <1>4. Corpus' = Corpus
    BY <1>1 DEF Corpus
  <1>5. New(Corpus)' = New(Corpus) /\ Changed(Corpus)' = Changed(Corpus)
        /\ Removed(Corpus)' = Removed(Corpus)
    BY <1>1, <1>4 DEF New, Changed, Removed
  <1>6. Left' = Changed(Corpus) \cup Removed(Corpus)
    BY <1>1, <1>3 DEF Left
  <1>7. ~Wiping /\ ~Wiping' /\ ~Writing
    BY <1>1 DEF Wiping, Writing
  <1>8. BuildInv' /\ WipeInv'
    BY <1>1, <1>2, <1>3, <1>4 DEF CrashInv, BuildInv, TaskInv, Building, WipeInv
  <1>9. SidecarLags' /\ GraphAccounted'
    BY <1>1, <1>4, <1>7 DEF CrashInv, SidecarLags, GraphAccounted, HeldOrCurrent, Agree
  <1>10. Finished'
    BY <1>1, <1>3, <1>7 DEF CrashInv, Finished, Writing
  <1>11. WriteQueue'
    BY <1>1, <1>3, <1>5, <1>6 DEF WriteQueue
  <1>12. ~unfinished => \A k \in Left' : k \in DOMAIN store /\ store[k].content = manifest[k]
    BY <1>6, <1>7 DEF CrashInv, Finished, Contents, Changed, Removed
  <1>13. WriteDone'
    BY <1>1, <1>3, <1>4, <1>5, <1>6, <1>12 DEF WriteDone
  <1> QED BY <1>8, <1>9, <1>10, <1>11, <1>13 DEF CrashInv

\* A document deleted was not one a current record is of.
LEMMA DeleteCrash ==
  ASSUME CrashInv, NEW key \in task.stale, Delete(key)
  PROVE  CrashInv'
  <1>1. /\ UNCHANGED <<files, manifest, sidecar, pc, unfinished>> /\ pc = "write"
        /\ task.kind = "build"
    BY DEF Delete, CrashInv, BuildInv, TaskInv
  <1>2. Writing /\ ~Wiping /\ ~Wiping' /\ task.rendered = Corpus
    BY <1>1 DEF Writing, Wiping, CrashInv, BuildInv, Building
  <1>3. /\ task'.kind = task.kind /\ task'.rendered = task.rendered /\ task'.bound = task.bound
        /\ task'.queue = task.queue /\ task'.respanned = task.respanned
        /\ task'.stale = task.stale \ {key} /\ DOMAIN task' = DOMAIN task
    BY DEF Delete, CrashInv, BuildInv, TaskInv, NoTask
  <1>4. \/ store' = Without(store, {key}) /\ task'.undeleted = task.undeleted
           /\ task'.failed = task.failed
        \/ store' = store /\ task'.undeleted = task.undeleted \cup {key} /\ task'.failed
    BY DEF Delete, CrashInv, BuildInv, TaskInv, NoTask
  <1>5. Corpus' = Corpus
    BY <1>1 DEF Corpus
  <1>6. New(Corpus)' = New(Corpus) /\ Changed(Corpus)' = Changed(Corpus)
        /\ Removed(Corpus)' = Removed(Corpus) /\ Writing'
    BY <1>1, <1>3, <1>5 DEF New, Changed, Removed, Writing
  <1>7. \A k \in DOMAIN store' : k \in DOMAIN store /\ store'[k] = store[k]
    BY <1>4 DEF Without
  <1>8. \A k \in DOMAIN store : k \in DOMAIN store' \/ k = key
    BY <1>4 DEF Without
  <1>9. key \in Left /\ Left' \subseteq Left /\ Left \ {key} \subseteq Left'
    BY <1>3, <1>4 DEF Left
  <1>10. key \in DOMAIN manifest /\ ~(key \in DOMAIN Corpus /\ manifest[key] = Corpus[key])
    BY <1>2, <1>9 DEF CrashInv, WriteQueue, Changed, Removed
  <1>11. task.queue = New(Corpus) \cup Changed(Corpus)
    BY <1>2 DEF CrashInv, WriteQueue
  <1>12. BuildInv' /\ WipeInv'
    BY <1>1, <1>3, <1>5, <1>7 DEF CrashInv, BuildInv, TaskInv, Building, WipeInv
  <1>13. SidecarLags'
    BY <1>1, <1>2, <1>5 DEF CrashInv, SidecarLags, Agree
  <1>14. GraphAccounted'
    BY <1>1, <1>2, <1>5, <1>7, <1>8, <1>10 DEF CrashInv, GraphAccounted, HeldOrCurrent
  <1>15. Finished'
    BY <1>1, <1>2, <1>6 DEF CrashInv, Finished
  <1>16. WriteQueue'
    BY <1>2, <1>3, <1>4, <1>6, <1>9 DEF CrashInv, WriteQueue
  <1>17. WriteDone'
    <2>1. \A k \in ((New(Corpus) \cup Changed(Corpus)) \ task.queue)' : k \in DOMAIN store'
      BY <1>3, <1>6, <1>11
    <2>2. key \in DOMAIN store' => key \in Left'
      BY <1>3, <1>4 DEF Left, Without
    <2>3. \A k \in (Changed(Corpus) \cup Removed(Corpus)) \ Left :
            k \in DOMAIN store => k \in DOMAIN Corpus /\ store[k].content = Corpus[k]
      BY <1>2 DEF CrashInv, WriteDone
    <2>4. \A k \in ((Changed(Corpus) \cup Removed(Corpus)) \ Left)' :
            k \in DOMAIN store' => k \in DOMAIN Corpus' /\ store'[k].content = Corpus'[k]
      BY <1>5, <1>6, <1>7, <1>9, <2>2, <2>3
    <2>5. key \in Left' => store' = store
      <3>1. key \notin task.undeleted
        BY <1>2 DEF CrashInv, WriteQueue
      <3> QED BY <1>3, <1>4, <3>1 DEF Left
    <2>6. ~unfinished' => \A k \in Left' : k \in DOMAIN store' /\ store'[k].content = manifest'[k]
      BY <1>1, <1>2, <1>7, <1>8, <1>9, <2>5 DEF CrashInv, WriteDone
    <2> QED BY <2>1, <2>4, <2>6 DEF WriteDone
  <1> QED BY <1>12, <1>13, <1>14, <1>15, <1>16, <1>17 DEF CrashInv

\* A document enqueued, and new to the graph, is current.
LEMMA EnqueueCrash ==
  ASSUME CrashInv, Recoverable, NEW chunk \in SUBSET task.queue, Enqueue(chunk)
  PROVE  CrashInv'
  <1>1. /\ UNCHANGED <<files, manifest, sidecar, pc, unfinished>> /\ pc = "write"
        /\ task.kind = "build" /\ store' = Offer(chunk) /\ task.stale = {}
    BY DEF Enqueue, CrashInv, BuildInv, TaskInv, Fault, Recoverable
  <1>2. Writing /\ ~Wiping /\ ~Wiping' /\ task.rendered = Corpus
    BY <1>1 DEF Writing, Wiping, CrashInv, BuildInv, Building
  <1>3. /\ task'.kind = task.kind /\ task'.rendered = task.rendered /\ task'.bound = task.bound
        /\ task'.queue = task.queue \ chunk /\ task'.respanned = task.respanned
        /\ task'.undeleted = task.undeleted /\ task'.failed = task.failed
        /\ task'.stale = task.stale /\ DOMAIN task' = DOMAIN task
    BY DEF Enqueue, CrashInv, BuildInv, TaskInv, NoTask, Fault, Recoverable
  <1>4. Corpus' = Corpus
    BY <1>1 DEF Corpus
  <1>5. New(Corpus)' = New(Corpus) /\ Changed(Corpus)' = Changed(Corpus)
        /\ Removed(Corpus)' = Removed(Corpus) /\ Writing' /\ Left' = Left
    BY <1>1, <1>3, <1>4 DEF New, Changed, Removed, Writing, Left
  <1>6. /\ DOMAIN store' = DOMAIN store \cup chunk
        /\ \A k \in DOMAIN store : store'[k] = store[k]
        /\ \A k \in chunk \ DOMAIN store : store'[k] = [content |-> Corpus[k], extracted |-> FALSE]
    BY <1>1, <1>2 DEF Offer
  <1>7. chunk \subseteq DOMAIN Corpus
    BY <1>2 DEF CrashInv, WriteQueue, New, Changed
  <1>8. \A k \in DOMAIN store' \ DOMAIN store : k \in DOMAIN Corpus /\ store'[k].content = Corpus[k]
    BY <1>6, <1>7
  <1>9. BuildInv'
    <2>1. \A k \in DOMAIN store' :
            /\ store'[k] = [content |-> store'[k].content, extracted |-> store'[k].extracted]
            /\ store'[k].extracted \in BOOLEAN
      <3>1. ASSUME NEW k \in DOMAIN store
            PROVE  /\ store'[k] = [content |-> store'[k].content,
                                   extracted |-> store'[k].extracted]
                   /\ store'[k].extracted \in BOOLEAN
        <4>1. store'[k] = store[k]
          BY <1>6
        <4> QED BY <4>1 DEF CrashInv, BuildInv, TaskInv
      <3>2. ASSUME NEW k \in chunk \ DOMAIN store
            PROVE  /\ store'[k] = [content |-> store'[k].content,
                                   extracted |-> store'[k].extracted]
                   /\ store'[k].extracted \in BOOLEAN
        <4>1. store'[k] = [content |-> Corpus[k], extracted |-> FALSE]
          BY <1>6
        <4> QED BY <4>1
      <3> QED BY <1>6, <3>1, <3>2
    <2> QED BY <1>1, <1>3, <1>4, <2>1 DEF CrashInv, BuildInv, TaskInv, Building
  <1>10. WipeInv'
    BY <1>1 DEF WipeInv
  <1>11. SidecarLags'
    BY <1>1, <1>2, <1>4 DEF CrashInv, SidecarLags, Agree
  <1>12. GraphAccounted'
    <2>1. \A k \in DOMAIN store : HeldOrCurrent(k)
      BY <1>2 DEF CrashInv, GraphAccounted
    <2>2. \A k \in DOMAIN store' : HeldOrCurrent(k)'
      BY <1>1, <1>4, <1>6, <1>8, <2>1 DEF HeldOrCurrent
    <2>3. \A k \in DOMAIN manifest' \cap DOMAIN Corpus' :
            manifest'[k] = Corpus'[k] => k \in DOMAIN store'
      BY <1>1, <1>2, <1>4, <1>6 DEF CrashInv, GraphAccounted
    <2> QED BY <2>2, <2>3 DEF GraphAccounted
  <1>13. Finished'
    BY <1>1, <1>2, <1>5 DEF CrashInv, Finished
  <1>14. WriteQueue'
    BY <1>1, <1>2, <1>3, <1>5 DEF CrashInv, WriteQueue
  <1>15. WriteDone'
    <2>1. \A k \in ((New(Corpus) \cup Changed(Corpus)) \ task.queue)' : k \in DOMAIN store'
      BY <1>2, <1>3, <1>5, <1>6 DEF CrashInv, WriteDone
    <2>2. \A k \in (Changed(Corpus) \cup Removed(Corpus)) \ Left :
            k \in DOMAIN store' => k \in DOMAIN Corpus /\ store'[k].content = Corpus[k]
      BY <1>2, <1>6, <1>8 DEF CrashInv, WriteDone
    <2>3. ~unfinished => \A k \in Left : k \in DOMAIN store' /\ store'[k].content = manifest[k]
      BY <1>2, <1>6 DEF CrashInv, WriteDone
    <2> QED BY <1>1, <1>4, <1>5, <2>1, <2>2, <2>3 DEF WriteDone
  <1> QED BY <1>9, <1>10, <1>11, <1>12, <1>13, <1>14, <1>15 DEF CrashInv

\* An extraction pass begins, or extracts a document: no text changes.
LEMMA PassCrash ==
  ASSUME CrashInv, Process \/ Resume \/ \E k \in DOMAIN store : Extract(k)
  PROVE  CrashInv'
  <1>1. UNCHANGED <<files, manifest, sidecar, unfinished>> /\ Corpus' = Corpus
    BY DEF Process, Resume, Extract, Corpus
  <1>2. pc # "reset" /\ pc' # "reset" /\ ~Wiping /\ ~Wiping' /\ WipeInv'
    BY DEF Process, Resume, Extract, Wiping, WipeInv
  <1>3. CASE Process
    <2>1. UNCHANGED <<store, task>> /\ pc = "write" /\ pc' = "process" /\ task.kind = "build"
          /\ task.stale = {} /\ task.queue = {}
      BY <1>3 DEF Process
    <2>2. New(Corpus)' = New(Corpus) /\ Changed(Corpus)' = Changed(Corpus)
          /\ Removed(Corpus)' = Removed(Corpus) /\ Writing /\ Writing' /\ Left' = Left
      BY <1>1, <2>1 DEF New, Changed, Removed, Writing, Left
    <2>3. BuildInv'
      BY <1>1, <2>1 DEF CrashInv, BuildInv, TaskInv, Building
    <2>4. SidecarLags' /\ GraphAccounted' /\ Finished'
      BY <1>1, <1>2, <2>1, <2>2 DEF CrashInv, SidecarLags, GraphAccounted, HeldOrCurrent, Agree,
                                  Finished
    <2>5. WriteQueue' /\ WriteDone'
      BY <1>1, <2>1, <2>2 DEF CrashInv, WriteQueue, WriteDone
    <2> QED BY <1>2, <2>3, <2>4, <2>5 DEF CrashInv
  <1>4. CASE Resume
    <2>1. UNCHANGED store /\ pc = "idle" /\ pc' = "process" /\ task'.kind = "resume"
          /\ task'.stale = {} /\ task'.queue = {} /\ DOMAIN task' = DOMAIN NoTask
      BY <1>4 DEF Resume, NoTask
    <2>2. ~Writing /\ ~Writing' /\ ~Building' /\ Contents(store)' = Contents(store)
      BY <2>1 DEF Writing, Building, Contents
    <2>3. BuildInv'
      BY <1>1, <2>1, <2>2 DEF CrashInv, BuildInv, TaskInv
    <2>4. SidecarLags' /\ GraphAccounted' /\ Finished'
      BY <1>1, <1>2, <2>1, <2>2 DEF CrashInv, SidecarLags, GraphAccounted, HeldOrCurrent, Agree,
                                  Finished
    <2> QED BY <1>2, <2>2, <2>3, <2>4 DEF CrashInv, WriteQueue, WriteDone
  <1>5. ASSUME NEW k \in DOMAIN store, Extract(k)
        PROVE  CrashInv'
    <2>1. UNCHANGED <<pc, task>>
      BY <1>5 DEF Extract
    <2>2. /\ store[k] = [content |-> store[k].content, extracted |-> store[k].extracted]
          /\ store' = [store EXCEPT ![k] = [store[k] EXCEPT !.extracted = TRUE]]
      BY <1>5 DEF CrashInv, BuildInv, TaskInv, Extract
    <2>3. /\ DOMAIN store' = DOMAIN store
          /\ store'[k] = [content |-> store[k].content, extracted |-> TRUE]
          /\ \A l \in DOMAIN store \ {k} : store'[l] = store[l]
      BY <2>2
    <2>4. \A l \in DOMAIN store : store'[l].content = store[l].content
      BY <2>3
    <2>5. Contents(store)' = Contents(store)
      BY <2>3, <2>4 DEF Contents
    <2>6. \A l \in DOMAIN store' :
            /\ store'[l] = [content |-> store'[l].content, extracted |-> store'[l].extracted]
            /\ store'[l].extracted \in BOOLEAN
      <3>1. ASSUME NEW l \in DOMAIN store', l # k
            PROVE  /\ store'[l] = [content |-> store'[l].content,
                                   extracted |-> store'[l].extracted]
                   /\ store'[l].extracted \in BOOLEAN
        BY <2>3, <3>1 DEF CrashInv, BuildInv, TaskInv
      <3>2. /\ store'[k] = [content |-> store'[k].content, extracted |-> store'[k].extracted]
            /\ store'[k].extracted \in BOOLEAN
        BY <2>3
      <3> QED BY <3>1, <3>2
    <2>7. BuildInv'
      BY <1>1, <2>1, <2>6 DEF CrashInv, BuildInv, TaskInv, Building
    <2>8. New(Corpus)' = New(Corpus) /\ Changed(Corpus)' = Changed(Corpus)
          /\ Removed(Corpus)' = Removed(Corpus) /\ Writing' = Writing /\ Left' = Left
      BY <1>1, <2>1 DEF New, Changed, Removed, Writing, Left
    <2>9. GraphAccounted'
      BY <1>1, <1>2, <2>3, <2>4 DEF CrashInv, GraphAccounted, HeldOrCurrent
    <2>10. SidecarLags' /\ Finished'
      BY <1>1, <1>2, <2>5, <2>8 DEF CrashInv, SidecarLags, Agree, Finished
    <2>11. WriteQueue'
      BY <2>1, <2>8 DEF CrashInv, WriteQueue
    <2>12. WriteDone'
      BY <1>1, <2>1, <2>3, <2>4, <2>8 DEF CrashInv, WriteDone
    <2> QED BY <1>2, <2>7, <2>9, <2>10, <2>11, <2>12 DEF CrashInv
  <1> QED BY <1>3, <1>4, <1>5

\* What the manifest becomes when a build is over: the render, and the record
\* it had of whatever could not be deleted.
LEMMA MergedWhole ==
  ASSUME CrashInv, pc = "process", task.kind = "build"
  PROVE  /\ DOMAIN Merged = DOMAIN Corpus \cup task.undeleted
         /\ Left = task.undeleted /\ Left \subseteq DOMAIN manifest
         /\ \A k \in task.undeleted : Merged[k] = manifest[k]
         /\ \A k \in DOMAIN Corpus \ task.undeleted : Merged[k] = Corpus[k]
         /\ Merged = [k \in DOMAIN Merged |-> Merged[k]]
  <1>1. task.rendered = Corpus /\ Prune /\ task.stale = {} /\ Writing
    BY DEF CrashInv, BuildInv, TaskInv, Building, Prune, Bounded, Whole, Writing
  <1>2. task.undeleted \subseteq DOMAIN manifest /\ Left = task.undeleted
    BY <1>1 DEF CrashInv, WriteQueue, Left, Changed, Removed
  <1> QED BY <1>1, <1>2 DEF Merged

\* The end of a build.  Where the manifest is neither saved nor exact, the
\* build was unfinished business before, and did not end cleanly.
LEMMA FinishCrash ==
  ASSUME CrashInv, NEW failed \in BOOLEAN, FinishBuild(failed)
  PROVE  CrashInv' /\ CleanBuildIsCurrent'
  <1>1. /\ pc = "process" /\ task.kind = "build" /\ pc' = "idle" /\ UNCHANGED <<files, store>>
        /\ manifest' = Merged /\ (sidecar' = manifest' \/ sidecar' = sidecar)
        /\ ~failed => \A k \in DOMAIN store : store[k].extracted
    BY DEF FinishBuild, Processed, Remember
  <1>2. /\ task.rendered = Corpus /\ task.bound = Whole /\ task.queue = {} /\ Writing
        /\ ~Wiping /\ Prune
    BY <1>1 DEF CrashInv, BuildInv, TaskInv, Building, Prune, Bounded, Whole, Writing, Wiping
  <1>3. /\ task'.kind = "build" /\ task'.rendered = Corpus /\ task'.bound = Whole
        /\ task'.failed = (task.failed \/ failed) /\ DOMAIN task' = DOMAIN task
        /\ task'.respanned = task.respanned
    BY <1>2 DEF FinishBuild, CrashInv, BuildInv, TaskInv, NoTask
  <1>4. Corpus' = Corpus
    BY <1>1 DEF Corpus
  <1>5. ~Wiping' /\ ~Writing' /\ ~Building' /\ Contents(store)' = Contents(store)
    BY <1>1 DEF Wiping, Writing, Building, Contents
  <1>6. /\ DOMAIN manifest' = DOMAIN Corpus \cup task.undeleted
        /\ Left = task.undeleted /\ Left \subseteq DOMAIN manifest
        /\ \A k \in task.undeleted : manifest'[k] = manifest[k]
        /\ \A k \in DOMAIN Corpus \ task.undeleted : manifest'[k] = Corpus[k]
        /\ manifest' = [k \in DOMAIN manifest' |-> manifest'[k]]
    BY <1>1, MergedWhole
  <1>7. \A k \in task.undeleted : ~(k \in DOMAIN Corpus /\ manifest[k] = Corpus[k])
    BY <1>2, <1>6 DEF CrashInv, WriteQueue, Changed, Removed
  <1>8. \A k \in DOMAIN Corpus \ task.undeleted : k \in DOMAIN store
    <2>1. \A k \in DOMAIN Corpus : k \in New(Corpus) \cup Changed(Corpus)
                                   \/ (k \in DOMAIN manifest /\ manifest[k] = Corpus[k])
      BY DEF New, Changed
    <2>2. \A k \in New(Corpus) \cup Changed(Corpus) : k \in DOMAIN store
      BY <1>2 DEF CrashInv, WriteDone
    <2> QED BY <1>2, <2>1, <2>2 DEF CrashInv, GraphAccounted
  <1>9. \A k \in DOMAIN store \ task.undeleted :
          k \in DOMAIN Corpus /\ store[k].content = Corpus[k]
    <2>1. \A k \in DOMAIN manifest : k \in Changed(Corpus) \cup Removed(Corpus)
                                     \/ (k \in DOMAIN Corpus /\ manifest[k] = Corpus[k])
      BY DEF Changed, Removed
    <2>2. \A k \in (Changed(Corpus) \cup Removed(Corpus)) \ Left :
            k \in DOMAIN store => k \in DOMAIN Corpus /\ store[k].content = Corpus[k]
      BY <1>2 DEF CrashInv, WriteDone
    <2>3. \A k \in DOMAIN store : HeldOrCurrent(k)
      BY <1>2 DEF CrashInv, GraphAccounted
    <2> QED BY <1>6, <2>1, <2>2, <2>3 DEF HeldOrCurrent
  <1>10. \A k \in DOMAIN store : HeldOrCurrent(k)'
    <2>1. \A k \in task.undeleted \cap DOMAIN store : HeldOrCurrent(k)
      BY <1>2 DEF CrashInv, GraphAccounted
    <2> QED BY <1>1, <1>4, <1>6, <1>9, <2>1 DEF HeldOrCurrent
  <1>11. BuildInv'
    <2>1. sidecar' = [k \in DOMAIN sidecar' |-> sidecar'[k]]
      BY <1>1, <1>6 DEF CrashInv, BuildInv
    <2> QED BY <1>1, <1>3, <1>5, <1>6, <2>1 DEF CrashInv, BuildInv, TaskInv
  <1>12. GraphAccounted'
    BY <1>1, <1>4, <1>6, <1>7, <1>8, <1>10 DEF GraphAccounted
  <1>13. SidecarLags'
    <2>1. CASE sidecar' = manifest'
      BY <2>1 DEF SidecarLags, Agree
    <2>2. CASE sidecar' = sidecar
      <3>1. ASSUME NEW k
            PROVE  Agree(manifest, sidecar, k)' \/ Agree(manifest, Corpus, k)'
        <4>1. Agree(manifest, sidecar, k) \/ Agree(manifest, Corpus, k)
          BY <1>2 DEF CrashInv, SidecarLags
        <4>2. CASE k \in task.undeleted
          BY <1>6, <1>7, <2>2, <4>1, <4>2 DEF Agree
        <4>3. CASE k \notin task.undeleted
          BY <1>4, <1>6, <4>3 DEF Agree
        <4> QED BY <4>2, <4>3
      <3> QED BY <3>1 DEF SidecarLags
    <2> QED BY <1>1, <2>1, <2>2
  <1>14. ~task'.failed => Contents(store) = Corpus /\ task.undeleted = {}
    <2>1. SUFFICES ASSUME ~task'.failed
                   PROVE  Contents(store) = Corpus /\ task.undeleted = {}
      OBVIOUS
    <2>2. task.undeleted = {}
      BY <1>2, <1>3, <2>1 DEF CrashInv, WriteQueue
    <2>3. DOMAIN store = DOMAIN Corpus /\ \A k \in DOMAIN store : store[k].content = Corpus[k]
      BY <1>8, <1>9, <2>2
    <2>4. Corpus = [k \in DOMAIN Corpus |-> Corpus[k]]
      BY DEF Corpus, Render, ThreadTranscripts
    <2> QED BY <2>2, <2>3, <2>4 DEF Contents
  <1>15. ~unfinished' => manifest' = Contents(store)
    <2>1. SUFFICES ASSUME ~unfinished'
                   PROVE  manifest' = Contents(store)
      OBVIOUS
    <2>2. ~unfinished \/ ~task'.failed
      BY <1>2, <2>1 DEF FinishBuild
    <2>3. CASE ~task'.failed
      <3>1. DOMAIN manifest' = DOMAIN Corpus /\ \A k \in DOMAIN manifest' : manifest'[k] = Corpus[k]
        BY <1>6, <1>14, <2>3
      <3>2. Corpus = [k \in DOMAIN Corpus |-> Corpus[k]]
        BY DEF Corpus, Render, ThreadTranscripts
      <3> QED BY <1>6, <1>14, <2>3, <3>1, <3>2
    <2>4. CASE ~unfinished
      <3>1. \A k \in task.undeleted : k \in DOMAIN store /\ store[k].content = manifest[k]
        BY <1>2, <1>6, <2>4 DEF CrashInv, WriteDone
      <3>2. DOMAIN manifest' = DOMAIN store
        BY <1>6, <1>8, <1>9, <3>1
      <3>3. \A k \in DOMAIN store : store[k].content = manifest'[k]
        BY <1>6, <1>9, <3>1
      <3> QED BY <1>6, <3>2, <3>3 DEF Contents
    <2> QED BY <2>2, <2>3, <2>4
  <1>16. Finished'
    <2>1. ~unfinished' => manifest' = sidecar'
      BY DEF FinishBuild
    <2> QED BY <1>5, <1>15, <2>1 DEF Finished
  <1>17. WipeInv' /\ WriteQueue' /\ WriteDone'
    BY <1>1, <1>5 DEF WipeInv, WriteQueue, WriteDone
  <1>18. CleanBuildIsCurrent'
    <2>1. SUFFICES ASSUME ~task'.failed
                   PROVE  /\ \A k \in DOMAIN Corpus :
                               /\ k \in DOMAIN store
                               /\ store[k] = [content |-> Corpus[k], extracted |-> TRUE]
                          /\ DOMAIN store = DOMAIN Corpus
      BY <1>1, <1>3 DEF CleanBuildIsCurrent
    <2>2. Contents(store) = Corpus /\ \A k \in DOMAIN store : store[k].extracted
      BY <1>1, <1>3, <1>14, <2>1
    <2>3. DOMAIN store = DOMAIN Corpus /\ \A k \in DOMAIN store : store[k].content = Corpus[k]
      BY <2>2 DEF Contents
    <2>4. ASSUME NEW k \in DOMAIN store
          PROVE  store[k] = [content |-> Corpus[k], extracted |-> TRUE]
      <3>1. store[k].extracted = TRUE /\ store[k].content = Corpus[k]
        BY <2>2, <2>3 DEF CrashInv, BuildInv, TaskInv
      <3>2. store[k] = [content |-> store[k].content, extracted |-> store[k].extracted]
        BY DEF CrashInv, BuildInv, TaskInv
      <3> QED BY <3>1, <3>2
    <2> QED BY <2>3, <2>4
  <1> QED BY <1>11, <1>12, <1>13, <1>16, <1>17, <1>18 DEF CrashInv

\* A pass of its own ends, and has changed no text.
LEMMA FinishResumeCrash ==
  ASSUME CrashInv, NEW failed \in BOOLEAN, FinishResume(failed)
  PROVE  CrashInv'
  <1>1. UNCHANGED <<files, manifest, sidecar, store, task, unfinished>> /\ pc = "process"
        /\ pc' = "idle" /\ task.kind = "resume"
    BY DEF FinishResume, Processed
  <1>2. Corpus' = Corpus /\ Contents(store)' = Contents(store)
    BY <1>1 DEF Corpus, Contents
  <1>3. ~Wiping /\ ~Wiping' /\ ~Writing /\ ~Writing' /\ ~Building'
    BY <1>1 DEF Wiping, Writing, Building
  <1>4. BuildInv' /\ WipeInv' /\ WriteQueue' /\ WriteDone'
    BY <1>1, <1>3 DEF CrashInv, BuildInv, TaskInv, WipeInv, WriteQueue, WriteDone
  <1>5. SidecarLags' /\ GraphAccounted' /\ Finished'
    BY <1>1, <1>2, <1>3 DEF CrashInv, SidecarLags, GraphAccounted, HeldOrCurrent, Agree, Finished
  <1> QED BY <1>4, <1>5 DEF CrashInv

\* The session that is started again knows what was saved.
LEMMA KillCrash ==
  ASSUME CrashInv, Recoverable, Kill
  PROVE  CrashInv'
  <1>1. /\ UNCHANGED <<files, sidecar, store>> /\ manifest' = sidecar /\ pc' = "idle"
        /\ task'.kind = "none" /\ DOMAIN task' = DOMAIN NoTask
        /\ unfinished' = (unfinished \/ (pc # "idle" /\ task.kind # "resume"))
        /\ pc = "reset" => task.wiping \in {{}, {"store", "sidecar"}}
    BY DEF Kill, Recoverable, NoTask
  <1>2. Corpus' = Corpus
    BY <1>1 DEF Corpus
  <1>3. ~Wiping' /\ ~Writing' /\ ~Building'
    BY <1>1 DEF Wiping, Writing, Building
  <1>4. BuildInv' /\ WipeInv' /\ WriteQueue' /\ WriteDone'
    BY <1>1, <1>3 DEF CrashInv, BuildInv, TaskInv, WipeInv, WriteQueue, WriteDone
  <1>5. SidecarLags'
    BY <1>1 DEF SidecarLags, Agree
  <1>6. Finished'
    <2>1. ~unfinished' => ~Wiping /\ ~Writing
      BY <1>1 DEF Wiping, Writing, CrashInv, BuildInv, TaskInv
    <2>2. ~unfinished' => manifest = sidecar /\ manifest = Contents(store)
      BY <1>1, <2>1 DEF CrashInv, Finished
    <2> QED BY <1>1, <2>2 DEF Finished, Contents
  <1>7. GraphAccounted'
    <2>1. CASE Wiping
      <3>1. store = Nothing /\ sidecar = Nothing /\ DOMAIN Nothing = {}
        BY <1>1, <2>1 DEF Wiping, CrashInv, WipeInv, Nothing
      <3> QED BY <1>1, <3>1 DEF GraphAccounted
    <2>2. CASE ~Wiping
      <3>1. \A k : Agree(manifest, sidecar, k) \/ Agree(manifest, Corpus, k)
        BY <2>2 DEF CrashInv, SidecarLags
      <3>2. \A k \in DOMAIN store : HeldOrCurrent(k)
        BY <2>2 DEF CrashInv, GraphAccounted
      <3>3. \A k \in DOMAIN manifest \cap DOMAIN Corpus :
              manifest[k] = Corpus[k] => k \in DOMAIN store
        BY <2>2 DEF CrashInv, GraphAccounted
      <3>4. \A k \in DOMAIN store : HeldOrCurrent(k)'
        BY <1>1, <1>2, <3>1, <3>2 DEF HeldOrCurrent, Agree
      <3>5. \A k \in DOMAIN sidecar \cap DOMAIN Corpus :
              sidecar[k] = Corpus[k] => k \in DOMAIN store
        BY <3>1, <3>3 DEF Agree
      <3> QED BY <1>1, <1>2, <3>4, <3>5 DEF GraphAccounted
    <2> QED BY <2>1, <2>2
  <1> QED BY <1>4, <1>5, <1>6, <1>7 DEF CrashInv

\* Every step keeps the account that survives a crash.
LEMMA NextCrash ==
  ASSUME CrashInv, CleanBuildIsCurrent, Recoverable, "kill" \in Faults, [Next]_vars
  PROVE  CrashInv' /\ CleanBuildIsCurrent'
  <1>1. ASSUME UNCHANGED <<store, pc, task>>
        PROVE  CleanBuildIsCurrent'
    BY <1>1 DEF CleanBuildIsCurrent, Built, Prune
  <1>2. ASSUME pc' # "idle" \/ task'.kind # "build"
        PROVE  CleanBuildIsCurrent'
    BY <1>2 DEF CleanBuildIsCurrent, Built
  <1>3. CASE UNCHANGED vars
    BY <1>1, <1>3, SameCrash DEF vars, bounds
  <1>4. ASSUME NEW f \in 1..Files, NEW export \in Exports, Edit(f, export)
        PROVE  CrashInv' /\ CleanBuildIsCurrent'
    BY <1>1, <1>4, EditCrash DEF Edit
  <1>5. ASSUME NEW bound \in Bounds, NEW reingest \in BOOLEAN, NEW unparsed \in SUBSET (1..Files),
               Scan(bound, reingest, unparsed)
        PROVE  CrashInv' /\ CleanBuildIsCurrent'
    BY <1>2, <1>5, ScanCrash DEF Scan
  <1>6. ASSUME (\E entry \in {"store", "sidecar"} : RemoveEntry(entry)) \/ Reopen
        PROVE  CrashInv' /\ CleanBuildIsCurrent'
    BY <1>2, <1>6, WipeCrash DEF RemoveEntry, Reopen
  <1>7. CASE Diff
    BY <1>2, <1>7, DiffCrash DEF Diff
  <1>8. ASSUME NEW key \in task.stale, Delete(key)
        PROVE  CrashInv' /\ CleanBuildIsCurrent'
    BY <1>2, <1>8, DeleteCrash DEF Delete
  <1>9. ASSUME NEW chunk \in SUBSET task.queue, Enqueue(chunk)
        PROVE  CrashInv' /\ CleanBuildIsCurrent'
    BY <1>2, <1>9, EnqueueCrash DEF Enqueue
  <1>10. ASSUME Process \/ Resume \/ \E k \in DOMAIN store : Extract(k)
         PROVE  CrashInv' /\ CleanBuildIsCurrent'
    BY <1>2, <1>10, PassCrash DEF Process, Resume, Extract
  <1>11. ASSUME NEW failed \in BOOLEAN, FinishBuild(failed)
         PROVE  CrashInv' /\ CleanBuildIsCurrent'
    BY <1>11, FinishCrash
  <1>12. ASSUME NEW failed \in BOOLEAN, FinishResume(failed)
         PROVE  CrashInv' /\ CleanBuildIsCurrent'
    BY <1>2, <1>12, FinishResumeCrash DEF FinishResume
  <1>13. ASSUME NEW keys, DeleteDocuments(keys)
         PROVE  CrashInv' /\ CleanBuildIsCurrent'
    BY <1>13 DEF DeleteDocuments, Recoverable
  <1>14. CASE FinishDelete
    BY <1>14 DEF FinishDelete, CrashInv, BuildInv
  <1>15. CASE Kill
    BY <1>2, <1>15, KillCrash DEF Kill, NoTask
  <1> QED BY <1>3, <1>4, <1>5, <1>6, <1>7, <1>8, <1>9, <1>10, <1>11, <1>12, <1>13, <1>14, <1>15
          DEF Next

\* A build that reports no failure is current - everything it rendered is in
\* the graph, as rendered and extracted, and nothing else - also when builds
\* before it were killed at any step, or could not save their manifest: the
\* new session's manifest, read from the sidecar, is behind the graph only
\* where a rebuild puts it right (build(), _load_manifest, _remember).
THEOREM CrashesAreRecovered ==
  ASSUME Recoverable
  PROVE  Spec => []CleanBuildIsCurrent
  <1>1. CASE "kill" \in Faults
    <2>1. Init => CrashInv /\ CleanBuildIsCurrent
      BY InitCrash DEF Init, CleanBuildIsCurrent, Built, NoTask
    <2>2. CrashInv /\ CleanBuildIsCurrent /\ [Next]_vars => CrashInv' /\ CleanBuildIsCurrent'
      BY <1>1, NextCrash
    <2> QED BY <2>1, <2>2, PTL DEF Spec
  <1>2. CASE "kill" \notin Faults
    <2>1. Survivable
      BY <1>2 DEF Recoverable, Survivable
    <2> QED BY <2>1, CleanBuildSucceeds
  <1> QED BY <1>1, <1>2
-----------------------------------------------------------------------------
(***************************************************************************)
(* What a build takes out of the graph.  A document's key spans the days   *)
(* of its messages, from the day of one of them, wherever its record went: *)
(* through the engine, the manifest, the sidecar, a retained record or a   *)
(* crash.  That is why a bounded build, which deletes only keys its render *)
(* has or keys whose every message it has, deletes nothing older than its  *)
(* window.                                                                 *)
(***************************************************************************)

Keyed(docs) ==
  \A k \in DOMAIN docs :
    /\ \A m \in DOMAIN docs[k] : m \in Messages /\ InSpan(m, k)
    /\ \E m \in DOMAIN docs[k] : DayOf[m] = k[1]

Shaped ==
  /\ DOMAIN task = DOMAIN NoTask
  /\ \A k \in DOMAIN store :
       store[k] = [content |-> store[k].content, extracted |-> store[k].extracted]
  /\ DOMAIN files = 1..Files
  /\ \A f \in 1..Files : IsStream(files[f])
  /\ task.queue \subseteq DOMAIN task.rendered

DocsKeyed ==
  Keyed(manifest) /\ Keyed(sidecar) /\ Keyed(Contents(store)) /\ Keyed(task.rendered)

KeyedInv == Shaped /\ DocsKeyed

\* The files of a scan are batches of messages.
LEMMA ScansCorpus ==
  ASSUME Shaped, NEW unparsed
  PROVE  IsCorpus(Parsed(files, unparsed))
  <1>1. DOMAIN Parsed(files, unparsed) = (1..Files) \ unparsed
    BY DEF Parsed
  <1>2. IsFiniteSet(1..Files)
    BY FS_Interval, GraphBuildAssumption
  <1>3. IsFiniteSet((1..Files) \ unparsed)
    BY <1>2, FS_Difference
  <1>4. (1..Files) \ unparsed \subseteq Nat
    BY GraphBuildAssumption
  <1>5. \A f \in (1..Files) \ unparsed : IsStream(Parsed(files, unparsed)[f])
    BY DEF Parsed, Shaped
  <1> QED BY <1>1, <1>3, <1>4, <1>5 DEF IsCorpus

\* Whatever the window, a render's documents are keyed by their days.
LEMMA RenderKeyed ==
  ASSUME NEW batches, IsCorpus(batches), NEW bound
  PROVE  Keyed(Render(ApplyBounds(batches, bound)))
  <1> DEFINE window == Window(batches, bound)
  <1>1. IsStream(window)
    <2>1. \E kept : ApplyBounds(batches, bound) = Narrowed(batches, kept)
      BY DEF ApplyBounds
    <2>2. PICK kept : ApplyBounds(batches, bound) = Narrowed(batches, kept)
      BY <2>1
    <2>3. window = [m \in DOMAIN MergeBatches(batches) \cap kept |-> MergeBatches(batches)[m]]
      BY <2>2, MergeNarrowed DEF Window
    <2> QED BY <2>3, MergeNarrowed DEF IsStream
  <1>2. Render(ApplyBounds(batches, bound)) = ThreadTranscripts(window)
    BY DEF Render, Window
  <1> HIDE DEF window
  <1> DEFINE docs == ThreadTranscripts(window)
  <1>3. /\ UNION {DOMAIN docs[key] : key \in DOMAIN docs} = DOMAIN window
        /\ \A key \in DOMAIN docs :
             /\ \E m \in DOMAIN docs[key] : DayOf[m] = key[1]
             /\ \A m \in DOMAIN docs[key] : key[1] <= DayOf[m] /\ DayOf[m] <= key[2]
    BY <1>1, DocsCover
  <1> HIDE DEF docs
  <1>4. \A key \in DOMAIN docs : \A m \in DOMAIN docs[key] : m \in Messages
    BY <1>1, <1>3 DEF IsStream
  <1> QED BY <1>2, <1>3, <1>4 DEF docs, Keyed, InSpan

\* A window by date renders all the messages of the batches from that day on.
LEMMA RenderInRange ==
  ASSUME NEW batches, IsCorpus(batches), NEW bound, bound.limit = 0
  PROVE  Guids(Render(ApplyBounds(batches, bound))) =
           {m \in UNION {DOMAIN batches[i] : i \in DOMAIN batches} : DayOf[m] >= bound.since}
  <1> DEFINE window == Window(batches, bound)
             docs == ThreadTranscripts(window)
  <1>1. DOMAIN MergeBatches(batches) = UNION {DOMAIN batches[i] : i \in DOMAIN batches}
    BY DEF MergeBatches
  <1>2. /\ IsStream(MergeBatches(batches))
        /\ DOMAIN window = {m \in DOMAIN MergeBatches(batches) : DayOf[m] >= bound.since}
    BY FloorWindow
  <1>3. Render(ApplyBounds(batches, bound)) = docs
    BY DEF Render, Window
  <1> HIDE DEF window
  <1>4. Guids(docs) = DOMAIN window
    BY <1>2, DocsCover DEF IsStream, Guids
  <1> QED BY <1>1, <1>2, <1>3, <1>4

\* There is nothing yet to be keyed.
LEMMA InitKeyed == Init => KeyedInv
  <1> SUFFICES ASSUME Init PROVE KeyedInv
    OBVIOUS
  <1>1. DOMAIN Nothing = {} /\ DOMAIN Contents(Nothing) = {}
    BY DEF Nothing, Contents
  <1>2. Shaped
    BY <1>1 DEF Init, Shaped, NoTask, IsStream
  <1>3. DocsKeyed
    BY <1>1 DEF Init, DocsKeyed, NoTask, Keyed
  <1> QED BY <1>2, <1>3 DEF KeyedInv

\* Nothing the invariant speaks of has changed.
LEMMA SameKeyed ==
  ASSUME KeyedInv, UNCHANGED <<files, manifest, sidecar, store, task>>
  PROVE  KeyedInv'
  BY DEF KeyedInv, Shaped, DocsKeyed, Keyed, Contents

\* A source file holds messages, whichever export it is.
LEMMA EditKeyed ==
  ASSUME KeyedInv, NEW f \in 1..Files, NEW export \in Exports, Edit(f, export)
  PROVE  KeyedInv'
  <1>1. UNCHANGED <<manifest, sidecar, store, task>> /\ files' = [files EXCEPT ![f] = export]
    BY DEF Edit
  <1>2. IsStream(export)
    BY GraphBuildAssumption DEF IsStream
  <1>3. Shaped'
    BY <1>1, <1>2 DEF KeyedInv, Shaped
  <1> QED BY <1>1, <1>3 DEF KeyedInv, DocsKeyed, Keyed, Contents

\* A scan renders the window; the other documents stay where they are.
LEMMA ScanKeyed ==
  ASSUME KeyedInv, NEW bound \in Bounds, NEW reingest, NEW unparsed,
         Scan(bound, reingest, unparsed)
  PROVE  KeyedInv'
  <1>1. /\ UNCHANGED <<files, manifest, sidecar, store>>
        /\ task'.rendered = Render(ApplyBounds(Parsed(files, unparsed), bound))
        /\ task'.queue = {} /\ DOMAIN task' = DOMAIN NoTask
    BY DEF Scan, NoTask
  <1>2. Keyed(task'.rendered)
    BY <1>1, ScansCorpus, RenderKeyed DEF KeyedInv
  <1>3. Shaped'
    BY <1>1 DEF KeyedInv, Shaped
  <1> QED BY <1>1, <1>2, <1>3 DEF KeyedInv, DocsKeyed, Keyed, Contents

\* A wipe removes documents; the reopened session takes the sidecar's.
LEMMA WipeKeyed ==
  ASSUME KeyedInv, (\E entry : RemoveEntry(entry)) \/ Reopen
  PROVE  KeyedInv'
  <1>1. DOMAIN Nothing = {} /\ DOMAIN Contents(Nothing) = {}
    BY DEF Nothing, Contents
  <1>2. /\ store' = store \/ store' = Nothing
        /\ sidecar' = sidecar \/ sidecar' = Nothing
        /\ manifest' = manifest \/ manifest' = sidecar
        /\ files' = files
    BY DEF RemoveEntry, Reopen
  <1>3. task'.rendered = task.rendered /\ task'.queue = task.queue /\ DOMAIN task' = DOMAIN task
    BY DEF RemoveEntry, Reopen, KeyedInv, Shaped, NoTask
  <1>4. Shaped'
    BY <1>1, <1>2, <1>3 DEF KeyedInv, Shaped
  <1>5. DocsKeyed'
    BY <1>1, <1>2, <1>3 DEF KeyedInv, DocsKeyed, Keyed, Contents
  <1> QED BY <1>4, <1>5 DEF KeyedInv

\* What is queued is of the render.
LEMMA DiffKeyed ==
  ASSUME KeyedInv, Diff
  PROVE  KeyedInv'
  <1>1. /\ UNCHANGED <<files, manifest, sidecar, store>>
        /\ task'.rendered = task.rendered /\ DOMAIN task' = DOMAIN task
        /\ task'.queue = New(task.rendered) \cup Changed(task.rendered)
    BY DEF Diff, KeyedInv, Shaped, NoTask
  <1>2. task'.queue \subseteq DOMAIN task'.rendered
    BY <1>1 DEF New, Changed
  <1>3. Shaped'
    BY <1>1, <1>2 DEF KeyedInv, Shaped
  <1> QED BY <1>1, <1>3 DEF KeyedInv, DocsKeyed, Keyed, Contents

\* A delete takes a document out and leaves the others alone.
LEMMA DeleteKeyed ==
  ASSUME KeyedInv, NEW key, Delete(key)
  PROVE  KeyedInv'
  <1>1. /\ UNCHANGED <<files, manifest, sidecar>>
        /\ store' = Without(store, {key}) \/ store' = store
    BY DEF Delete
  <1>2. task'.rendered = task.rendered /\ task'.queue = task.queue /\ DOMAIN task' = DOMAIN task
    BY DEF Delete, KeyedInv, Shaped, NoTask
  <1>3. DOMAIN store' \subseteq DOMAIN store /\ \A k \in DOMAIN store' : store'[k] = store[k]
    BY <1>1 DEF Without
  <1>4. Shaped'
    BY <1>1, <1>2, <1>3 DEF KeyedInv, Shaped
  <1>5. DocsKeyed'
    BY <1>1, <1>2, <1>3 DEF KeyedInv, DocsKeyed, Keyed, Contents
  <1> QED BY <1>4, <1>5 DEF KeyedInv

\* The engine stores a document of the render, or keeps the one it has.
LEMMA EnqueueKeyed ==
  ASSUME KeyedInv, NEW chunk \in SUBSET task.queue, Enqueue(chunk)
  PROVE  KeyedInv'
  <1>1. /\ UNCHANGED <<files, manifest, sidecar>>
        /\ store' = Offer(chunk) \/ store' = store
    BY DEF Enqueue
  <1>2. /\ task'.rendered = task.rendered /\ task'.queue = task.queue \ chunk
        /\ DOMAIN task' = DOMAIN task
    BY DEF Enqueue, KeyedInv, Shaped, NoTask
  <1>3. ASSUME NEW k \in DOMAIN store'
        PROVE  /\ store'[k] = [content |-> store'[k].content, extracted |-> store'[k].extracted]
               /\ \/ k \in DOMAIN store /\ store'[k].content = store[k].content
                  \/ k \in DOMAIN task.rendered /\ store'[k].content = task.rendered[k]
    BY <1>1 DEF Offer, KeyedInv, Shaped
  <1>4. Shaped'
    BY <1>1, <1>2, <1>3 DEF KeyedInv, Shaped
  <1>5. Keyed(Contents(store))'
    BY <1>3 DEF KeyedInv, DocsKeyed, Keyed, Contents
  <1> QED BY <1>1, <1>2, <1>4, <1>5 DEF KeyedInv, DocsKeyed, Keyed

\* Extraction changes no document's text.
LEMMA ExtractKeyed ==
  ASSUME KeyedInv, NEW k \in DOMAIN store, Extract(k)
  PROVE  KeyedInv'
  <1>1. /\ UNCHANGED <<files, manifest, sidecar, task>>
        /\ store' = [store EXCEPT ![k] = [store[k] EXCEPT !.extracted = TRUE]]
    BY DEF Extract
  <1>2. ASSUME NEW l \in DOMAIN store
        PROVE  /\ store'[l].content = store[l].content
               /\ store'[l] = [content |-> store'[l].content, extracted |-> store'[l].extracted]
    <2>1. /\ store[l] = [content |-> store[l].content, extracted |-> store[l].extracted]
          /\ store[k] = [content |-> store[k].content, extracted |-> store[k].extracted]
      BY DEF KeyedInv, Shaped
    <2>2. CASE l = k
      <3>1. store'[k] = [content |-> store[k].content, extracted |-> TRUE]
        BY <1>1, <2>1
      <3> QED BY <2>2, <3>1
    <2>3. CASE l # k
      BY <1>1, <2>1, <2>3
    <2> QED BY <2>2, <2>3
  <1>3. DOMAIN store' = DOMAIN store
    BY <1>1
  <1>4. Shaped'
    BY <1>1, <1>2, <1>3 DEF KeyedInv, Shaped
  <1>5. Keyed(Contents(store))'
    BY <1>2, <1>3 DEF KeyedInv, DocsKeyed, Keyed, Contents
  <1> QED BY <1>1, <1>4, <1>5 DEF KeyedInv, DocsKeyed, Keyed

\* What is remembered is of the render or was recorded before.
LEMMA RememberKeyed ==
  ASSUME KeyedInv,
         (\E failed \in BOOLEAN : FinishBuild(failed) \/ FinishResume(failed)) \/ FinishDelete
  PROVE  KeyedInv'
  <1>1. UNCHANGED <<files, store>>
    BY DEF FinishBuild, FinishResume, FinishDelete
  <1>2. task'.rendered = task.rendered /\ task'.queue = task.queue /\ DOMAIN task' = DOMAIN task
    BY DEF FinishBuild, FinishResume, FinishDelete, KeyedInv, Shaped, NoTask
  <1>3. Keyed(Merged) /\ Keyed(Without(manifest, task.respanned \ task.undeleted))
    <2>1. Keyed(manifest) /\ Keyed(task.rendered)
      BY DEF KeyedInv, DocsKeyed
    <2>2. \A k \in DOMAIN Merged :
            \/ k \in DOMAIN task.rendered /\ Merged[k] = task.rendered[k]
            \/ k \in DOMAIN manifest /\ Merged[k] = manifest[k]
      BY DEF Merged
    <2>3. Keyed(Merged)
      BY <2>1, <2>2 DEF Keyed
    <2> QED BY <2>1, <2>3 DEF Keyed, Without
  <1>4. manifest' \in {manifest, Merged, Without(manifest, task.respanned \ task.undeleted)}
        /\ sidecar' \in {sidecar, manifest'}
    BY DEF FinishBuild, FinishResume, FinishDelete, Remember
  <1>5. Keyed(manifest') /\ Keyed(sidecar')
    BY <1>3, <1>4 DEF KeyedInv, DocsKeyed
  <1>6. Shaped'
    BY <1>1, <1>2 DEF KeyedInv, Shaped
  <1> QED BY <1>1, <1>2, <1>5, <1>6 DEF KeyedInv, DocsKeyed, Keyed, Contents

\* Writes that render nothing; a new session takes the sidecar's records.
LEMMA RestKeyed ==
  ASSUME KeyedInv,
         Process \/ Resume \/ (\E keys : DeleteDocuments(keys)) \/ Kill
  PROVE  KeyedInv'
  <1>1. /\ UNCHANGED <<files, sidecar, store>>
        /\ manifest' = manifest \/ manifest' = sidecar
    BY DEF Process, Resume, DeleteDocuments, Kill
  <1>2. /\ DOMAIN task' = DOMAIN NoTask
        /\ \/ task' = task
           \/ task'.rendered = Nothing /\ task'.queue = {}
    <2>1. CASE Process
      BY <2>1 DEF Process, KeyedInv, Shaped
    <2>2. CASE Resume \/ \E keys : DeleteDocuments(keys)
      BY <2>2 DEF Resume, DeleteDocuments, NoTask
    <2>3. CASE Kill
      BY <2>3 DEF Kill, NoTask
    <2> QED BY <2>1, <2>2, <2>3
  <1>3. Shaped'
    BY <1>1, <1>2 DEF KeyedInv, Shaped
  <1>4. DOMAIN Nothing = {}
    BY DEF Nothing
  <1>5. DocsKeyed'
    BY <1>1, <1>2, <1>4 DEF KeyedInv, DocsKeyed, Keyed, Contents
  <1> QED BY <1>3, <1>5 DEF KeyedInv

\* Every step keeps documents under keys that span their days, under any
\* failures.
LEMMA NextKeyed ==
  ASSUME KeyedInv, [Next]_vars
  PROVE  KeyedInv'
  <1>1. CASE UNCHANGED vars
    BY <1>1, SameKeyed DEF vars
  <1>2. CASE Next
    BY <1>2, EditKeyed, ScanKeyed, WipeKeyed, DiffKeyed, DeleteKeyed, EnqueueKeyed, ExtractKeyed,
       RememberKeyed, RestKeyed DEF Next
  <1> QED BY <1>1, <1>2

-----------------------------------------------------------------------------
(* No document key outlives its messages' window *)

RespansAll ==
  pc \in {"write", "process"} /\ task.kind = "build" /\ ~Prune =>
    task.respanned = Respanned(task.rendered)

\* A clean bounded build has deleted every document whose messages its render
\* indexes under other keys.
LEMMA FinishGhosts ==
  ASSUME MirrorInv, KeyedInv, RespansAll, NEW failed \in BOOLEAN, FinishBuild(failed)
  PROVE  NoGhosts'
  <1> DEFINE docs == task.rendered
  <1>1. /\ pc = "process" /\ task.kind = "build" /\ store' = store
        /\ task'.rendered = docs /\ task'.failed = (task.failed \/ failed)
    BY DEF FinishBuild, Processed, KeyedInv, Shaped, NoTask
  <1>2. SUFFICES ASSUME ~task'.failed, NEW k \in DOMAIN store \ DOMAIN docs,
                        DOMAIN store[k].content \subseteq Guids(docs)
                 PROVE  FALSE
    BY <1>1 DEF NoGhosts
  <1>3. task.undeleted = {} /\ Left = {} /\ task.queue = {}
    BY <1>1, <1>2 DEF MirrorInv, WriteInv, TaskInv, Left
  <1>4. Contents(store) = Expected
    BY <1>1 DEF MirrorInv, WriteInv
  <1>5. k \in DOMAIN manifest /\ k \notin Drop /\ store[k].content = manifest[k]
    <2>1. Done \subseteq DOMAIN docs /\ Gone = Changed(docs) \cup Drop
      BY <1>3 DEF Done, New, Changed, Gone
    <2>2. k \in DOMAIN Expected /\ store[k].content = Expected[k]
      BY <1>2, <1>4 DEF Contents
    <2> QED BY <1>2, <2>1, <2>2 DEF Expected
  <1>6. k \in Removed(docs)
    BY <1>2, <1>5 DEF Removed
  <1>7. DOMAIN manifest[k] # {}
    BY <1>5 DEF KeyedInv, DocsKeyed, Keyed
  <1> QED BY <1>1, <1>2, <1>5, <1>6, <1>7 DEF RespansAll, Drop, Respanned

\* Every step keeps it so.
LEMMA NextGhosts ==
  ASSUME MirrorInv, KeyedInv, RespansAll, NoGhosts, Survivable, [Next]_vars
  PROVE  RespansAll' /\ NoGhosts'
  <1>1. ASSUME UNCHANGED <<store, pc, task>>
        PROVE  NoGhosts'
    BY <1>1 DEF NoGhosts, Built
  <1>2. ASSUME pc' # "idle" \/ task'.kind # "build"
        PROVE  NoGhosts'
    BY <1>2 DEF NoGhosts, Built
  <1>3. ASSUME pc' \notin {"write", "process"} \/ task'.kind # "build"
        PROVE  RespansAll'
    BY <1>3 DEF RespansAll
  <1>4. ASSUME pc \in {"write", "process"}, manifest' = manifest,
               task'.kind = task.kind, task'.bound = task.bound,
               task'.respanned = task.respanned, task'.rendered = task.rendered
        PROVE  RespansAll'
    BY <1>4 DEF RespansAll, Prune, Respanned, Removed
  <1>5. CASE UNCHANGED vars
    BY <1>1, <1>5 DEF vars, RespansAll, Prune, Respanned, Removed
  <1>6. ASSUME NEW f \in 1..Files, NEW export \in Exports, Edit(f, export)
        PROVE  RespansAll' /\ NoGhosts'
    BY <1>1, <1>6 DEF Edit, RespansAll, Prune, Respanned, Removed
  <1>7. ASSUME NEW bound, NEW reingest, NEW unparsed, Scan(bound, reingest, unparsed)
        PROVE  RespansAll' /\ NoGhosts'
    BY <1>2, <1>3, <1>7 DEF Scan
  <1>8. ASSUME NEW entry, RemoveEntry(entry) \/ Reopen
        PROVE  RespansAll' /\ NoGhosts'
    BY <1>2, <1>3, <1>8 DEF RemoveEntry, Reopen
  <1>9. CASE Diff
    <2>1. /\ task'.rendered = task.rendered /\ task'.bound = task.bound /\ manifest' = manifest
          /\ pc' = "write"
          /\ task'.respanned = IF Prune THEN {} ELSE Respanned(task.rendered)
      BY <1>9 DEF Diff, KeyedInv, Shaped, NoTask
    <2>2. RespansAll'
      BY <2>1 DEF RespansAll, Prune, Respanned, Removed
    <2> QED BY <1>2, <2>1, <2>2
  <1>10. ASSUME NEW key, Delete(key) \/ Enqueue(key)
         PROVE  RespansAll' /\ NoGhosts'
    <2>1. /\ manifest' = manifest /\ pc = "write" /\ pc' = "write"
          /\ task'.kind = task.kind /\ task'.bound = task.bound
          /\ task'.respanned = task.respanned /\ task'.rendered = task.rendered
      BY <1>10 DEF Delete, Enqueue, KeyedInv, Shaped, NoTask
    <2> QED BY <1>2, <1>4, <2>1
  <1>11. ASSUME NEW k, Process \/ Extract(k)
         PROVE  RespansAll' /\ NoGhosts'
    BY <1>2, <1>4, <1>11 DEF Process, Extract
  <1>12. CASE Resume
    BY <1>2, <1>3, <1>12 DEF Resume, NoTask
  <1>13. ASSUME NEW keys, DeleteDocuments(keys)
         PROVE  RespansAll' /\ NoGhosts'
    BY <1>2, <1>3, <1>13 DEF DeleteDocuments, NoTask
  <1>14. ASSUME NEW failed \in BOOLEAN, FinishBuild(failed)
         PROVE  RespansAll' /\ NoGhosts'
    BY <1>3, <1>14, FinishGhosts DEF FinishBuild
  <1>15. (\E failed \in BOOLEAN : FinishResume(failed)) \/ FinishDelete
            => RespansAll' /\ NoGhosts'
    BY <1>2, <1>3 DEF FinishResume, FinishDelete
  <1>16. ~Kill
    BY DEF Kill, Fault, Survivable
  <1> QED BY <1>5, <1>6, <1>7, <1>8, <1>9, <1>10, <1>11, <1>12, <1>13, <1>14, <1>15, <1>16 DEF Next

\* Document keys do not pile up as a window moves: after a build that reports
\* no failure, every document left outside its render holds a message the
\* render does not (build() with its respanned documents) - for any windows,
\* limited ones too, and whatever earlier builds failed to delete or to parse.
THEOREM WindowsLeaveNoGhosts ==
  ASSUME Survivable
  PROVE  Spec => []NoGhosts
  <1>1. Init => RespansAll /\ NoGhosts
    BY DEF Init, RespansAll, NoGhosts, Built, NoTask
  <1>2. MirrorInv /\ [Next]_vars => MirrorInv'
    BY NextMirror
  <1>3. KeyedInv /\ [Next]_vars => KeyedInv'
    BY NextKeyed
  <1>4. MirrorInv /\ KeyedInv /\ RespansAll /\ NoGhosts /\ [Next]_vars => RespansAll' /\ NoGhosts'
    BY NextGhosts
  <1> QED BY <1>1, <1>2, <1>3, <1>4, InitMirror, InitKeyed, PTL DEF Spec

-----------------------------------------------------------------------------
(* A bounded build takes out only what is in its window *)

InWindow(m) == m \in Messages /\ task.bound.since <= DayOf[m]

\* A render holds the sources' messages of its window, and no others.
WindowKept ==
  /\ \A m \in Guids(task.rendered) : InWindow(m)
  /\ \A m \in task.sources : InWindow(m) => m \in Guids(task.rendered)

\* What is deleted starts within the window; what the graph held and does not
\* hold any more is of the window.
DeletesInWindow ==
  /\ task.bound.since \in Nat
  /\ task.sources \subseteq Messages
  /\ pc \in {"reset", "diff"} => task.held = {}
  /\ \A k \in task.stale : task.bound.since <= k[1]
  /\ \A m \in task.held : InWindow(m) \/ m \in Guids(Contents(store))

WindowInv == WindowKept /\ DeletesInWindow

\* Windows by date, of files that all parse.
WholeDayBuilds ==
  /\ "parse" \notin Faults
  /\ \A bound \in Bounds : bound.limit = 0

\* What has gone is of the window, so what is not of the window is still held.
LEMMA WindowSuffices == WindowInv => NeverDeletesUnrendered
  BY DEF WindowInv, WindowKept, DeletesInWindow, NeverDeletesUnrendered, InWindow

\* No build has begun.
LEMMA InitWindow == Init => WindowInv
  BY DEF Init, WindowInv, WindowKept, DeletesInWindow, NoTask, Guids, Nothing

\* A new task holds nothing yet, and renders its window of the sources.
LEMMA ScanWindow ==
  ASSUME KeyedInv, WholeDayBuilds,
         NEW bound \in Bounds, NEW reingest, NEW unparsed \in SUBSET (1..Files),
         Scan(bound, reingest, unparsed)
  PROVE  WindowInv'
  <1> DEFINE batches == Parsed(files, {})
  <1>1. unparsed = {}
    BY DEF Scan, Fault, WholeDayBuilds
  <1>2. /\ task'.rendered = Render(ApplyBounds(batches, bound))
        /\ task'.sources = UNION {DOMAIN files[f] : f \in 1..Files}
        /\ task'.bound = bound /\ task'.held = {} /\ task'.stale = {}
    BY <1>1 DEF Scan, NoTask
  <1>3. UNION {DOMAIN batches[f] : f \in DOMAIN batches} = task'.sources
    BY <1>2 DEF Parsed
  <1>4. task'.sources \subseteq Messages
    BY <1>2 DEF KeyedInv, Shaped, IsStream
  <1>5. IsCorpus(batches)
    BY ScansCorpus DEF KeyedInv
  <1>6. bound.limit = 0 /\ bound.since \in Nat
    BY GraphBuildAssumption DEF WholeDayBuilds
  <1> HIDE DEF batches
  <1>7. Guids(task'.rendered) = {m \in task'.sources : DayOf[m] >= bound.since}
    BY <1>2, <1>3, <1>5, <1>6, RenderInRange
  <1>8. \A m \in Messages : DayOf[m] \in Nat
    BY TranscriptsAssumption
  <1>9. WindowKept'
    BY <1>2, <1>4, <1>6, <1>7, <1>8 DEF WindowKept, InWindow, Guids
  <1> QED BY <1>2, <1>4, <1>6, <1>9 DEF WindowInv, DeletesInWindow

\* The documents to delete: those of the render's keys, and those recorded
\* with only messages the render has, or - unbounded - any.
LEMMA DiffWindow ==
  ASSUME KeyedInv, WindowInv, Diff
  PROVE  WindowInv'
  <1> DEFINE docs == task.rendered
             since == task.bound.since
  <1>1. /\ task'.rendered = docs /\ task'.bound = task.bound /\ task'.sources = task.sources
        /\ task'.stale = Changed(docs) \cup (IF Prune THEN Removed(docs) ELSE Respanned(docs))
        /\ task'.held = Guids(Contents(store)) /\ UNCHANGED <<store, manifest>>
        /\ pc' = "write"
    BY DEF Diff, KeyedInv, Shaped, NoTask
  <1>2. since \in Nat /\ \A m \in Messages : DayOf[m] \in Nat
    BY TranscriptsAssumption DEF WindowInv, DeletesInWindow
  <1>3. ASSUME NEW k \in task'.stale
        PROVE  since <= k[1]
    <2>1. CASE k \in DOMAIN docs
      <3>1. PICK m \in DOMAIN docs[k] : m \in Messages /\ DayOf[m] = k[1]
        BY <2>1 DEF KeyedInv, DocsKeyed, Keyed
      <3>2. InWindow(m)
        BY <2>1 DEF WindowInv, WindowKept, Guids
      <3> QED BY <3>1, <3>2 DEF InWindow
    <2>2. CASE k \notin DOMAIN docs
      <3>1. k \in Removed(docs) /\ (Prune \/ k \in Respanned(docs))
        BY <1>1, <2>2 DEF Changed, Respanned
      <3>2. PICK m \in DOMAIN manifest[k] : m \in Messages /\ DayOf[m] = k[1]
        BY <3>1 DEF Removed, KeyedInv, DocsKeyed, Keyed
      <3>3. CASE Prune
        <4>1. since = 0
          BY <3>3 DEF Prune, Bounded
        <4> QED BY <1>2, <3>2, <4>1
      <3>4. CASE k \in Respanned(docs)
        <4>1. m \in Guids(docs)
          BY <3>2, <3>4 DEF Respanned
        <4>2. InWindow(m)
          BY <4>1 DEF WindowInv, WindowKept
        <4> QED BY <3>2, <4>2 DEF InWindow
      <3> QED BY <3>1, <3>3, <3>4
    <2> QED BY <2>1, <2>2
  <1>4. WindowKept'
    BY <1>1 DEF WindowInv, WindowKept, InWindow
  <1>5. Contents(store)' = Contents(store)
    BY <1>1 DEF Contents
  <1>6. DeletesInWindow'
    BY <1>1, <1>3, <1>5 DEF WindowInv, DeletesInWindow
  <1> QED BY <1>4, <1>6 DEF WindowInv

\* A document deleted has only messages of the window: its key begins there.
LEMMA DeleteWindow ==
  ASSUME KeyedInv, WindowInv, NEW key \in task.stale, Delete(key)
  PROVE  WindowInv'
  <1>1. /\ task'.rendered = task.rendered /\ task'.bound = task.bound
        /\ task'.sources = task.sources /\ task'.held = task.held
        /\ task'.stale = task.stale \ {key} /\ pc' = "write"
        /\ store' = Without(store, {key}) \/ store' = store
    BY DEF Delete, KeyedInv, Shaped, NoTask
  <1>2. task.bound.since \in Nat /\ \A m \in Messages : DayOf[m] \in Nat
    BY TranscriptsAssumption DEF WindowInv, DeletesInWindow
  <1>3. ASSUME NEW m \in Guids(Contents(store)), m \notin Guids(Contents(store)')
        PROVE  InWindow(m)
    <2>1. PICK k \in DOMAIN store : m \in DOMAIN store[k].content
      BY DEF Guids, Contents
    <2>2. k = key
      <3>1. SUFFICES ASSUME k # key
                     PROVE  m \in Guids(Contents(store)')
        BY <1>3
      <3>2. k \in DOMAIN store' /\ store'[k] = store[k]
        BY <1>1, <3>1 DEF Without
      <3>3. k \in DOMAIN Contents(store)' /\ Contents(store)'[k] = store[k].content
        BY <3>2 DEF Contents
      <3> QED BY <2>1, <3>3 DEF Guids
    <2>3. key \in DOMAIN Contents(store) /\ m \in DOMAIN Contents(store)[key]
      BY <2>1, <2>2 DEF Contents
    <2>4. m \in Messages /\ key[1] <= DayOf[m]
      BY <2>3 DEF KeyedInv, DocsKeyed, Keyed, InSpan
    <2>5. task.bound.since <= key[1]
      BY DEF WindowInv, DeletesInWindow
    <2>6. key[1] \in Nat
      BY <1>2, <2>3 DEF KeyedInv, DocsKeyed, Keyed
    <2> QED BY <1>2, <2>4, <2>5, <2>6 DEF InWindow
  <1>4. WindowKept' /\ \A m : InWindow(m)' <=> InWindow(m)
    BY <1>1 DEF WindowInv, WindowKept, InWindow
  <1>5. DeletesInWindow'
    <2>1. \A m \in task'.held : InWindow(m)' \/ m \in Guids(Contents(store))'
      BY <1>1, <1>3, <1>4 DEF WindowInv, DeletesInWindow
    <2> QED BY <1>1, <2>1 DEF WindowInv, DeletesInWindow
  <1> QED BY <1>4, <1>5 DEF WindowInv

\* Nothing else takes a message out of the graph once a build has begun.
LEMMA StaysHeld ==
  ASSUME WindowInv,
         task'.rendered = task.rendered, task'.bound = task.bound,
         task'.sources = task.sources, task'.held = task.held, task'.stale \subseteq task.stale,
         task'.held = {} \/ Guids(Contents(store)) \subseteq Guids(Contents(store)'),
         pc' \in {"reset", "diff"} => task.held = {}
  PROVE  WindowInv'
  <1>1. WindowKept' /\ \A m : InWindow(m)' <=> InWindow(m)
    BY DEF WindowInv, WindowKept, InWindow
  <1>2. DeletesInWindow'
    BY <1>1 DEF WindowInv, DeletesInWindow
  <1> QED BY <1>1, <1>2 DEF WindowInv

\* A task that renders nothing has nothing of a window to keep.
LEMMA NoWindow ==
  ASSUME task'.bound = [since |-> 0, limit |-> 0], task'.rendered = Nothing,
         task'.sources = {}, task'.held = {},
         \A k \in task'.stale : k[1] \in Nat
  PROVE  WindowInv'
  <1>1. Guids(task'.rendered) = {}
    BY DEF Guids, Nothing
  <1>2. WindowKept'
    BY <1>1 DEF WindowKept, InWindow, Guids
  <1> QED BY <1>2 DEF WindowInv, DeletesInWindow

\* Every step keeps what lies outside the window in the graph.
LEMMA NextWindow ==
  ASSUME KeyedInv, WindowInv, WholeDayBuilds, [Next]_vars
  PROVE  WindowInv'
  <1>1. ASSUME UNCHANGED <<store, task>>, pc' \in {"reset", "diff"} => task.held = {}
        PROVE  WindowInv'
    BY <1>1, StaysHeld
  <1>2. pc \in {"reset", "diff"} => task.held = {}
    BY DEF WindowInv, DeletesInWindow
  <1>3. CASE UNCHANGED vars
    BY <1>1, <1>2, <1>3 DEF vars
  <1>4. ASSUME NEW f \in 1..Files, NEW export \in Exports, Edit(f, export)
        PROVE  WindowInv'
    BY <1>1, <1>2, <1>4 DEF Edit
  <1>5. ASSUME NEW entry, RemoveEntry(entry)
        PROVE  WindowInv'
    <2>1. /\ task'.rendered = task.rendered /\ task'.bound = task.bound
          /\ task'.sources = task.sources /\ task'.held = task.held /\ task'.stale = task.stale
          /\ pc = "reset" /\ pc' = pc
      BY <1>5 DEF RemoveEntry, KeyedInv, Shaped, NoTask
    <2> QED BY <1>2, <2>1, StaysHeld
  <1>6. CASE Reopen
    BY <1>1, <1>2, <1>6 DEF Reopen
  <1>7. ASSUME NEW chunk \in SUBSET task.queue, Enqueue(chunk)
        PROVE  WindowInv'
    <2>1. /\ task'.rendered = task.rendered /\ task'.bound = task.bound
          /\ task'.sources = task.sources /\ task'.held = task.held /\ task'.stale = task.stale
      BY <1>7 DEF Enqueue, KeyedInv, Shaped, NoTask
    <2>2. /\ pc' = "write"
          /\ \A k \in DOMAIN store : k \in DOMAIN store' /\ store'[k] = store[k]
      BY <1>7 DEF Enqueue, Offer
    <2>3. Guids(Contents(store)) \subseteq Guids(Contents(store)')
      BY <2>2 DEF Guids, Contents
    <2> QED BY <2>1, <2>2, <2>3, StaysHeld
  <1>8. ASSUME NEW k \in DOMAIN store, Extract(k)
        PROVE  WindowInv'
    <2>1. UNCHANGED <<task, pc>>
      BY <1>8 DEF Extract
    <2>2. Contents(store)' = Contents(store)
      <3>1. store' = [store EXCEPT ![k] = [store[k] EXCEPT !.extracted = TRUE]]
        BY <1>8 DEF Extract
      <3>2. store[k] = [content |-> store[k].content, extracted |-> store[k].extracted]
        BY DEF KeyedInv, Shaped
      <3>3. store'[k].content = store[k].content
        BY <3>1, <3>2
      <3>4. \A l \in DOMAIN store : store'[l].content = store[l].content
        BY <3>1, <3>3
      <3> QED BY <3>1, <3>4 DEF Contents
    <2> QED BY <1>2, <2>1, <2>2, StaysHeld
  <1>9. CASE Process
    BY <1>1, <1>9 DEF Process
  <1>10. CASE Resume
    <2>1. /\ task'.bound = [since |-> 0, limit |-> 0] /\ task'.rendered = Nothing
          /\ task'.sources = {} /\ task'.held = {} /\ task'.stale = {}
      BY <1>10 DEF Resume, NoTask
    <2> QED BY <2>1, NoWindow
  <1>11. CASE Kill
    <2>1. /\ task'.bound = [since |-> 0, limit |-> 0] /\ task'.rendered = Nothing
          /\ task'.sources = {} /\ task'.held = {} /\ task'.stale = {}
      BY <1>11 DEF Kill, NoTask
    <2> QED BY <2>1, NoWindow
  <1>12. ASSUME NEW key \in DOMAIN store \cup DOMAIN manifest, DeleteDocuments({key})
         PROVE  WindowInv'
    <2>1. /\ task'.bound = [since |-> 0, limit |-> 0] /\ task'.rendered = Nothing
          /\ task'.sources = {} /\ task'.held = {} /\ task'.stale = {key}
      BY <1>12 DEF DeleteDocuments, NoTask
    <2>2. key \in DOMAIN Contents(store) \/ key \in DOMAIN manifest
      BY DEF Contents
    <2>3. key[1] \in Nat
      BY <2>2, TranscriptsAssumption DEF KeyedInv, DocsKeyed, Keyed
    <2> QED BY <2>1, <2>3, NoWindow
  <1>13. ASSUME NEW failed \in BOOLEAN, FinishBuild(failed)
         PROVE  WindowInv'
    <2>1. /\ task'.rendered = task.rendered /\ task'.bound = task.bound
          /\ task'.sources = task.sources /\ task'.held = task.held /\ task'.stale = task.stale
          /\ store' = store /\ pc' = "idle"
      BY <1>13 DEF FinishBuild, KeyedInv, Shaped, NoTask
    <2> QED BY <2>1, StaysHeld
  <1>14. ASSUME NEW failed \in BOOLEAN, FinishResume(failed) \/ FinishDelete
         PROVE  WindowInv'
    BY <1>1, <1>14 DEF FinishResume, FinishDelete
  <1> QED BY <1>3, <1>4, <1>5, <1>6, <1>7, <1>8, <1>9, <1>10, <1>11, <1>12, <1>13, <1>14,
             ScanWindow, DiffWindow, DeleteWindow DEF Next

\* "A bounded build never deletes what it did not render": whatever fails and
\* whenever the process is killed or the workdir half wiped, a build by date
\* leaves in the graph every message it found there and in the sources that
\* its render left out (build(), respanned documents, apply_bounds).  Of a
\* message_limit, and of a file that does not parse, this is not true.
THEOREM BoundedBuildsKeepTheRest ==
  ASSUME WholeDayBuilds
  PROVE  Spec => []NeverDeletesUnrendered
  <1>1. KeyedInv /\ [Next]_vars => KeyedInv'
    BY NextKeyed
  <1>2. KeyedInv /\ WindowInv /\ [Next]_vars => WindowInv'
    BY NextWindow
  <1> QED BY <1>1, <1>2, InitKeyed, InitWindow, WindowSuffices, PTL DEF Spec
=============================================================================
