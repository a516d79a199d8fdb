--------------------------- MODULE Presence_proofs ---------------------------
(***************************************************************************)
(* Proofs about Presence, for any number of guns and piles.                *)
(*                                                                         *)
(* The index is always in front of the first gun of a pile, because the    *)
(* guns of a pile stand together. A gun that answers is counted from its   *)
(* last answer; the ticks since then are the piles that were polled since  *)
(* then, and one round has as many as there are piles.                     *)
(***************************************************************************)
EXTENDS Presence, FiniteSetTheorems, TLAPS

-----------------------------------------------------------------------------
(* The guns of a pile *)

\* The index of a poll is in front of the first gun of a pile.
AtHead(i) ==
  /\ i \in 0 .. Size - 1
  /\ i # 0 => PileOf[i] # PileAt(i)

\* From there a poll reaches the guns up to the next pile.
LEMMA PolledInterval ==
  ASSUME AtHead(currIndex)
  PROVE  \E b \in Guns :
           /\ Polled = currIndex + 1 .. b
           /\ b > currIndex
           /\ NextIndex = IF b = Size THEN 0 ELSE b
           /\ b # Size => PileOf[b + 1] # PileOf[b]
<1> DEFINE pile == PileAt(currIndex)
<1>1. currIndex + 1 \in Guns /\ currIndex \in Nat /\ Size \in Nat
  BY SizeAssumption DEF AtHead, Guns
<1>2. pile \in Piles /\ pile = PileOf[currIndex + 1]
  BY <1>1 DEF PileAt, Piles
<1>3. PICK a \in Guns, b \in Guns : GunsOf(pile) = a .. b
  BY <1>2, PileAssumption
<1>4. a \in Nat /\ b \in Nat /\ 1 <= a /\ b <= Size
  BY <1>1 DEF Guns
<1>5. currIndex + 1 \in a .. b
  BY <1>1, <1>2, <1>3 DEF GunsOf
<1>6. a = currIndex + 1
  <2>1. CASE currIndex = 0
    BY <1>4, <1>5, <2>1
  <2>2. CASE currIndex # 0
    <3>1. currIndex \notin GunsOf(pile)
      BY <2>2 DEF AtHead, GunsOf
    <3> QED
      BY <1>1, <1>3, <1>4, <1>5, <3>1
  <2> QED
    BY <2>1, <2>2
<1>7. Polled = currIndex + 1 .. b
  BY <1>3, <1>6 DEF Polled
<1>8. Cardinality(Polled) = b - currIndex
  BY <1>1, <1>4, <1>5, <1>7, FS_Interval
<1>9. NextIndex = IF b = Size THEN 0 ELSE b
  BY <1>1, <1>4, <1>8 DEF NextIndex
<1>10. ASSUME b # Size PROVE PileOf[b + 1] # PileOf[b]
  <2>1. b + 1 \in Guns /\ b + 1 \notin a .. b /\ b \in a .. b
    BY <1>1, <1>4, <1>5, <1>10 DEF Guns
  <2> QED
    BY <1>3, <2>1 DEF GunsOf
<1>11. b > currIndex
  BY <1>1, <1>4, <1>5
<1> QED
  BY <1>7, <1>9, <1>10, <1>11

\* The next poll begins at a pile again.
LEMMA NextAtHead == AtHead(currIndex) => AtHead(NextIndex)
<1> SUFFICES ASSUME AtHead(currIndex) PROVE AtHead(NextIndex)
  OBVIOUS
<1>1. PICK b \in Guns : /\ NextIndex = IF b = Size THEN 0 ELSE b
                        /\ b # Size => PileOf[b + 1] # PileOf[b]
  BY PolledInterval
<1> QED
  BY <1>1, SizeAssumption DEF AtHead, Guns, PileAt

-----------------------------------------------------------------------------
(* Types *)

\* Every step keeps the types, and the index in front of a pile.
LEMMA TypeNext == TypeOK /\ [Next]_vars => TypeOK'
<1> SUFFICES ASSUME TypeOK, [Next]_vars PROVE TypeOK'
  OBVIOUS
<1>1. CASE Tick
  <2>1. AtHead(currIndex) /\ currIndex' = NextIndex
    BY <1>1 DEF Tick, TypeOK, AtHead
  <2>2. currIndex' \in 0 .. Size - 1 /\ (currIndex' # 0 => PileOf[currIndex'] # PileAt(currIndex'))
    BY <2>1, NextAtHead DEF AtHead
  <2>3. m_dCounts' \in [Guns -> 0 .. OfflineLimit + 1]
    BY <1>1, LimitAssumption DEF Tick, UpdateCounts, Counted, TypeOK
  <2>4. m_bConnectedToPile' \in SUBSET Guns
    BY <1>1 DEF Tick, UpdateCounts, TypeOK
  <2>5. Polled \subseteq Guns
    BY DEF Polled, GunsOf
  <2>6. /\ owes' \in SUBSET Guns /\ missed' \in SUBSET Guns
        /\ m_bGetMsg' \in BOOLEAN /\ m_bOnline' = m_bOnline /\ power' = power
    BY <1>1, <2>5 DEF Tick, TypeOK
  <2> QED
    BY <2>2, <2>3, <2>4, <2>6 DEF TypeOK, PileAt
<1>2. ASSUME NEW g \in Guns, Heard(g), owes' \in SUBSET Guns PROVE TypeOK'
  <2>1. m_dCounts' \in [Guns -> 0 .. OfflineLimit + 1]
    BY <1>2, LimitAssumption DEF Heard, TypeOK
  <2> QED
    BY <1>2, <2>1 DEF Heard, TypeOK, PileAt
<1>3. ASSUME NEW g \in Guns, Answer(g) PROVE TypeOK'
  BY <1>2, <1>3 DEF Answer, TypeOK
<1>4. ASSUME NEW g \in Guns, OtherFrame(g) PROVE TypeOK'
  BY <1>2, <1>4 DEF OtherFrame, TypeOK
<1>5. ASSUME NEW g \in Guns, PowerFails(g) \/ PowerReturns(g) PROVE TypeOK'
  BY <1>5 DEF PowerFails, PowerReturns, TypeOK, PileAt
<1>6. CASE PlatformHeartbeat \/ PlatformLost
  BY <1>6 DEF PlatformHeartbeat, PlatformLost, TypeOK, PileAt
<1>7. CASE UNCHANGED vars
  BY <1>7 DEF vars, TypeOK, PileAt
<1> QED
  BY <1>1, <1>3, <1>4, <1>5, <1>6, <1>7 DEF Next

\* Initially every variable has its type.
LEMMA TypeInit == Init => TypeOK
<1> SUFFICES ASSUME Init PROVE TypeOK
  OBVIOUS
<1>1. currIndex = 0 /\ 0 \in 0 .. Size - 1
  BY SizeAssumption DEF Init
<1>2. m_dCounts \in [Guns -> 0 .. OfflineLimit + 1]
  BY LimitAssumption DEF Init
<1> QED
  BY <1>1, <1>2 DEF Init, TypeOK

\* The poll goes on from pile to pile, whatever the numbers of their guns.
THEOREM PresenceTypeCorrect == Spec => []TypeOK
BY TypeInit, TypeNext, PTL DEF Spec

-----------------------------------------------------------------------------
(* The polls of a round *)

\* The first gun of each pile.
Heads == {h \in Guns : h = 1 \/ PileOf[h - 1] # PileOf[h]}

\* How many piles begin at or before the gun i: if i is currIndex, how many
\* were polled in this round.
Rank(i) == Cardinality({h \in Heads : h <= i})

Round == Cardinality(Heads)

\* Heads are guns, and guns are finitely many.
LEMMA HeadsFinite ==
  /\ IsFiniteSet(Heads) /\ Round \in Nat
  /\ \A i \in Nat : IsFiniteSet({h \in Heads : h <= i}) /\ Rank(i) \in Nat
<1>1. IsFiniteSet(Guns)
  BY FS_Interval, SizeAssumption DEF Guns
<1>2. Heads \subseteq Guns
  BY DEF Heads
<1>3. IsFiniteSet(Heads)
  BY <1>1, <1>2, FS_Subset
<1>4. ASSUME NEW i \in Nat
      PROVE  IsFiniteSet({h \in Heads : h <= i})
  <2>1. {h \in Heads : h <= i} \in SUBSET Heads
    OBVIOUS
  <2> QED
    BY <1>3, <2>1, FS_Subset
<1> QED
  BY <1>3, <1>4, FS_CardinalityType DEF Round, Rank

\* No pile has two first guns, so that a round is not longer than OfflineLimit.
LEMMA RoundLength == Round <= OfflineLimit
<1> DEFINE first == [h \in Heads |-> PileOf[h]]
<1>1. IsFiniteSet(Piles)
  <2>1. IsFiniteSet(Guns)
    BY FS_Interval, SizeAssumption DEF Guns
  <2>2. first \in [Heads -> Piles]
    BY DEF Heads, Piles
  <2>3. \A pile \in Piles : \E g \in Guns : PileOf[g] = pile
    BY DEF Piles
  <2> DEFINE f == [g \in Guns |-> PileOf[g]]
  <2>4. f \in Surjection(Guns, Piles)
    BY <2>3 DEF Piles, Surjection
  <2> QED
    BY <2>1, <2>4, FS_Surjection
<1>2. first \in [Heads -> Piles]
  BY DEF Heads, Piles
<1>3. ASSUME NEW h \in Heads, NEW k \in Heads, h < k
      PROVE  first[h] # first[k]
  <2>1. SUFFICES ASSUME PileOf[h] = PileOf[k] PROVE FALSE
    OBVIOUS
  <2>2. h \in Guns /\ k \in Guns /\ k # 1 /\ k - 1 \in Guns /\ h <= k - 1
    BY <1>3, SizeAssumption DEF Heads, Guns
  <2>3. PileOf[h] \in Piles
    BY <2>2 DEF Piles
  <2>4. PICK a \in Guns, b \in Guns : GunsOf(PileOf[h]) = a .. b
    BY <2>3, PileAssumption
  <2>5. h \in a .. b /\ k \in a .. b
    BY <2>1, <2>2, <2>4 DEF GunsOf
  <2>6. k - 1 \in a .. b
    BY <2>2, <2>4, <2>5, SizeAssumption DEF Guns
  <2>7. PileOf[k - 1] = PileOf[k]
    BY <2>1, <2>4, <2>6 DEF GunsOf
  <2> QED
    BY <2>2, <2>7 DEF Heads
<1>4. \A h, k \in Heads : first[h] = first[k] => h = k
  <2> SUFFICES ASSUME NEW h \in Heads, NEW k \in Heads, first[h] = first[k], h # k
               PROVE  FALSE
    OBVIOUS
  <2>1. h < k \/ k < h
    BY SizeAssumption DEF Heads, Guns
  <2> QED
    BY <1>3, <2>1
<1>5. first \in Injection(Heads, Piles)
  BY <1>2, <1>4 DEF Injection, IsInjective
<1>6. Round <= Cardinality(Piles)
  BY <1>1, <1>5, FS_Injection DEF Round
<1> QED
  BY <1>1, <1>6, FS_CardinalityType, HeadsFinite, LimitAssumption

\* Ranks grow with the index and end with the length of the round.
LEMMA RankFacts ==
  /\ \A i \in Nat : Rank(i) <= Round
  /\ \A i, j \in Nat : i <= j => Rank(i) <= Rank(j)
  /\ Rank(0) = 0
  /\ Rank(Size) = Round
<1>1. ASSUME NEW i \in Nat PROVE Rank(i) <= Round
  <2>1. {h \in Heads : h <= i} \in SUBSET Heads
    OBVIOUS
  <2> QED
    BY <2>1, HeadsFinite, FS_Subset DEF Rank, Round
<1>2. ASSUME NEW i \in Nat, NEW j \in Nat, i <= j PROVE Rank(i) <= Rank(j)
  <2>1. {h \in Heads : h <= i} \in SUBSET {h \in Heads : h <= j}
    BY <1>2 DEF Heads, Guns
  <2> QED
    BY <2>1, HeadsFinite, FS_Subset DEF Rank
<1>3. Rank(0) = 0
  <2>1. {h \in Heads : h <= 0} = {}
    BY DEF Heads, Guns
  <2> QED
    BY <2>1, FS_EmptySet DEF Rank
<1>4. Rank(Size) = Round
  <2>1. {h \in Heads : h <= Size} = Heads
    BY SizeAssumption DEF Heads, Guns
  <2> QED
    BY <2>1 DEF Rank, Round
<1> QED
  BY <1>1, <1>2, <1>3, <1>4

\* A poll is one step of the round.
LEMMA PollRank ==
  ASSUME AtHead(currIndex)
  PROVE  \E b \in Guns :
           /\ Polled = currIndex + 1 .. b
           /\ b > currIndex
           /\ NextIndex = IF b = Size THEN 0 ELSE b
           /\ Rank(b) = Rank(currIndex) + 1
           /\ \A g \in Polled : Rank(g) = Rank(b)
<1>0. currIndex + 1 \in Guns /\ currIndex \in Nat /\ Size \in Nat
  BY SizeAssumption DEF AtHead, Guns
<1>1. PICK b \in Guns : /\ Polled = currIndex + 1 .. b
                        /\ b > currIndex
                        /\ NextIndex = IF b = Size THEN 0 ELSE b
  BY PolledInterval
<1> DEFINE before == {h \in Heads : h <= currIndex}
<1>2. currIndex + 1 \in Heads
  BY <1>0 DEF AtHead, Heads, PileAt
<1>3. ASSUME NEW h \in Polled, h # currIndex + 1
      PROVE  h \notin Heads
  <2>1. h - 1 \in Polled /\ h # 1
    BY <1>0, <1>1, <1>3 DEF Guns
  <2> QED
    BY <1>3, <2>1 DEF Polled, GunsOf, Heads
<1>4. ASSUME NEW g \in Polled
      PROVE  Rank(g) = Rank(currIndex) + 1
  <2>1. {h \in Heads : h <= g} = before \union {currIndex + 1}
    <3>1. ASSUME NEW h \in Heads
          PROVE  h <= g <=> h <= currIndex \/ h = currIndex + 1
      <4>1. h \in Nat /\ g \in Nat /\ currIndex + 1 <= g /\ g <= b /\ b \in Nat
        BY <1>0, <1>1 DEF Heads, Guns
      <4>2. h > currIndex + 1 => h > b
        BY <1>0, <1>1, <1>3, <4>1
      <4> QED
        BY <1>0, <4>1, <4>2
    <3> QED
      BY <1>2, <3>1
  <2>2. currIndex + 1 \notin before /\ IsFiniteSet(before)
    BY <1>0, HeadsFinite
  <2> QED
    BY <2>1, <2>2, FS_AddElement DEF Rank
<1>5. b \in Polled
  BY <1>0, <1>1 DEF Guns
<1> QED
  BY <1>1, <1>4, <1>5

-----------------------------------------------------------------------------
(* Answers *)

\* Why a gun that answers is not counted for too long: since it was heard last
\* only the piles between it and the index were polled.
Counts(g) ==
  /\ g \in m_bConnectedToPile
  /\ g \notin owes =>
       m_dCounts[g] + Rank(g) <= Rank(currIndex) + (IF g > currIndex THEN Round ELSE 0)

AnswerInv == \A g \in Guns \ missed : Counts(g)

\* A gun that is heard is counted from there.
LEMMA HeardCounts ==
  ASSUME TypeOK, AnswerInv, NEW g \in Guns, Heard(g), owes' \in {owes, owes \ {g}}
  PROVE  AnswerInv'
<1> SUFFICES ASSUME NEW k \in Guns, k \notin missed'
             PROVE  Counts(k)'
  BY DEF AnswerInv
<1>1. currIndex' = currIndex /\ currIndex \in Nat
  BY DEF Heard, TypeOK
<1>2. CASE k = g
  <2>1. m_dCounts'[k] = 0 /\ k \in m_bConnectedToPile'
    BY <1>2 DEF Heard, TypeOK
  <2>2. /\ Rank(k) \in Nat /\ Rank(currIndex) \in Nat /\ Round \in Nat
        /\ Rank(k) <= Round /\ (k <= currIndex => Rank(k) <= Rank(currIndex))
    <3>1. k \in Nat /\ currIndex \in Nat
      BY <1>1 DEF Guns
    <3>2. Rank(k) \in Nat /\ Rank(currIndex) \in Nat /\ Round \in Nat
      BY <3>1, HeadsFinite
    <3> QED
      BY <3>1, <3>2, RankFacts
  <2> QED
    BY <1>1, <2>1, <2>2 DEF Counts, Guns
<1>3. CASE k # g
  <2>1. k \notin missed /\ Counts(k)
    BY <1>3 DEF Heard, AnswerInv
  <2>2. /\ m_dCounts'[k] = m_dCounts[k] /\ (k \in owes' <=> k \in owes)
        /\ k \in m_bConnectedToPile'
    BY <1>3, <2>1 DEF Heard, TypeOK, Counts
  <2> QED
    BY <1>1, <2>1, <2>2 DEF Counts
<1> QED
  BY <1>2, <1>3

\* A tick counts a gun that has answered one further, and leaves it on line.
LEMMA TickCounts ==
  ASSUME TypeOK, AnswerInv, Tick, NEW g \in Guns, g \notin missed'
  PROVE  Counts(g)'
<1>1. AtHead(currIndex) /\ currIndex' = NextIndex
  BY DEF Tick, TypeOK, AtHead
<1>2. PICK b \in Guns :
        /\ Polled = currIndex + 1 .. b
        /\ b > currIndex
        /\ NextIndex = IF b = Size THEN 0 ELSE b
        /\ Rank(b) = Rank(currIndex) + 1
        /\ \A k \in Polled : Rank(k) = Rank(b)
  BY <1>1, PollRank
<1>3. g \notin missed /\ g \notin owes
  BY DEF Tick
<1> DEFINE rest == IF g > currIndex THEN Round ELSE 0
<1>4. /\ g \in m_bConnectedToPile
      /\ m_dCounts[g] + Rank(g) <= Rank(currIndex) + rest
  BY <1>3 DEF AnswerInv, Counts
<1>5. /\ g \in Nat /\ b \in Nat /\ currIndex \in Nat /\ Size \in Nat
      /\ b <= Size /\ 1 <= g /\ m_dCounts[g] \in Nat
  BY SizeAssumption DEF Guns, TypeOK
<1>6. /\ Rank(g) \in Nat /\ Rank(b) \in Nat /\ Rank(currIndex) \in Nat /\ Round \in Nat
      /\ OfflineLimit \in Nat
  BY <1>5, HeadsFinite, LimitAssumption
<1>7. /\ Rank(b) <= Round /\ Round <= OfflineLimit
      /\ Rank(Size) = Round /\ Rank(0) = 0
      /\ g > currIndex => Rank(b) <= Rank(g)
  <2>1. g > currIndex => Rank(b) <= Rank(g)
    <3>1. CASE g \in Polled
      BY <1>2, <1>6, <3>1
    <3>2. CASE g > currIndex /\ g \notin Polled
      BY <1>2, <1>5, <3>2, RankFacts
    <3> QED
      BY <3>1, <3>2
  <2> QED
    BY <1>5, <2>1, RankFacts, RoundLength
<1>8. m_dCounts[g] + 1 <= OfflineLimit
  BY <1>2, <1>4, <1>5, <1>6, <1>7
<1>9. m_dCounts'[g] = m_dCounts[g] + 1 /\ g \in m_bConnectedToPile'
  BY <1>4, <1>5, <1>6, <1>8 DEF Tick, UpdateCounts, Counted, TooLong, TypeOK
<1>10. ASSUME g \notin owes'
       PROVE  m_dCounts'[g] + Rank(g)
                <= Rank(currIndex') + (IF g > currIndex' THEN Round ELSE 0)
  <2>1. g <= currIndex \/ g > b
    BY <1>2, <1>5, <1>10 DEF Tick
  <2>2. CASE b = Size
    <3>1. currIndex' = 0 /\ g <= currIndex /\ g > 0
      BY <1>1, <1>2, <1>5, <2>1, <2>2 DEF Guns
    <3>2. m_dCounts[g] + Rank(g) <= Rank(currIndex)
      BY <1>4, <1>5, <1>6, <3>1
    <3>3. Rank(currIndex) + 1 <= Round
      BY <1>2, <1>6, <1>7
    <3> HIDE DEF rest
    <3>4. m_dCounts[g] + 1 + Rank(g) <= Rank(0) + Round
      BY <1>5, <1>6, <1>7, <3>2, <3>3
    <3> QED
      BY <1>9, <3>1, <3>4
  <2>3. CASE b # Size
    BY <1>1, <1>2, <1>4, <1>5, <1>6, <1>7, <1>9, <2>1, <2>3
  <2> QED
    BY <2>2, <2>3
<1> QED
  BY <1>9, <1>10 DEF Counts

\* Every step keeps the counts of the guns that answer.
LEMMA AnswerNext == TypeOK /\ AnswerInv /\ [Next]_vars => AnswerInv'
<1> SUFFICES ASSUME TypeOK, AnswerInv, [Next]_vars PROVE AnswerInv'
  OBVIOUS
<1>1. CASE Tick
  BY <1>1, TickCounts DEF AnswerInv
<1>2. ASSUME NEW g \in Guns, Answer(g) PROVE AnswerInv'
  BY <1>2, HeardCounts DEF Answer
<1>3. ASSUME NEW g \in Guns, OtherFrame(g) PROVE AnswerInv'
  BY <1>3, HeardCounts DEF OtherFrame
<1>4. ASSUME UNCHANGED <<currIndex, m_dCounts, m_bConnectedToPile, owes, missed>>
      PROVE  AnswerInv'
  BY <1>4 DEF AnswerInv, Counts
<1>5. ASSUME NEW g \in Guns, PowerFails(g) \/ PowerReturns(g) PROVE AnswerInv'
  BY <1>4, <1>5 DEF PowerFails, PowerReturns
<1>6. CASE PlatformHeartbeat \/ PlatformLost
  BY <1>4, <1>6 DEF PlatformHeartbeat, PlatformLost
<1>7. CASE UNCHANGED vars
  BY <1>4, <1>7 DEF vars
<1> QED
  BY <1>1, <1>2, <1>3, <1>5, <1>6, <1>7 DEF Next

\* A report says of a pile that answers that it is on line.
AnsweringStep ==
  m_bGetMsg /\ ~m_bGetMsg' =>
    \A pile \in Piles :
      GunsOf(pile) \intersect missed' = {} => pile \in OnLineArr' \ UnonLineArr'

\* Only a tick reports, and it finds the guns of the pile on line.
LEMMA ReportStep ==
  ASSUME TypeOK, AnswerInv, [Next]_vars
  PROVE  AnsweringStep
<1> SUFFICES ASSUME m_bGetMsg, ~m_bGetMsg', NEW pile \in Piles,
                    GunsOf(pile) \intersect missed' = {}
             PROVE  pile \in OnLineArr' \ UnonLineArr'
  BY DEF AnsweringStep
<1>1. Tick
  BY DEF Next, Answer, OtherFrame, Heard, PowerFails, PowerReturns, PlatformHeartbeat,
         PlatformLost, vars
<1>2. \A g \in GunsOf(pile) : g \in m_bConnectedToPile'
  BY <1>1, TickCounts DEF GunsOf, Counts
<1>3. PICK g \in Guns : PileOf[g] = pile
  BY DEF Piles
<1>4. g \in m_bConnectedToPile'
  BY <1>2, <1>3 DEF GunsOf
<1>5. pile \in OnLineArr'
  BY <1>3, <1>4 DEF OnLineArr
<1>6. pile \notin UnonLineArr'
  BY <1>2 DEF UnonLineArr, GunsOf
<1> QED
  BY <1>5, <1>6

\* With no more piles than ticks until a gun counts as off line, a pile that
\* answers every heartbeat is only ever reported as on line.
THEOREM AnsweringPilesListed == Spec => AnsweringListed
<1>1. Init => AnswerInv
  BY DEF Init, AnswerInv
<1>2. TypeOK /\ AnswerInv /\ [Next]_vars => AnsweringStep
  BY ReportStep
<1>3. TypeOK /\ AnswerInv /\ [Next]_vars => AnswerInv'
  BY AnswerNext
<1> QED
  BY <1>1, <1>2, <1>3, PresenceTypeCorrect, PTL DEF Spec, AnsweringListed, AnsweringStep
=============================================================================
