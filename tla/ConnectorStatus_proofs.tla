------------------------ MODULE ConnectorStatus_proofs ------------------------
(***************************************************************************)
(* Proofs about ConnectorStatus, for every set of states and parts and     *)
(* every number of charges.                                                *)
(*                                                                         *)
(* WholeMessage is not inductive by itself: a part that is marked in the   *)
(* mask has a measurement, which is what the clearing of both keeps.       *)
(***************************************************************************)
EXTENDS ConnectorStatus, TLAPS

\* A marked part has a measurement.
MarkedHasValue == \A p \in Parts : p \in mRecv => value[p] # 0

IInv == TypeOK /\ IdleHeardForgotten /\ WholeMessage /\ MarkedHasValue

-----------------------------------------------------------------------------
\* Facts about the parts that all steps need.
LEMMA PartsFacts ==
  /\ Required \subseteq Parts
  /\ "0885" \notin Parts
  /\ \A p \in Parts : p # "0885" /\ p # "startSoc"
BY PartsAssumption DEF Parts

\* The initial states satisfy the inductive invariant.
LEMMA InitInv == Init => IInv
<1>. SUFFICES ASSUME Init
              PROVE  IInv
  OBVIOUS
<1>1. /\ charge = 1 /\ m_dStartSoc = 0 /\ idleHeard = 0 /\ value = Cleared
      /\ pileState \in States /\ plugged \in BOOLEAN
      /\ mRecv = {} /\ missing = {} /\ late = {} /\ connectorState = FALSE
      /\ chargerState = Offline
  BY DEF Init
<1>2. /\ charge \in 1 .. MaxCharges /\ 0 \in 0 .. charge
      /\ value \in [Parts -> 0 .. charge]
  BY <1>1, BoundAssumption DEF Cleared
<1>3. TypeOK
  BY <1>1, <1>2 DEF TypeOK
<1>. QED
  BY <1>1, <1>3 DEF IInv, IdleHeardForgotten, WholeMessage, MarkedHasValue, Cleared

\* SendIfComplete, with parts that all have measurements, keeps the mask and
\* the messages right.
LEMMA SendIfCompleteInv ==
  ASSUME TypeOK, WholeMessage, NEW received \in SUBSET (Parts \union {"0885"}),
         value' \in [Parts -> Nat],
         \A p \in Parts : p \in received => value'[p] # 0,
         SendIfComplete(received)
  PROVE  /\ mRecv' \in SUBSET (Parts \union {"0885"})
         /\ ~(Required \union {"0885"} \subseteq mRecv')
         /\ missing' \in SUBSET Required
         /\ WholeMessage'
         /\ MarkedHasValue'
<1>1. CASE Required \union {"0885"} \subseteq received
  <2>1. mRecv' = {} /\ missing' = {p \in Required : value'[p] = 0}
    BY <1>1 DEF SendIfComplete, PackChargingMsg
  <2>2. missing' = {}
    BY <1>1, <2>1, PartsFacts
  <2>. QED  BY <2>1, <2>2 DEF WholeMessage, MarkedHasValue
<1>2. CASE ~(Required \union {"0885"} \subseteq received)
  <2>1. mRecv' = received /\ missing' = missing
    BY <1>2 DEF SendIfComplete
  <2>. QED  BY <1>2, <2>1 DEF TypeOK, WholeMessage, MarkedHasValue
<1>. QED  BY <1>1, <1>2

\* Every step keeps the inductive invariant.
LEMMA StepInv == IInv /\ [Next]_vars => IInv'
<1>. SUFFICES ASSUME IInv, [Next]_vars
              PROVE  IInv'
  OBVIOUS
<1>. USE StatesAssumption, BoundAssumption, PartsFacts
<1>a. TypeOK /\ IdleHeardForgotten /\ WholeMessage /\ MarkedHasValue
  BY DEF IInv
<1>b. charge \in Nat /\ idleHeard \in Nat /\ idleHeard <= charge /\ m_dStartSoc \in Nat
  BY <1>a DEF TypeOK
<1>1. ASSUME NEW s \in States, PileChanges(s)
      PROVE  IInv'
  <2>1. charge' \in Nat /\ charge <= charge' /\ charge' <= MaxCharges
    BY <1>1, <1>a, <1>b DEF PileChanges, TypeOK
  <2>3. TypeOK'
    <3>1. value' \in [Parts -> 0 .. charge'] /\ m_dStartSoc' \in 0 .. charge'
      BY <1>1, <1>a, <2>1 DEF PileChanges, TypeOK
    <3>. QED  BY <1>1, <1>a, <1>b, <2>1, <3>1 DEF PileChanges, TypeOK
  <2>. QED
    BY <1>1, <1>a, <2>3
    DEF PileChanges, IInv, IdleHeardForgotten, WholeMessage, MarkedHasValue
<1>2. ASSUME PlugMoves
      PROVE  IInv'
  BY <1>2, <1>a
  DEF PlugMoves, IInv, TypeOK, IdleHeardForgotten, WholeMessage, MarkedHasValue
<1>3. ASSUME NEW p \in Parts, NEW c \in 1 .. charge, DataFrame(p, c)
      PROVE  IInv'
  <2>1. /\ c \in Nat /\ c # 0 /\ c <= charge
        /\ value' = [value EXCEPT ![p] = c]
        /\ UNCHANGED <<pileState, plugged, charge, chargerState, connectorState, idleHeard>>
    BY <1>3, <1>b DEF DataFrame, pileVars
  <2>2. value' \in [Parts -> 0 .. charge]
    BY <1>a, <1>b, <2>1 DEF TypeOK
  <2>3. \A q \in Parts : q \in mRecv \union {p} => value'[q] # 0
    BY <1>a, <1>b, <2>1 DEF MarkedHasValue, TypeOK
  <2>4. m_dStartSoc' = m_dStartSoc \/ m_dStartSoc' = c
    BY <1>3 DEF DataFrame, StartSoc
  <2>5. mRecv \union {p} \in SUBSET (Parts \union {"0885"})
    BY <1>a DEF TypeOK
  <2>6. SendIfComplete(mRecv \union {p})
    BY <1>3 DEF DataFrame
  <2>7. value' \in [Parts -> Nat]
    BY <2>2, <1>b
  <2>8. /\ mRecv' \in SUBSET (Parts \union {"0885"})
        /\ ~(Required \union {"0885"} \subseteq mRecv')
        /\ missing' \in SUBSET Required
        /\ WholeMessage'
        /\ MarkedHasValue'
    BY <1>a, <2>3, <2>5, <2>6, <2>7, SendIfCompleteInv
  <2>9. /\ late' \in SUBSET (Parts \union {"startSoc"})
        /\ c <= idleHeard => p \in late'
        /\ c <= idleHeard /\ m_dStartSoc' # m_dStartSoc => "startSoc" \in late'
        /\ \A q \in Parts : q # p /\ q \in late => q \in late'
        /\ m_dStartSoc' = m_dStartSoc /\ "startSoc" \in late => "startSoc" \in late'
    <3>. DEFINE set == {p} \union (IF m_dStartSoc' # m_dStartSoc THEN {"startSoc"} ELSE {})
    <3>1. late' = IF c <= idleHeard THEN late \union set ELSE late \ set
      BY <1>3 DEF DataFrame
    <3>2. late \in SUBSET (Parts \union {"startSoc"})
      BY <1>a DEF TypeOK
    <3>3. /\ p \in set /\ set \subseteq {p, "startSoc"}
          /\ "startSoc" \in set <=> m_dStartSoc' # m_dStartSoc
      BY PartsFacts
    <3>4. \A q \in Parts : q # p => q \notin set
      BY PartsFacts
    <3>. HIDE DEF set
    <3>5. CASE c <= idleHeard
      <4>1. late' = late \union set
        BY <3>1, <3>5
      <4>. QED  BY <3>2, <3>3, <3>5, <4>1
    <3>6. CASE ~(c <= idleHeard)
      <4>1. late' = late \ set
        BY <3>1, <3>6
      <4>. QED  BY <3>2, <3>3, <3>4, <3>6, <4>1
    <3>. QED  BY <3>5, <3>6
  <2>10. TypeOK'
    BY <1>a, <1>b, <2>1, <2>2, <2>4, <2>8, <2>9 DEF TypeOK
  <2>11. IdleHeardForgotten'
    <3>1. \A q \in Parts : value'[q] # 0 => value'[q] > idleHeard \/ q \in late'
      BY <1>a, <1>b, <2>1, <2>9 DEF IdleHeardForgotten, TypeOK
    <3>2. m_dStartSoc' # 0 => m_dStartSoc' > idleHeard \/ "startSoc" \in late'
      BY <1>a, <1>b, <2>1, <2>4, <2>9 DEF IdleHeardForgotten, TypeOK
    <3>. QED  BY <2>1, <3>1, <3>2 DEF IdleHeardForgotten
  <2>. QED  BY <2>8, <2>10, <2>11 DEF IInv
<1>4. ASSUME HeartbeatSame
      PROVE  IInv'
  <2>1. UNCHANGED <<pileState, plugged, charge, chargerState, connectorState, value,
                    m_dStartSoc, idleHeard, late>>
    BY <1>4 DEF HeartbeatSame, pileVars
  <2>2. SendIfComplete(mRecv \union {"0885"})
    BY <1>4 DEF HeartbeatSame
  <2>3. value' \in [Parts -> Nat]
    BY <1>a, <1>b, <2>1 DEF TypeOK
  <2>4. \A q \in Parts : q \in mRecv \union {"0885"} => value'[q] # 0
    BY <1>a, <2>1 DEF MarkedHasValue
  <2>5. mRecv \union {"0885"} \in SUBSET (Parts \union {"0885"})
    BY <1>a DEF TypeOK
  <2>6. /\ mRecv' \in SUBSET (Parts \union {"0885"})
        /\ ~(Required \union {"0885"} \subseteq mRecv')
        /\ missing' \in SUBSET Required
        /\ WholeMessage'
        /\ MarkedHasValue'
    BY <1>a, <2>2, <2>3, <2>4, <2>5, SendIfCompleteInv
  <2>. QED  BY <1>a, <2>1, <2>6 DEF IInv, TypeOK, IdleHeardForgotten
<1>5. ASSUME HeartbeatChanged
      PROVE  IInv'
  <2>1. CASE KeepsData
    <3>1. /\ pileState \in BusyStates
          /\ UNCHANGED <<pileState, plugged, charge, value, m_dStartSoc, idleHeard, late>>
          /\ chargerState' = pileState
          /\ connectorState' = plugged
      BY <1>5, <2>1 DEF HeartbeatChanged, KeepsData, pileVars
    <3>2. SendIfComplete(mRecv \union {"0885"})
      BY <1>5, <2>1 DEF HeartbeatChanged
    <3>3. value' \in [Parts -> Nat]
      BY <1>a, <1>b, <3>1 DEF TypeOK
    <3>4. \A q \in Parts : q \in mRecv \union {"0885"} => value'[q] # 0
      BY <1>a, <3>1 DEF MarkedHasValue
    <3>5. mRecv \union {"0885"} \in SUBSET (Parts \union {"0885"})
      BY <1>a DEF TypeOK
    <3>6. /\ mRecv' \in SUBSET (Parts \union {"0885"})
          /\ ~(Required \union {"0885"} \subseteq mRecv')
          /\ missing' \in SUBSET Required
          /\ WholeMessage'
          /\ MarkedHasValue'
      BY <1>a, <3>2, <3>3, <3>4, <3>5, SendIfCompleteInv
    <3>. QED  BY <1>a, <3>1, <3>6 DEF IInv, TypeOK, IdleHeardForgotten
  <2>2. CASE ~KeepsData
    <3>1. /\ pileState \notin BusyStates
          /\ UNCHANGED <<pileState, plugged, charge, missing>>
          /\ chargerState' = pileState
          /\ connectorState' = plugged
          /\ value' = Cleared
          /\ m_dStartSoc' = 0
          /\ mRecv' = {}
          /\ idleHeard' = charge
          /\ late' = {}
      BY <1>5, <2>2 DEF HeartbeatChanged, KeepsData, ResetParam, pileVars
    <3>2. TypeOK'
      BY <1>a, <1>b, <3>1 DEF TypeOK, Cleared
    <3>. QED
      BY <1>a, <3>1, <3>2
      DEF IInv, IdleHeardForgotten, WholeMessage, MarkedHasValue, Cleared
  <2>. QED  BY <2>1, <2>2
<1>6. ASSUME SetOfflineState
      PROVE  IInv'
  BY <1>6, <1>a
  DEF SetOfflineState, pileVars, IInv, TypeOK, IdleHeardForgotten, WholeMessage,
      MarkedHasValue
<1>7. ASSUME Restart
      PROVE  IInv'
  <2>1. /\ UNCHANGED <<pileState, plugged, charge, missing, idleHeard>>
        /\ late' = {}
        /\ chargerState' = Offline
        /\ connectorState' = FALSE
        /\ value' = Cleared
        /\ m_dStartSoc' = 0
        /\ mRecv' = {}
    BY <1>7 DEF Restart, pileVars
  <2>2. value' \in [Parts -> 0 .. charge] /\ m_dStartSoc' \in 0 .. charge
    BY <1>b, <2>1 DEF Cleared
  <2>3. TypeOK'
    BY <1>a, <2>1, <2>2 DEF TypeOK
  <2>. QED
    BY <1>a, <2>1, <2>3
    DEF IInv, IdleHeardForgotten, WholeMessage, MarkedHasValue, Cleared
<1>8. CASE UNCHANGED vars
  BY <1>8, <1>a
  DEF vars, pileVars, IInv, TypeOK, IdleHeardForgotten, WholeMessage, MarkedHasValue
<1>. QED  BY <1>1, <1>2, <1>3, <1>4, <1>5, <1>6, <1>7, <1>8 DEF Next

\* The inductive invariant holds always.
THEOREM Inductive == Spec => []IInv
BY InitInv, StepInv, PTL DEF Spec

\* Every variable of CConnectorStatus keeps its type, and a complete mask is
\* never left behind by a frame.
THEOREM TypeCorrect == Spec => []TypeOK
BY Inductive, PTL DEF IInv

\* Nothing of a charge after which an idle state was heard is ever sent or
\* billed later, but what came in late frames.
THEOREM IdleHeardIsForgotten == Spec => []IdleHeardForgotten
BY Inductive, PTL DEF IInv

\* A charging message never lacks a measurement.
THEOREM MessagesAreWhole == Spec => []WholeMessage
BY Inductive, PTL DEF IInv
=============================================================================
