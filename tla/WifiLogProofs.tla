----------------------------- MODULE WifiLogProofs -----------------------------
(***************************************************************************)
(* Proofs about WifiLog, for any transports, loggers and capacity.         *)
(***************************************************************************)
EXTENDS WifiLog, FiniteSetTheorems, TLAPS

LEMMA InitInv == Init => Inv
<1> SUFFICES ASSUME Init PROVE Inv
  OBVIOUS
<1>1. TypeOK
  <2>1. 0 \in 0..Capacity /\ 0 \in Nat
    BY CapacityAssumption
  <2> QED BY <2>1, Zenon DEF Init, TypeOK
<1>2. count = Cardinality(transfers)
  BY FS_EmptySet DEF Init
<1>3. active <=> transfers # {}
  BY DEF Init
<1> QED BY <1>1, <1>2, <1>3 DEF Inv, PausedIffTransferring

LEMMA NextInv == Inv /\ [Next]_vars => Inv'
<1> SUFFICES ASSUME Inv, [Next]_vars
             PROVE  Inv'
  OBVIOUS
<1> USE CapacityAssumption DEF Inv, TypeOK, flashVars
<1>1. IsFiniteSet(transfers)
  BY TransportsAssumption, FS_Subset
<1>2. ASSUME NEW t \in Transports, FlashBegin(t) PROVE Inv'
  <2>1. Cardinality(transfers \cup {t}) = Cardinality(transfers) + 1
    BY <1>1, <1>2, FS_AddElement DEF FlashBegin
  <2>2. PausedIffTransferring'
    BY <1>2, <2>1 DEF FlashBegin, PausedIffTransferring
  <2> QED BY <1>2, <2>2 DEF FlashBegin
<1>3. ASSUME NEW t \in Transports, FlashEnd(t) PROVE Inv'
  <2>1. /\ Cardinality(transfers \ {t}) = Cardinality(transfers) - 1
        /\ Cardinality(transfers) \in Nat \ {0}
        /\ IsFiniteSet(transfers \ {t})
    BY <1>1, <1>3, FS_RemoveElement, FS_CardinalityType, FS_EmptySet, FS_Subset DEF FlashEnd
  \* The last transfer has ended when the count is zero, and only then.
  <2>2. Cardinality(transfers \ {t}) = 0 <=> transfers \ {t} = {}
    BY <2>1, FS_EmptySet
  <2>3. count' = Cardinality(transfers') /\ count' \in Nat
    BY <1>3, <2>1 DEF FlashEnd, PausedIffTransferring
  <2>4. active' <=> transfers' # {}
    <3>1. transfers' = transfers \ {t} /\ active' = (count' > 0)
      BY <1>3 DEF FlashEnd
    <3>2. count' > 0 <=> count' # 0
      BY <2>3
    <3>3. count' = 0 <=> transfers' = {}
      BY <2>2, <2>3, <3>1
    <3> QED BY <3>1, <3>2, <3>3, Zenon
  <2>5. active' \in BOOLEAN
    BY <1>3 DEF FlashEnd
  <2>6. TypeOK'
    BY <1>3, <2>3, <2>5 DEF FlashEnd
  <2> QED BY <2>3, <2>4, <2>6 DEF PausedIffTransferring
<1>4. ASSUME NEW l \in Loggers, Log(l) \/ Printf(l) \/ WriteConsole(l) \/ Queue(l) PROVE Inv'
  BY <1>4 DEF Log, Printf, WriteConsole, Queue, PausedIffTransferring
<1>5. CASE Start \/ Sender
  <2>1. UNCHANGED <<flashVars, logger>>
    BY <1>5 DEF Start, Sender, Wake, Discard, Receive, SendTo, Drained
  <2>2. socket' \in BOOLEAN
    BY <1>5 DEF Start, Sender, Wake, Discard, Receive, SendTo, Drained
  <2>3. ring' \in 0..Capacity
    BY <1>5 DEF Start, Sender, Wake, Discard, Receive, SendTo, Drained
  <2>4. sender' \in {"wait", "discard", "receive", "packet"}
    BY <1>5 DEF Start, Sender, Wake, Discard, Receive, SendTo, Drained
  <2> QED BY <2>1, <2>2, <2>3, <2>4, Zenon DEF PausedIffTransferring
<1>6. CASE UNCHANGED vars
  BY <1>6 DEF vars, PausedIffTransferring
<1> QED BY <1>2, <1>3, <1>4, <1>5, <1>6 DEF Next

\* Logging is paused exactly while some transfer is active, and the count that
\* wifi_log_flash_end asserts to be positive is.
THEOREM PauseIsNested == Spec => []PausedIffTransferring
<1>1. Inv => PausedIffTransferring
  BY DEF Inv
<1> QED BY <1>1, InitInv, NextInv, PTL DEF Spec

LEMMA LogTypeCorrect == Spec => []TypeOK
<1>1. Inv => TypeOK
  BY DEF Inv
<1> QED BY <1>1, InitInv, NextInv, PTL DEF Spec
==============================================================================
