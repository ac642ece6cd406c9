----------------------------- MODULE JtagTapProofs -----------------------------
(***************************************************************************)
(* The safety of the JTAG sessions of JtagTap, for every length of the     *)
(* bitstream, every number of attempts, any callers, and with and without  *)
(* an intruder.                                                            *)
(*                                                                         *)
(* What jtag_gowin.c clocks is defined by recursion over the clocks, so    *)
(* the first part justifies such definitions: induction over sets of       *)
(* numbers (a non-empty set has a least element, WFMin) shows that the     *)
(* functions exist.  The second part says what one clock does, the third   *)
(* what each scan does, the fourth what each action does to a session.     *)
(***************************************************************************)
EXTENDS JtagTap, WellFoundedInduction, TLAPS

-----------------------------------------------------------------------------
(* Recursion over the clocks. *)

\* A set that has 0, and n + 1 with every n, has all the numbers.
LEMMA SetInduction ==
    ASSUME NEW S, 0 \in S, \A n \in Nat : n \in S => n + 1 \in S
    PROVE  Nat \subseteq S
<1> DEFINE T == Nat \ S
           R == OpToRel(<, Nat)
<1> SUFFICES ASSUME T # {} PROVE FALSE
  OBVIOUS
<1>1. IsWellFoundedOn(R, Nat)
  BY NatLessThanWellFounded
<1>2. PICK x \in T : \A y \in T : ~ (<<y, x>> \in R)
  <2> HIDE DEF R
  <2> QED BY <1>1, WFMin
<1>3. x # 0 /\ x - 1 \in Nat /\ x - 1 < x
  OBVIOUS
<1>4. <<x - 1, x>> \in R
  BY <1>3 DEF OpToRel
<1>5. x - 1 \in S
  BY <1>2, <1>3, <1>4
<1> QED BY <1>3, <1>5

\* The same from 0 up to n only.
LEMMA UpTo ==
    ASSUME NEW n \in Nat, NEW S, 0 \in S, \A i \in 1..n : i - 1 \in S => i \in S
    PROVE  0..n \subseteq S
<1> DEFINE T == S \cup {i \in Nat : i > n}
<1>1. 0 \in T
  OBVIOUS
<1>2. ASSUME NEW i \in Nat, i \in T PROVE i + 1 \in T
  <2>1. CASE i + 1 > n
    BY <2>1
  <2>2. CASE i + 1 <= n
    <3>1. i + 1 \in 1..n /\ (i + 1) - 1 = i /\ i \in S
      BY <1>2, <2>2
    <3> QED BY <3>1
  <2> QED BY <2>1, <2>2
<1>3. Nat \subseteq T
  <2> HIDE DEF T
  <2> QED BY <1>1, <1>2, SetInduction
<1> QED BY <1>3

\* A step after the other, n times: there is a function as a recursive definition
\* over 0..n describes it, whatever the step G.
LEMMA Iterates ==
    ASSUME NEW X, NEW x \in X, NEW n \in Nat, NEW G \in [1..n -> [X -> X]]
    PROVE  \E f \in [0..n -> X] : f[0] = x /\ \A i \in 1..n : f[i] = G[i][f[i - 1]]
<1> DEFINE Run(f, k) == f \in [0..k -> X] /\ f[0] = x /\ \A i \in 1..k : f[i] = G[i][f[i - 1]]
           S == {k \in Nat : \E f : Run(f, k)}
<1>1. 0 \in S
  <2> DEFINE f == [i \in 0..0 |-> x]
  <2>1. Run(f, 0)
    OBVIOUS
  <2> QED BY <2>1
<1>2. ASSUME NEW k \in 1..n, k - 1 \in S PROVE k \in S
  <2>1. PICK f : Run(f, k - 1)
    BY <1>2
  <2> DEFINE g == [i \in 0..k |-> IF i = k THEN G[k][f[k - 1]] ELSE f[i]]
  <2>2. f[k - 1] \in X /\ G[k][f[k - 1]] \in X
    BY <2>1
  <2>3. g \in [0..k -> X] /\ g[0] = x
    BY <2>1, <2>2
  <2>4. ASSUME NEW i \in 1..k
        PROVE  g[i] = G[i][g[i - 1]]
    <3>1. CASE i = k
      BY <3>1
    <3>2. CASE i \in 1..(k - 1)
      <4>1. f[i] = G[i][f[i - 1]]
        BY <2>1, <3>2
      <4>2. g[i] = f[i] /\ g[i - 1] = f[i - 1]
        BY <3>2
      <4> QED BY <4>1, <4>2
    <3> QED BY <3>1, <3>2
  <2> HIDE DEF g
  <2>5. Run(g, k)
    BY <2>3, <2>4
  <2>6. k \in Nat
    OBVIOUS
  <2> QED BY <2>5, <2>6
<1>3. n \in S
  <2> HIDE DEF S
  <2>1. \A k \in 1..n : k - 1 \in S => k \in S
    BY <1>2
  <2>2. 0..n \subseteq S
    BY <1>1, <2>1, UpTo
  <2> QED BY <2>2
<1> QED BY <1>3

-----------------------------------------------------------------------------
(* One clock. *)

LEMMA TapNextType ==
    ASSUME NEW t \in TapStates, NEW tms \in {0, 1}
    PROVE  TapNext[t][tms + 1] \in TapStates
BY DEF TapNext, TapStates

\* What becomes of the type when some fields get other values of theirs.
LEMMA ModeSet ==
    ASSUME NEW c \in Chips, NEW m \in {"off", "entering", "on"}, NEW w \in 0..2, NEW a \in BOOLEAN
    PROVE  [c EXCEPT !.mode = m, !.warm = w] \in Chips /\ [c EXCEPT !.mode = m, !.addr = a] \in Chips
BY DEF Chips

LEMMA ErasedSet ==
    ASSUME NEW c \in Chips, NEW s \in Seq(0..8 * Bytes)
    PROVE  [c EXCEPT !.sram = "erasing", !.taken = s, !.crc = FALSE] \in Chips
BY DEF Chips

LEMMA ObeyType ==
    ASSUME NEW c \in Chips
    PROVE  /\ Obey(c) \in Chips
           /\ Obey(c).tap = c.tap /\ Obey(c).responds = c.responds
<1> DEFINE Typed(d) == d \in Chips /\ d.tap = c.tap /\ d.responds = c.responds
<1>1. Typed([c EXCEPT !.mode = "entering", !.warm = 0])
  <2>1. 0 \in 0..2 /\ "entering" \in {"off", "entering", "on"}
    OBVIOUS
  <2>2. [c EXCEPT !.mode = "entering", !.warm = 0] \in Chips
    BY <2>1, ModeSet, Zenon
  <2> QED BY <2>2 DEF Chips
<1>2. Typed([c EXCEPT !.mode = "off", !.addr = FALSE]) /\ Typed([c EXCEPT !.mode = "off"])
      /\ Typed([c EXCEPT !.addr = TRUE])
  BY DEF Chips
<1>3. Typed([c EXCEPT !.sram = "erasing", !.taken = <<>>, !.crc = FALSE])
  <2>1. <<>> \in Seq(0..8 * Bytes)
    OBVIOUS
  <2> QED BY <2>1, ErasedSet DEF Chips
<1> HIDE DEF Typed
<1>4. Typed(c)
  BY DEF Typed
<1>5. Typed(Obey(c))
  BY <1>1, <1>2, <1>3, <1>4 DEF Obey
<1> QED BY <1>5 DEF Typed

LEMMA WarmedType ==
    ASSUME NEW c \in Chips
    PROVE  /\ Warmed(c) \in Chips
           /\ Warmed(c).tap = c.tap /\ Warmed(c).responds = c.responds
<1>1. c.mode \in {"off", "entering", "on"} /\ c.warm \in 0..2
  BY DEF Chips
<1>2. CASE c.mode = "entering" /\ c.warm < 2
  <2>1. c.warm + 1 \in 0..2
    BY <1>1, <1>2
  <2>2. Warmed(c) = [c EXCEPT !.warm = c.warm + 1]
    BY <1>2 DEF Warmed
  <2> QED BY <2>1, <2>2 DEF Chips
<1>3. CASE c.mode = "entering" /\ c.warm = 2
  <2>1. Warmed(c) = [c EXCEPT !.mode = "on"]
    BY <1>3 DEF Warmed
  <2> QED BY <2>1 DEF Chips
<1>4. CASE c.mode # "entering"
  BY <1>4 DEF Warmed, Chips
<1> QED BY <1>1, <1>2, <1>3, <1>4

LEMMA CapturedType ==
    ASSUME NEW c \in Chips
    PROVE  Captured(c) \in SUBSET (0..31)
BY DEF Captured, Status, IDCODE, CRC_ERROR, MEMORY_ERASE, DONE_FINAL

LEMMA ShiftedType ==
    ASSUME NEW r \in SUBSET (0..31), NEW tdi
    PROVE  /\ Shifted(r, 32, tdi) \in SUBSET (0..31)
           /\ r \subseteq 0..7 => Shifted(r, 8, tdi) \in SUBSET (0..7)
BY DEF Shifted

\* The chips that there are: while an instruction is shifted in, the register is
\* that of instructions.
Sane == {c \in Chips : c.tap \in {"ShiftIR", "Exit1IR", "PauseIR", "Exit2IR"} => c.shift \subseteq 0..7}

\* One edge leads from chip to chip, over the edge of the TAP.
LEMMA EdgeType ==
    ASSUME NEW c \in Sane, NEW bit \in Bits
    PROVE  /\ Edge(c, bit) \in Sane
           /\ Edge(c, bit).tap = TapNext[c.tap][bit.tms + 1]
           /\ Edge(c, bit).responds = c.responds
<1> DEFINE to    == TapNext[c.tap][bit.tms + 1]
           moved == [c EXCEPT !.tap = to]
           Typed(d) == d \in Chips /\ d.tap = to /\ d.responds = c.responds
<1> SUFFICES Typed(Edge(c, bit)) /\ Edge(c, bit) \in Sane
  OBVIOUS
<1>1. c \in Chips /\ bit.tms \in {0, 1} /\ bit.data \in 0..8 * Bytes
  BY DEF Sane, Bits
<1>2. to \in TapStates
  BY <1>1, TapNextType DEF Chips
<1>3. Typed(moved) /\ moved.shift = c.shift /\ moved.taken = c.taken
  BY <1>1, <1>2 DEF Chips
<1>4. ASSUME NEW i \in SUBSET (0..7)
      PROVE  Typed([moved EXCEPT !.ir = i]) /\ [moved EXCEPT !.ir = i].shift = c.shift
  BY <1>3 DEF Chips
<1>5. ASSUME NEW s \in SUBSET (0..31)
      PROVE  Typed([moved EXCEPT !.shift = s]) /\ [moved EXCEPT !.shift = s].shift = s
  BY <1>3 DEF Chips
<1>6. ASSUME NEW s \in SUBSET (0..31), NEW t \in Seq(0..8 * Bytes)
      PROVE  Typed([moved EXCEPT !.shift = s, !.taken = t])
  BY <1>3 DEF Chips
<1>7. Typed(Warmed(moved))
  BY <1>3, WarmedType
<1> HIDE DEF moved, to
<1>8. CASE to = "UpdateIR"
  <2>1. c.tap \in {"Exit1IR", "Exit2IR"}
    BY <1>1, <1>8 DEF Chips, TapStates, TapNext, to
  <2>2. c.shift \in SUBSET (0..7)
    BY <2>1 DEF Sane
  <2> DEFINE d == [moved EXCEPT !.ir = c.shift]
  <2>3. Typed(d)
    BY <2>2, <1>4
  <2>4. Typed(Obey(d))
    <3> HIDE DEF d
    <3> QED BY <2>3, ObeyType
  <2>5. Edge(c, bit) = Obey(d)
    BY <1>8, <2>1 DEF Edge, moved, to
  <2> QED BY <2>4, <2>5, <1>8 DEF Sane
<1>9. CASE to = "Reset"
  <2>0. c.tap \in {"SelectIR", "Reset"}
    BY <1>1, <1>9 DEF Chips, TapStates, TapNext, to
  <2>1. Edge(c, bit) = [moved EXCEPT !.ir = READ_IDCODE]
    BY <1>9, <2>0 DEF Edge, moved, to
  <2>2. READ_IDCODE \in SUBSET (0..7)
    BY DEF READ_IDCODE
  <2> QED BY <1>4, <1>9, <2>1, <2>2 DEF Sane
<1>10. CASE c.tap = "CaptureDR"
  <2>1. to \in {"ShiftDR", "Exit1DR"}
    BY <1>1, <1>10 DEF TapNext, to
  <2>2. Edge(c, bit) = [moved EXCEPT !.shift = Captured(c)]
    BY <1>10, <2>1 DEF Edge, moved, to
  <2>3. Captured(c) \in SUBSET (0..31)
    BY <1>1, CapturedType
  <2>4. Typed(Edge(c, bit))
    BY <1>5, <2>2, <2>3
  <2> QED BY <2>1, <2>4 DEF Sane
<1>11. CASE c.tap = "CaptureIR"
  <2>1. to \in {"ShiftIR", "Exit1IR"}
    BY <1>1, <1>11 DEF TapNext, to
  <2>2. Edge(c, bit) = [moved EXCEPT !.shift = {0}]
    BY <1>11, <2>1 DEF Edge, moved, to
  <2> DEFINE s == {0}
  <2>3. s \in SUBSET (0..31) /\ s \subseteq 0..7
    OBVIOUS
  <2> HIDE DEF s
  <2>4. Typed(Edge(c, bit)) /\ Edge(c, bit).shift = s
    BY <1>5, <2>2, <2>3 DEF s
  <2> QED BY <2>3, <2>4 DEF Sane
<1>12. CASE c.tap = "ShiftIR"
  <2>1. to \in {"ShiftIR", "Exit1IR"}
    BY <1>1, <1>12 DEF TapNext, to
  <2> DEFINE s == Shifted(c.shift, 8, bit.tdi)
  <2>2. Edge(c, bit) = [moved EXCEPT !.shift = s]
    BY <1>3, <1>12, <2>1 DEF Edge, moved, to
  <2>3. s \in SUBSET (0..7)
    BY <1>1, <1>12, ShiftedType DEF Sane, Chips
  <2>4. s \in SUBSET (0..31)
    BY <2>3
  <2> HIDE DEF s
  <2>5. Typed(Edge(c, bit)) /\ Edge(c, bit).shift = s
    BY <1>5, <2>2, <2>4
  <2> QED BY <2>3, <2>5 DEF Sane
<1>13. CASE c.tap = "ShiftDR"
  <2>1. to \in {"ShiftDR", "Exit1DR"}
    BY <1>1, <1>13 DEF TapNext, to
  <2> DEFINE s == Shifted(c.shift, 32, bit.tdi)
             t == IF Accepts(c) THEN Append(c.taken, bit.data) ELSE c.taken
  <2>2. Edge(c, bit) = [moved EXCEPT !.shift = s, !.taken = t]
    BY <1>3, <1>13, <2>1 DEF Edge, moved, to
  <2>3. s \in SUBSET (0..31)
    BY <1>1, ShiftedType DEF Chips
  <2>4. t \in Seq(0..8 * Bytes)
    <3> DEFINE P == 0..8 * Bytes
    <3>1. c.taken \in Seq(P) /\ bit.data \in P
      BY <1>1 DEF Chips
    <3> HIDE DEF P
    <3>2. Append(c.taken, bit.data) \in Seq(P)
      BY <3>1
    <3>3. t \in Seq(P)
      BY <3>1, <3>2
    <3> QED BY <3>3 DEF P
  <2> HIDE DEF s, t
  <2>5. Typed([moved EXCEPT !.shift = s, !.taken = t])
    BY <1>6, <2>3, <2>4, Zenon
  <2>6. Typed(Edge(c, bit))
    BY <2>2, <2>5
  <2> QED BY <2>1, <2>6 DEF Sane
<1>14. CASE c.tap = "Idle" /\ to = "Idle"
  <2>1. Edge(c, bit) = Warmed(moved)
    BY <1>14 DEF Edge, moved, to
  <2> QED BY <1>7, <1>14, <2>1 DEF Sane
<1>15. CASE /\ to \notin {"UpdateIR", "Reset"} /\ ~ (c.tap = "Idle" /\ to = "Idle")
            /\ c.tap \notin {"CaptureDR", "CaptureIR", "ShiftIR", "ShiftDR"}
  <2>1. Edge(c, bit) = moved
    BY <1>15 DEF Edge, moved, to
  <2>2. to \in {"ShiftIR", "Exit1IR", "PauseIR", "Exit2IR"} => c.tap \in {"PauseIR", "Exit1IR", "Exit2IR"}
    BY <1>1, <1>15 DEF Chips, TapStates, TapNext, to
  <2> QED BY <1>3, <2>1, <2>2 DEF Sane
<1> QED BY <1>8, <1>9, <1>10, <1>11, <1>12, <1>13, <1>14, <1>15

-----------------------------------------------------------------------------
(* Clocks one after the other. *)

After(c, bit) == IF c.responds THEN Edge(c, bit) ELSE c

LEMMA ClockIsAfter ==
    ASSUME NEW c \in Sane, NEW bit \in Bits
    PROVE  /\ Clock[<<c, bit>>] = After(c, bit)
           /\ After(c, bit) \in Sane
           /\ After(c, bit).responds = c.responds
<1>1. c \in Chips
  BY DEF Sane
<1>2. Clock[<<c, bit>>] = After(c, bit)
  BY <1>1 DEF Clock, After
<1> QED BY <1>2, EdgeType DEF After

LEMMA SaneIterates ==
    ASSUME NEW c \in Sane, NEW n \in Nat
    PROVE  \A G \in [1..n -> [Sane -> Sane]] :
              \E f \in [0..n -> Sane] : f[0] = c /\ \A i \in 1..n : f[i] = G[i][f[i - 1]]
BY Iterates

\* The function that Clocks defines is what its recursion says.
LEMMA RunExists ==
    ASSUME NEW c \in Sane, NEW n \in Nat, NEW bits \in [1..n -> Bits]
    PROVE  LET Is(f) == f = [i \in 0..n |-> IF i = 0 THEN c ELSE Clock[<<f[i - 1], bits[i]>>]]
               h     == CHOOSE f : Is(f)
           IN  /\ h \in [0..n -> Sane]
               /\ h[0] = c
               /\ \A i \in 1..n : h[i] = After(h[i - 1], bits[i])
<1> DEFINE G == [i \in 1..n |-> [x \in Sane |-> After(x, bits[i])]]
           Is(f) == f = [i \in 0..n |-> IF i = 0 THEN c ELSE Clock[<<f[i - 1], bits[i]>>]]
           h == CHOOSE f : Is(f)
<1>1. \A i \in 1..n : bits[i] \in Bits
  OBVIOUS
<1>2. G \in [1..n -> [Sane -> Sane]]
  BY <1>1, ClockIsAfter
<1>3. PICK f \in [0..n -> Sane] : f[0] = c /\ \A i \in 1..n : f[i] = G[i][f[i - 1]]
  <2> HIDE DEF G
  <2>1. \A H \in [1..n -> [Sane -> Sane]] :
           \E f \in [0..n -> Sane] : f[0] = c /\ \A i \in 1..n : f[i] = H[i][f[i - 1]]
    BY SaneIterates, Zenon
  <2> QED BY <1>2, <2>1
<1>4. ASSUME NEW i \in 1..n, NEW x \in Sane
      PROVE  G[i][x] = Clock[<<x, bits[i]>>]
  BY <1>1, ClockIsAfter
<1>5. ASSUME NEW i \in 0..n
      PROVE  f[i] = IF i = 0 THEN c ELSE Clock[<<f[i - 1], bits[i]>>]
  <2> HIDE DEF G
  <2>1. CASE i = 0
    BY <1>3, <2>1
  <2>2. CASE i \in 1..n
    <3>1. f[i - 1] \in Sane
      BY <1>3, <2>2
    <3> QED BY <1>3, <1>4, <2>2, <3>1
  <2> QED BY <2>1, <2>2
<1>6. f = [i \in 0..n |-> f[i]]
  BY <1>3
<1>7. Is(f)
  <2> QED BY <1>5, <1>6
<1>8. Is(h)
  BY <1>7
<1> HIDE DEF h
<1>9. ASSUME NEW i \in 0..n
      PROVE  h[i] = IF i = 0 THEN c ELSE Clock[<<h[i - 1], bits[i]>>]
  BY <1>8
<1>10. ASSUME NEW i \in 1..n, h[i - 1] \in Sane
       PROVE  h[i] = After(h[i - 1], bits[i]) /\ h[i] \in Sane
  <2>1. i \in 0..n /\ i # 0 /\ bits[i] \in Bits
    BY <1>1
  <2> QED BY <2>1, <1>9, <1>10, ClockIsAfter
<1>0. h[0] = c
  <2>1. 0 \in 0..n
    BY <1>1
  <2> QED BY <2>1, <1>9
<1> DEFINE S == {i \in 0..n : h[i] \in Sane}
<1>11. 0..n \subseteq S
  <2>1. 0 \in S
    BY <1>1, <1>0
  <2>2. ASSUME NEW i \in 1..n, i - 1 \in S PROVE i \in S
    BY <1>10, <2>2
  <2> HIDE DEF S
  <2> QED BY <1>1, <2>1, <2>2, UpTo
<1>12. h \in [0..n -> Sane]
  BY <1>8, <1>11
<1>13. \A i \in 1..n : h[i] = After(h[i - 1], bits[i])
  <2>1. ASSUME NEW i \in 1..n PROVE i - 1 \in 0..n
    BY <1>1
  <2> QED BY <1>10, <1>11, <2>1
<1> QED BY <1>0, <1>12, <1>13 DEF h

LEMMA ClocksRun ==
    ASSUME NEW c \in Sane, NEW bits \in Seq(Bits)
    PROVE  \E f \in [0..Len(bits) -> Sane] :
              /\ f[0] = c
              /\ \A i \in 1..Len(bits) : f[i] = After(f[i - 1], bits[i])
              /\ Clocks(c, bits) = f[Len(bits)]
<1>1. Len(bits) \in Nat /\ bits \in [1..Len(bits) -> Bits]
  OBVIOUS
<1> QED BY <1>1, RunExists DEF Clocks

\* Clocks keep what a chip is, and whether it listens; one that does not listen
\* stays as it is.
LEMMA ClocksType ==
    ASSUME NEW c \in Sane, NEW bits \in Seq(Bits)
    PROVE  /\ Clocks(c, bits) \in Sane
           /\ Clocks(c, bits).responds = c.responds
           /\ ~ c.responds => Clocks(c, bits) = c
<1> DEFINE n == Len(bits)
<1>1. n \in Nat /\ \A i \in 1..n : bits[i] \in Bits
  OBVIOUS
<1>2. PICK f \in [0..n -> Sane] :
              /\ f[0] = c
              /\ \A i \in 1..n : f[i] = After(f[i - 1], bits[i])
              /\ Clocks(c, bits) = f[n]
  BY ClocksRun
<1> HIDE DEF n
<1> DEFINE S == {i \in 0..n : f[i].responds = c.responds /\ (~ c.responds => f[i] = c)}
<1>3. 0 \in S
  BY <1>1, <1>2
<1>4. ASSUME NEW i \in 1..n, i - 1 \in S PROVE i \in S
  <2>1. f[i - 1] \in Sane /\ bits[i] \in Bits /\ f[i] = After(f[i - 1], bits[i])
    BY <1>1, <1>2
  <2>2. f[i].responds = f[i - 1].responds
    BY <2>1, ClockIsAfter
  <2>3. ~ f[i - 1].responds => f[i] = f[i - 1]
    BY <2>1 DEF After
  <2> QED BY <1>4, <2>2, <2>3
<1>5. 0..n \subseteq S
  <2> HIDE DEF S
  <2> QED BY <1>1, <1>3, <1>4, UpTo
<1>6. n \in 0..n
  BY <1>1
<1> QED BY <1>2, <1>5, <1>6

LEMMA BitType ==
    /\ \A tms \in {0, 1}, tdi \in {0, 1} : Bit(tms, tdi) \in Bits
    /\ \A tms, tdi : Bit(tms, tdi).tms = tms /\ Bit(tms, tdi).tdi = tdi
<1>1. 0 \in 0..8 * Bytes
  BY BytesAssumption
<1> QED BY <1>1 DEF Bit, Bits

Tms(c, tms) == After(c, Bit(tms, 0))

LEMMA TmsType ==
    ASSUME NEW c \in Sane, NEW a \in {0, 1}
    PROVE  Tms(c, a) \in Sane
BY ClockIsAfter, BitType DEF Tms

LEMMA TmsRun ==
    ASSUME NEW c \in Sane, NEW tms \in Seq({0, 1})
    PROVE  \E f \in [0..Len(tms) -> Sane] :
              /\ f[0] = c
              /\ \A i \in 1..Len(tms) : f[i] = Tms(f[i - 1], tms[i])
              /\ ClockTms(c, tms) = f[Len(tms)]
<1> DEFINE bits == [i \in 1..Len(tms) |-> Bit(tms[i], 0)]
<1>1. \A i \in 1..Len(tms) : Bit(tms[i], 0) \in Bits /\ bits[i] = Bit(tms[i], 0)
  BY BitType
<1>2. bits \in Seq(Bits) /\ Len(bits) = Len(tms)
  BY <1>1
<1>3. ClockTms(c, tms) = Clocks(c, bits)
  BY DEF ClockTms
<1> HIDE DEF bits
<1>4. PICK f \in [0..Len(bits) -> Sane] :
              /\ f[0] = c
              /\ \A i \in 1..Len(bits) : f[i] = After(f[i - 1], bits[i])
              /\ Clocks(c, bits) = f[Len(bits)]
  BY <1>2, ClocksRun
<1>5. \A i \in 1..Len(tms) : f[i] = Tms(f[i - 1], tms[i])
  BY <1>1, <1>2, <1>4 DEF Tms
<1> QED BY <1>2, <1>3, <1>4, <1>5

LEMMA ClockTms1 ==
    ASSUME NEW c \in Sane, NEW a \in {0, 1}
    PROVE  ClockTms(c, <<a>>) = Tms(c, a)
<1> DEFINE tms == <<a>>
<1>1. tms \in Seq({0, 1}) /\ Len(tms) = 1 /\ tms[1] = a
  OBVIOUS
<1> HIDE DEF tms
<1>2. ClockTms(c, tms) = Tms(c, a)
  BY <1>1, TmsRun
<1> QED BY <1>2 DEF tms

LEMMA ClockTms2 ==
    ASSUME NEW c \in Sane, NEW a1 \in {0, 1}, NEW a2 \in {0, 1}
    PROVE  ClockTms(c, <<a1, a2>>) = Tms(Tms(c, a1), a2)
<1> DEFINE tms  == <<a1, a2>>
<1>1. tms \in Seq({0, 1}) /\ Len(tms) = 2 /\ tms[1] = a1 /\ tms[2] = a2
  OBVIOUS
<1> HIDE DEF tms
<1>2. ClockTms(c, tms) = Tms(Tms(c, a1), a2)
  BY <1>1, TmsRun
<1> QED BY <1>2 DEF tms

LEMMA ClockTms3 ==
    ASSUME NEW c \in Sane, NEW a1 \in {0, 1}, NEW a2 \in {0, 1}, NEW a3 \in {0, 1}
    PROVE  ClockTms(c, <<a1, a2, a3>>) = Tms(Tms(Tms(c, a1), a2), a3)
<1> DEFINE tms == <<a1, a2, a3>>
<1>1. tms \in Seq({0, 1}) /\ Len(tms) = 3 /\ tms[1] = a1 /\ tms[2] = a2 /\ tms[3] = a3
  OBVIOUS
<1> HIDE DEF tms
<1>2. ClockTms(c, tms) = Tms(Tms(Tms(c, a1), a2), a3)
  BY <1>1, TmsRun
<1> QED BY <1>2 DEF tms

LEMMA ClockTms4 ==
    ASSUME NEW c \in Sane, NEW a1 \in {0, 1}, NEW a2 \in {0, 1}, NEW a3 \in {0, 1}, NEW a4 \in {0, 1}
    PROVE  ClockTms(c, <<a1, a2, a3, a4>>) = Tms(Tms(Tms(Tms(c, a1), a2), a3), a4)
<1> DEFINE tms == <<a1, a2, a3, a4>>
<1>1. tms \in Seq({0, 1}) /\ Len(tms) = 4
      /\ tms[1] = a1 /\ tms[2] = a2 /\ tms[3] = a3 /\ tms[4] = a4
  OBVIOUS
<1> HIDE DEF tms
<1>2. ClockTms(c, tms) = Tms(Tms(Tms(Tms(c, a1), a2), a3), a4)
  BY <1>1, TmsRun
<1> QED BY <1>2 DEF tms

-----------------------------------------------------------------------------
(* What the scans do with a chip that listens. *)

\* An edge of the TAP at which nothing else happens.
LEMMA Plain ==
    ASSUME NEW c \in Sane, c.responds, NEW a \in {0, 1}, NEW t, t = TapNext[c.tap][a + 1],
           t \notin {"UpdateIR", "Reset"}, ~ (c.tap = "Idle" /\ t = "Idle"),
           c.tap \notin {"CaptureDR", "CaptureIR", "ShiftIR", "ShiftDR"}
    PROVE  Tms(c, a) = [c EXCEPT !.tap = t]
<1> DEFINE bit == Bit(a, 0)
<1>1. bit.tms = a /\ Tms(c, a) = Edge(c, bit)
  BY BitType DEF Tms, After
<1> HIDE DEF bit
<1>2. Edge(c, bit) = [c EXCEPT !.tap = t]
  BY <1>1 DEF Edge
<1> QED BY <1>1, <1>2

\* From Run-Test/Idle to Shift-IR.
LEMMA SelectIr ==
    ASSUME NEW c \in Sane, c.responds, c.tap = "Idle"
    PROVE  ClockTms(c, <<1, 1, 0, 0>>) = [c EXCEPT !.tap = "ShiftIR", !.shift = {0}]
<1> DEFINE c1 == Tms(c, 1)
           c2 == Tms(c1, 1)
           c3 == Tms(c2, 0)
           c4 == Tms(c3, 0)
<1>1. c1 \in Sane /\ c2 \in Sane /\ c3 \in Sane
  BY TmsType
<1>2. c1 = [c EXCEPT !.tap = "SelectDR"]
  BY Plain DEF TapNext
<1>3. c2 = [c EXCEPT !.tap = "SelectIR"]
  <2> HIDE DEF c1
  <2>1. c1.tap = "SelectDR" /\ c1.responds
    BY <1>2 DEF Sane, Chips
  <2>2. c2 = [c1 EXCEPT !.tap = "SelectIR"]
    BY <1>1, <2>1, Plain DEF TapNext
  <2> QED BY <1>2, <2>2 DEF Sane, Chips
<1>4. c3 = [c EXCEPT !.tap = "CaptureIR"]
  <2> HIDE DEF c2
  <2>1. c2.tap = "SelectIR" /\ c2.responds
    BY <1>3 DEF Sane, Chips
  <2>2. c3 = [c2 EXCEPT !.tap = "CaptureIR"]
    BY <1>1, <2>1, Plain DEF TapNext
  <2> QED BY <1>3, <2>2 DEF Sane, Chips
<1>5. c4 = [c EXCEPT !.tap = "ShiftIR", !.shift = {0}]
  <2> HIDE DEF c3
  <2>1. c3.tap = "CaptureIR" /\ c3.responds
    BY <1>4 DEF Sane, Chips
  <2> DEFINE bit == Bit(0, 0)
  <2>2. bit.tms = 0 /\ c4 = Edge(c3, bit)
    BY <2>1, BitType DEF Tms, After
  <2> HIDE DEF bit
  <2>3. c4 = [c3 EXCEPT !.tap = "ShiftIR", !.shift = {0}]
    BY <1>1, <2>1, <2>2 DEF Edge, TapNext, Sane, Chips
  <2> QED BY <1>4, <2>3 DEF Sane, Chips
<1>6. ClockTms(c, <<1, 1, 0, 0>>) = c4
  BY ClockTms4
<1> QED BY <1>5, <1>6

\* An edge in Shift-IR.
LEMMA IrEdge ==
    ASSUME NEW c \in Sane, c.responds, c.tap = "ShiftIR", NEW bit \in Bits
    PROVE  After(c, bit) = [c EXCEPT !.tap = IF bit.tms = 1 THEN "Exit1IR" ELSE "ShiftIR",
                                     !.shift = Shifted(c.shift, 8, bit.tdi)]
<1>1. bit.tms \in {0, 1}
  BY DEF Bits
<1>2. TapNext[c.tap][bit.tms + 1] = IF bit.tms = 1 THEN "Exit1IR" ELSE "ShiftIR"
  BY <1>1 DEF TapNext
<1>3. After(c, bit) = Edge(c, bit)
  BY DEF After
<1> QED BY <1>2, <1>3 DEF Edge, Sane, Chips

\* Eight bits of which the first i have come in at the top.
Entered(ins, i) == {k \in (8 - i)..7 : k + i - 8 \in ins}

LEMMA EnteredNext ==
    ASSUME NEW ins \in SUBSET (0..7), NEW i \in 1..8, NEW tdi \in {0, 1}, tdi = 1 <=> i - 1 \in ins
    PROVE  /\ i > 1 => Shifted(Entered(ins, i - 1), 8, tdi) = Entered(ins, i)
           /\ i = 1 => Shifted({0}, 8, tdi) = Entered(ins, i)
           /\ Entered(ins, 8) = ins
<1>1. ASSUME i > 1 PROVE Shifted(Entered(ins, i - 1), 8, tdi) = Entered(ins, i)
  <2> DEFINE L == Shifted(Entered(ins, i - 1), 8, tdi)
             R == Entered(ins, i)
  <2>1. ASSUME NEW k \in L PROVE k \in R
    <3>1. CASE tdi = 1 /\ k = 7
      BY <1>1, <3>1 DEF Entered
    <3>2. CASE ~ (tdi = 1 /\ k = 7)
      <4>1. PICK m \in Entered(ins, i - 1) : k = m - 1
        BY <2>1, <3>2 DEF Shifted
      <4> QED BY <1>1, <4>1 DEF Entered
    <3> QED BY <3>1, <3>2
  <2>2. ASSUME NEW k \in R PROVE k \in L
    <3>1. k \in (8 - i)..7 /\ k + i - 8 \in ins
      BY <2>2 DEF Entered
    <3>2. CASE k = 7
      BY <3>1, <3>2 DEF Shifted
    <3>3. CASE k < 7
      <4>1. k + 1 \in Entered(ins, i - 1) \ {0} /\ k = (k + 1) - 1
        BY <1>1, <3>1, <3>3 DEF Entered
      <4> QED BY <4>1 DEF Shifted
    <3> QED BY <3>1, <3>2, <3>3
  <2> QED BY <2>1, <2>2
<1>2. ASSUME i = 1 PROVE Shifted({0}, 8, tdi) = Entered(ins, i)
  BY <1>2 DEF Shifted, Entered
<1>3. Entered(ins, 8) = ins
  <2>1. \A k \in ins : k \in (8 - 8)..7 /\ k + 8 - 8 = k
    OBVIOUS
  <2>2. \A k \in Entered(ins, 8) : k \in ins
    BY DEF Entered
  <2>3. \A k \in ins : k \in Entered(ins, 8)
    BY <2>1 DEF Entered
  <2> QED BY <2>2, <2>3
<1> QED BY <1>1, <1>2, <1>3

\* The eight bits of an instruction.
LEMMA ShiftIr ==
    ASSUME NEW c \in Sane, c.responds, c.tap = "ShiftIR", c.shift = {0}, NEW ins \in SUBSET (0..7)
    PROVE  Clocks(c, [i \in 1..8 |-> Bit(IF i = 8 THEN 1 ELSE 0, IF i - 1 \in ins THEN 1 ELSE 0)])
             = [c EXCEPT !.tap = "Exit1IR", !.shift = ins]
<1> DEFINE bits == [i \in 1..8 |-> Bit(IF i = 8 THEN 1 ELSE 0, IF i - 1 \in ins THEN 1 ELSE 0)]
           Reg(i) == IF i = 0 THEN {0} ELSE Entered(ins, i)
           At8(i) == IF i = 8 THEN "Exit1IR" ELSE "ShiftIR"
<1>1. ASSUME NEW i \in 1..8
      PROVE  /\ bits[i] \in Bits
             /\ bits[i].tms = IF i = 8 THEN 1 ELSE 0
             /\ bits[i].tdi = IF i - 1 \in ins THEN 1 ELSE 0
  BY BitType
<1>2. bits \in Seq(Bits) /\ Len(bits) = 8
  BY <1>1
<1> HIDE DEF bits
<1>3. PICK f \in [0..8 -> Sane] :
              /\ f[0] = c
              /\ \A i \in 1..8 : f[i] = After(f[i - 1], bits[i])
              /\ Clocks(c, bits) = f[8]
  <2>1. \E f \in [0..Len(bits) -> Sane] :
              /\ f[0] = c
              /\ \A i \in 1..Len(bits) : f[i] = After(f[i - 1], bits[i])
              /\ Clocks(c, bits) = f[Len(bits)]
    BY <1>2, ClocksRun, Zenon
  <2> QED BY <1>2, <2>1
<1> DEFINE S == {i \in 0..8 : f[i] = [c EXCEPT !.tap = At8(i), !.shift = Reg(i)]}
<1>4. 0 \in S
  <2>1. At8(0) = c.tap /\ Reg(0) = c.shift
    OBVIOUS
  <2>2. c = [c EXCEPT !.tap = c.tap, !.shift = c.shift]
    BY DEF Sane, Chips
  <2>3. f[0] = [c EXCEPT !.tap = At8(0), !.shift = Reg(0)]
    BY <1>3, <2>1, <2>2, Zenon
  <2> HIDE DEF At8, Reg
  <2> QED BY <2>3
<1>5. ASSUME NEW i \in 1..8, i - 1 \in S PROVE i \in S
  <2> DEFINE d == f[i - 1]
  <2>0. i - 1 \in 0..8 /\ At8(i - 1) = "ShiftIR"
    OBVIOUS
  <2>1. d \in Sane /\ d = [c EXCEPT !.tap = "ShiftIR", !.shift = Reg(i - 1)]
    <3> HIDE DEF At8, Reg
    <3> QED BY <1>3, <1>5, <2>0
  <2> HIDE DEF d, Reg
  <2>2. d.responds /\ d.tap = "ShiftIR" /\ d.shift = Reg(i - 1)
    BY <2>1 DEF Sane, Chips
  <2>3. f[i] = [d EXCEPT !.tap = At8(i), !.shift = Shifted(Reg(i - 1), 8, bits[i].tdi)]
    <3>1. f[i] = After(d, bits[i])
      BY <1>3 DEF d
    <3>2. f[i] = [d EXCEPT !.tap = IF bits[i].tms = 1 THEN "Exit1IR" ELSE "ShiftIR",
                           !.shift = Shifted(d.shift, 8, bits[i].tdi)]
      BY <1>1, <2>1, <2>2, <3>1, IrEdge
    <3>3. (IF bits[i].tms = 1 THEN "Exit1IR" ELSE "ShiftIR") = At8(i)
      BY <1>1
    <3> QED BY <2>2, <3>2, <3>3, Zenon
  <2>4. Shifted(Reg(i - 1), 8, bits[i].tdi) = Reg(i)
    BY <1>1, EnteredNext DEF Reg
  <2>5. f[i] = [c EXCEPT !.tap = At8(i), !.shift = Reg(i)]
    <3> HIDE DEF At8
    <3> QED BY <2>1, <2>3, <2>4 DEF Sane, Chips
  <2> QED BY <2>5
<1>6. 8 \in S
  <2>1. 0..8 \subseteq S
    <3> HIDE DEF S
    <3> QED BY <1>4, <1>5, UpTo
  <2> QED BY <2>1
<1>7. Reg(8) = ins
  BY EnteredNext
<1> QED BY <1>3, <1>6, <1>7 DEF bits

\* The instructions are eight bits, and different.
LEMMA Codes ==
    /\ {NOOP, ERASE_SRAM, XFER_DONE, READ_IDCODE, INIT_ADDR, CONFIG_ENABLE, XFER_WRITE,
        CONFIG_DISABLE, STATUS_REG} \subseteq SUBSET (0..7)
    /\ CONFIG_ENABLE \notin {NOOP, ERASE_SRAM, XFER_DONE, READ_IDCODE, INIT_ADDR, XFER_WRITE,
                             CONFIG_DISABLE, STATUS_REG}
    /\ CONFIG_DISABLE \notin {NOOP, ERASE_SRAM, XFER_DONE, READ_IDCODE, INIT_ADDR, XFER_WRITE, STATUS_REG}
    /\ STATUS_REG \notin {NOOP, ERASE_SRAM, XFER_DONE, READ_IDCODE, INIT_ADDR, XFER_WRITE}
    /\ ERASE_SRAM \notin {NOOP, XFER_DONE, READ_IDCODE, INIT_ADDR, XFER_WRITE}
    /\ INIT_ADDR \notin {NOOP, XFER_DONE, READ_IDCODE, XFER_WRITE}
    /\ XFER_WRITE # READ_IDCODE
<1> USE DEF NOOP, ERASE_SRAM, XFER_DONE, READ_IDCODE, INIT_ADDR, CONFIG_ENABLE, XFER_WRITE,
            CONFIG_DISABLE, STATUS_REG
<1>1. {NOOP, ERASE_SRAM, XFER_DONE, READ_IDCODE, INIT_ADDR, CONFIG_ENABLE, XFER_WRITE,
        CONFIG_DISABLE, STATUS_REG} \subseteq SUBSET (0..7)
  OBVIOUS
<1>2. CONFIG_ENABLE \notin {NOOP, ERASE_SRAM, XFER_DONE, READ_IDCODE, INIT_ADDR, XFER_WRITE,
                             CONFIG_DISABLE, STATUS_REG}
  <2>1. 2 \in CONFIG_ENABLE /\ 4 \in CONFIG_ENABLE /\ 1 \notin CONFIG_ENABLE
    OBVIOUS
  <2>2. \A ins \in {NOOP, ERASE_SRAM, XFER_DONE, READ_IDCODE, INIT_ADDR, XFER_WRITE, CONFIG_DISABLE,
                     STATUS_REG} : 2 \notin ins \/ 4 \notin ins \/ 1 \in ins
    OBVIOUS
  <2> QED BY <2>1, <2>2
<1>3. CONFIG_DISABLE \notin {NOOP, ERASE_SRAM, XFER_DONE, READ_IDCODE, INIT_ADDR, XFER_WRITE, STATUS_REG}
  <2>1. 5 \in CONFIG_DISABLE
    OBVIOUS
  <2>2. \A ins \in {NOOP, ERASE_SRAM, XFER_DONE, READ_IDCODE, INIT_ADDR, XFER_WRITE, STATUS_REG} : 5 \notin ins
    OBVIOUS
  <2> QED BY <2>1, <2>2
<1>4. STATUS_REG \notin {NOOP, ERASE_SRAM, XFER_DONE, READ_IDCODE, INIT_ADDR, XFER_WRITE}
  <2>1. 6 \in STATUS_REG
    OBVIOUS
  <2>2. \A ins \in {NOOP, ERASE_SRAM, XFER_DONE, READ_IDCODE, INIT_ADDR, XFER_WRITE} : 6 \notin ins
    OBVIOUS
  <2> QED BY <2>1, <2>2
<1>5. ERASE_SRAM \notin {NOOP, XFER_DONE, READ_IDCODE, INIT_ADDR, XFER_WRITE}
  <2>1. 2 \in ERASE_SRAM /\ 1 \notin ERASE_SRAM
    OBVIOUS
  <2>2. \A ins \in {NOOP, XFER_DONE, READ_IDCODE, INIT_ADDR, XFER_WRITE} : 2 \notin ins \/ 1 \in ins
    OBVIOUS
  <2> QED BY <2>1, <2>2
<1>6. INIT_ADDR \notin {NOOP, XFER_DONE, READ_IDCODE, XFER_WRITE}
  <2>1. 4 \in INIT_ADDR /\ 0 \notin INIT_ADDR
    OBVIOUS
  <2>2. \A ins \in {NOOP, XFER_DONE, READ_IDCODE, XFER_WRITE} : 4 \notin ins \/ 0 \in ins
    OBVIOUS
  <2> QED BY <2>1, <2>2
<1>7. XFER_WRITE # READ_IDCODE
  <2>1. 1 \in XFER_WRITE /\ 1 \notin READ_IDCODE
    OBVIOUS
  <2> QED BY <2>1
<1> QED BY <1>1, <1>2, <1>3, <1>4, <1>5, <1>6, <1>7

\* An instruction, in Run-Test/Idle.
Instructed(c, ins) == Obey([c EXCEPT !.ir = ins, !.shift = ins])

LEMMA ObeyElsewhere ==
    ASSUME NEW c \in Chips, NEW t \in TapStates
    PROVE  [Obey(c) EXCEPT !.tap = t] = Obey([c EXCEPT !.tap = t])
<1> DEFINE d == [c EXCEPT !.tap = t]
<1>1. d.ir = c.ir /\ d.mode = c.mode
  BY DEF Chips
<1>2. CASE c.ir = CONFIG_ENABLE
  BY <1>1, <1>2, Codes DEF Obey, Chips
<1>3. CASE c.ir = CONFIG_DISABLE
  BY <1>1, <1>3, Codes DEF Obey, Chips
<1>4. CASE c.ir = STATUS_REG /\ c.mode = "entering"
  BY <1>1, <1>4, Codes DEF Obey, Chips
<1>5. CASE c.ir = ERASE_SRAM /\ c.mode = "on"
  BY <1>1, <1>5, Codes DEF Obey, Chips
<1>6. CASE c.ir = INIT_ADDR /\ c.mode = "on"
  BY <1>1, <1>6, Codes DEF Obey, Chips
<1>7. CASE /\ c.ir # CONFIG_ENABLE /\ c.ir # CONFIG_DISABLE
           /\ ~ (c.ir = STATUS_REG /\ c.mode = "entering")
           /\ ~ (c.ir = ERASE_SRAM /\ c.mode = "on")
           /\ ~ (c.ir = INIT_ADDR /\ c.mode = "on")
  BY <1>1, <1>7, Codes DEF Obey, Chips
<1> QED BY <1>2, <1>3, <1>4, <1>5, <1>6, <1>7

\* The end of a scan: through Update-IR, where the instruction takes effect, to
\* Run-Test/Idle.
LEMMA UpdateIr ==
    ASSUME NEW c \in Sane, c.responds, c.tap = "Exit1IR"
    PROVE  ClockTms(c, <<1, 0>>) = Obey([c EXCEPT !.tap = "Idle", !.ir = c.shift])
<1> DEFINE bit == Bit(1, 0)
           d   == [c EXCEPT !.tap = "UpdateIR", !.ir = c.shift]
           c1  == Tms(c, 1)
           c2  == Tms(c1, 0)
<1>1. c \in Chips /\ c.shift \in SUBSET (0..7)
  BY DEF Sane
<1>2. d \in Chips /\ d.tap = "UpdateIR" /\ d.responds
  BY <1>1 DEF Chips, TapStates
<1>3. c1 = Obey(d)
  <2>1. bit.tms = 1 /\ c1 = Edge(c, bit)
    BY BitType DEF Tms, After
  <2> HIDE DEF bit, c1
  <2>2. c1 = Obey([[c EXCEPT !.tap = "UpdateIR"] EXCEPT !.ir = c.shift])
    BY <2>1 DEF Edge, TapNext
  <2> QED BY <1>1, <2>2 DEF Chips
<1>4. c1 \in Sane /\ c1.tap = "UpdateIR" /\ c1.responds
  <2>1. c1 \in Sane
    BY TmsType
  <2> HIDE DEF c1, d
  <2> QED BY <1>2, <1>3, <2>1, ObeyType
<1>5. c2 = [c1 EXCEPT !.tap = "Idle"]
  <2> HIDE DEF c1
  <2> QED BY <1>4, Plain DEF TapNext
<1>6. "Idle" \in TapStates
  BY DEF TapStates
<1>7. c2 = Obey([d EXCEPT !.tap = "Idle"])
  <2> HIDE DEF c1, c2, d
  <2> QED BY <1>2, <1>3, <1>5, <1>6, ObeyElsewhere
<1>8. [d EXCEPT !.tap = "Idle"] = [c EXCEPT !.tap = "Idle", !.ir = c.shift]
  BY <1>1 DEF Chips
<1>9. ClockTms(c, <<1, 0>>) = c2
  BY ClockTms2
<1> QED BY <1>7, <1>8, <1>9

\* An instruction takes effect as in Run-Test/Idle.
LEMMA IrScanIs ==
    ASSUME NEW c \in Sane, c.responds, c.tap = "Idle", NEW ins \in SUBSET (0..7)
    PROVE  IrScan(c, ins) = Instructed(c, ins)
<1> DEFINE c1 == ClockTms(c, <<1, 1, 0, 0>>)
           c2 == Clocks(c1, [i \in 1..8 |-> Bit(IF i = 8 THEN 1 ELSE 0, IF i - 1 \in ins THEN 1 ELSE 0)])
           c3 == ClockTms(c2, <<1, 0>>)
<1>1. c1 = [c EXCEPT !.tap = "ShiftIR", !.shift = {0}]
  BY SelectIr
<1>2. c1 \in Sane
  <2> DEFINE s == {0}
  <2>1. s \in SUBSET (0..31) /\ s \subseteq 0..7 /\ c1 = [c EXCEPT !.tap = "ShiftIR", !.shift = s]
    BY <1>1
  <2> HIDE DEF s, c1
  <2> QED BY <2>1 DEF Sane, Chips, TapStates
<1>3. c1.responds /\ c1.tap = "ShiftIR" /\ c1.shift = {0}
  <2> HIDE DEF c1
  <2> QED BY <1>1 DEF Sane, Chips
<1>4. c2 = [c1 EXCEPT !.tap = "Exit1IR", !.shift = ins]
  <2> HIDE DEF c1
  <2> QED BY <1>2, <1>3, ShiftIr
<1>5. c2 = [c EXCEPT !.tap = "Exit1IR", !.shift = ins]
  <2> HIDE DEF c1, c2
  <2> QED BY <1>1, <1>4 DEF Sane, Chips
<1>6. c2 \in Sane /\ c2.responds /\ c2.tap = "Exit1IR" /\ c2.shift = ins
  <2> HIDE DEF c1, c2
  <2>1. ins \in SUBSET (0..31)
    OBVIOUS
  <2>2. c2 \in Chips
    BY <1>5, <2>1 DEF Sane, Chips, TapStates
  <2>3. c2.responds /\ c2.tap = "Exit1IR" /\ c2.shift = ins
    BY <1>5 DEF Sane, Chips
  <2> QED BY <2>2, <2>3 DEF Sane
<1>7. c3 = Obey([c2 EXCEPT !.tap = "Idle", !.ir = c2.shift])
  <2> HIDE DEF c1, c2
  <2> QED BY <1>6, UpdateIr
<1>8. [c2 EXCEPT !.tap = "Idle", !.ir = c2.shift] = [c EXCEPT !.ir = ins, !.shift = ins]
  <2> HIDE DEF c1, c2
  <2> QED BY <1>5, <1>6 DEF Sane, Chips
<1>9. IrScan(c, ins) = c3
  BY DEF IrScan
<1> QED BY <1>7, <1>8, <1>9 DEF Instructed

\* One idle clock.
LEMMA IdleClock ==
    ASSUME NEW c \in Sane, c.responds, c.tap = "Idle"
    PROVE  Tms(c, 0) = Warmed(c)
<1> DEFINE bit == Bit(0, 0)
<1>1. bit.tms = 0 /\ Tms(c, 0) = Edge(c, bit)
  BY BitType DEF Tms, After
<1> HIDE DEF bit
<1>2. Edge(c, bit) = Warmed([c EXCEPT !.tap = "Idle"])
  BY <1>1 DEF Edge, TapNext
<1>3. [c EXCEPT !.tap = "Idle"] = c
  BY DEF Sane, Chips
<1> QED BY <1>1, <1>2, <1>3

\* An instruction leaves the TAP where it is.
LEMMA InstructedType ==
    ASSUME NEW c \in Sane, c.responds, c.tap = "Idle", NEW ins \in SUBSET (0..7)
    PROVE  /\ Instructed(c, ins) \in Sane
           /\ Instructed(c, ins).tap = "Idle"
           /\ Instructed(c, ins).responds
<1> DEFINE d == [c EXCEPT !.ir = ins, !.shift = ins]
<1>1. ins \in SUBSET (0..31)
  OBVIOUS
<1>2. d \in Chips
  BY <1>1 DEF Sane, Chips
<1>3. d.tap = "Idle" /\ d.responds
  BY DEF Sane, Chips
<1> HIDE DEF d
<1>4. Obey(d) \in Chips /\ Obey(d).tap = "Idle" /\ Obey(d).responds
  BY <1>2, <1>3, ObeyType
<1> QED BY <1>4 DEF Sane, Instructed, d

\* A command is an instruction and an idle clock.
LEMMA SendCommandIs ==
    ASSUME NEW c \in Sane, c.responds, c.tap = "Idle", NEW ins \in SUBSET (0..7)
    PROVE  SendCommand(c, ins) = Warmed(Instructed(c, ins))
<1> DEFINE d == Instructed(c, ins)
<1>1. IrScan(c, ins) = d /\ d \in Sane /\ d.tap = "Idle" /\ d.responds
  BY IrScanIs, InstructedType
<1> HIDE DEF d
<1>2. ClockTms(d, <<0>>) = Warmed(d)
  BY <1>1, ClockTms1, IdleClock
<1> QED BY <1>1, <1>2 DEF SendCommand, RunIdle6, d

-----------------------------------------------------------------------------
(* What calls make of any chip, listening or not, wherever its TAP is. *)

\* From c to d by clocks.
Clocked(c, d) ==
    /\ d \in Sane
    /\ d.responds = c.responds
    /\ ~ c.responds => d = c

LEMMA ClockTmsType ==
    ASSUME NEW c \in Sane, NEW tms \in Seq({0, 1})
    PROVE  Clocked(c, ClockTms(c, tms))
<1> DEFINE bits == [i \in 1..Len(tms) |-> Bit(tms[i], 0)]
<1>1. \A i \in 1..Len(tms) : Bit(tms[i], 0) \in Bits
  BY BitType
<1>2. bits \in Seq(Bits)
  BY <1>1
<1>3. ClockTms(c, tms) = Clocks(c, bits)
  BY DEF ClockTms
<1> HIDE DEF bits
<1> QED BY <1>2, <1>3, ClocksType DEF Clocked

LEMMA ShortType ==
    ASSUME NEW c \in Sane
    PROVE  /\ Clocked(c, ClockTms(c, <<0>>))
           /\ Clocked(c, ClockTms(c, <<0, 0>>))
           /\ Clocked(c, ClockTms(c, <<1, 0>>))
           /\ Clocked(c, ClockTms(c, <<1, 1, 0>>))
           /\ Clocked(c, ClockTms(c, <<1, 1, 0, 0>>))
<1>1. /\ <<0>> \in Seq({0, 1}) /\ <<0, 0>> \in Seq({0, 1}) /\ <<1, 0>> \in Seq({0, 1})
      /\ <<1, 1, 0>> \in Seq({0, 1}) /\ <<1, 1, 0, 0>> \in Seq({0, 1})
  OBVIOUS
<1> QED BY <1>1, ClockTmsType, Zenon

LEMMA IrScanType ==
    ASSUME NEW c \in Sane, NEW ins \in SUBSET (0..7)
    PROVE  Clocked(c, IrScan(c, ins))
<1> DEFINE bits == [i \in 1..8 |-> Bit(IF i = 8 THEN 1 ELSE 0, IF i - 1 \in ins THEN 1 ELSE 0)]
           c1 == ClockTms(c, <<1, 1, 0, 0>>)
           c2 == Clocks(c1, bits)
           c3 == ClockTms(c2, <<1, 0>>)
<1>1. bits \in Seq(Bits)
  <2>1. \A i \in 1..8 : bits[i] \in Bits
    BY BitType
  <2> QED BY <2>1
<1>2. Clocked(c, c1)
  BY ShortType
<1>3. Clocked(c1, c2)
  <2> HIDE DEF c1, bits
  <2> QED BY <1>1, <1>2, ClocksType DEF Clocked
<1>4. Clocked(c2, c3)
  <2> HIDE DEF c1, c2
  <2> QED BY <1>3, ShortType DEF Clocked
<1>5. IrScan(c, ins) = c3
  BY DEF IrScan
<1> HIDE DEF c1, c2, c3
<1> QED BY <1>2, <1>3, <1>4, <1>5 DEF Clocked

LEMMA RunIdleType ==
    ASSUME NEW c \in Sane
    PROVE  Clocked(c, RunIdle6(c)) /\ Clocked(c, RunIdle(c))
BY ShortType DEF RunIdle6, RunIdle

LEMMA SendCommandType ==
    ASSUME NEW c \in Sane, NEW ins \in SUBSET (0..7)
    PROVE  Clocked(c, SendCommand(c, ins))
<1>1. Clocked(c, IrScan(c, ins))
  BY IrScanType
<1>2. Clocked(IrScan(c, ins), SendCommand(c, ins))
  BY <1>1, RunIdleType DEF SendCommand, Clocked
<1> QED BY <1>1, <1>2 DEF Clocked

\* The function that SendAll defines is what its recursion says.
LEMMA SendAllRun ==
    ASSUME NEW c \in Sane, NEW n \in Nat, NEW is \in [1..n -> SUBSET (0..7)]
    PROVE  LET Is(f) == f = [i \in 0..n |-> IF i = 0 THEN c ELSE SendCommand(f[i - 1], is[i])]
               h     == CHOOSE f : Is(f)
           IN  /\ h[0] = c
               /\ \A i \in 1..n : h[i] = SendCommand(h[i - 1], is[i])
<1> DEFINE G == [i \in 1..n |-> [x \in Sane |-> SendCommand(x, is[i])]]
           Is(f) == f = [i \in 0..n |-> IF i = 0 THEN c ELSE SendCommand(f[i - 1], is[i])]
           h == CHOOSE f : Is(f)
<1>1. \A i \in 1..n : is[i] \in SUBSET (0..7)
  OBVIOUS
<1>2. G \in [1..n -> [Sane -> Sane]]
  BY <1>1, SendCommandType DEF Clocked
<1>3. PICK f \in [0..n -> Sane] : f[0] = c /\ \A i \in 1..n : f[i] = G[i][f[i - 1]]
  <2> HIDE DEF G
  <2>1. \A H \in [1..n -> [Sane -> Sane]] :
           \E f \in [0..n -> Sane] : f[0] = c /\ \A i \in 1..n : f[i] = H[i][f[i - 1]]
    BY SaneIterates, Zenon
  <2> QED BY <1>2, <2>1
<1>4. ASSUME NEW i \in 1..n, NEW x \in Sane
      PROVE  G[i][x] = SendCommand(x, is[i])
  OBVIOUS
<1>5. ASSUME NEW i \in 0..n
      PROVE  f[i] = IF i = 0 THEN c ELSE SendCommand(f[i - 1], is[i])
  <2> HIDE DEF G
  <2>1. CASE i = 0
    BY <1>3, <2>1
  <2>2. CASE i \in 1..n
    <3>1. f[i - 1] \in Sane
      BY <1>3, <2>2
    <3> QED BY <1>3, <1>4, <2>2, <3>1
  <2> QED BY <2>1, <2>2
<1>6. f = [i \in 0..n |-> f[i]]
  BY <1>3
<1>7. Is(f)
  BY <1>5, <1>6
<1>8. Is(h)
  BY <1>7
<1> HIDE DEF h
<1>9. ASSUME NEW i \in 0..n
      PROVE  h[i] = IF i = 0 THEN c ELSE SendCommand(h[i - 1], is[i])
  BY <1>8
<1> QED BY <1>9 DEF h

LEMMA SendAllIs ==
    ASSUME NEW c \in Sane, NEW is \in Seq(SUBSET (0..7))
    PROVE  \E h : /\ h[0] = c
                  /\ \A i \in 1..Len(is) : h[i] = SendCommand(h[i - 1], is[i])
                  /\ SendAll(c, is) = h[Len(is)]
<1>1. Len(is) \in Nat /\ is \in [1..Len(is) -> SUBSET (0..7)]
  OBVIOUS
<1> QED BY <1>1, SendAllRun DEF SendAll

LEMMA SendAll2 ==
    ASSUME NEW c \in Sane, NEW a1 \in SUBSET (0..7), NEW a2 \in SUBSET (0..7)
    PROVE  SendAll(c, <<a1, a2>>) = SendCommand(SendCommand(c, a1), a2)
<1> DEFINE P == SUBSET (0..7)
           is == <<a1, a2>>
<1>1. is \in Seq(P) /\ Len(is) = 2 /\ is[1] = a1 /\ is[2] = a2
  <2> HIDE DEF P
  <2>1. a1 \in P /\ a2 \in P
    BY DEF P
  <2> QED BY <2>1
<1> HIDE DEF is
<1>2. SendAll(c, is) = SendCommand(SendCommand(c, a1), a2)
  <2>1. PICK h : /\ h[0] = c
                 /\ \A i \in 1..Len(is) : h[i] = SendCommand(h[i - 1], is[i])
                 /\ SendAll(c, is) = h[Len(is)]
    BY <1>1, SendAllIs
  <2> HIDE DEF P
  <2>2. \A i \in 1..2 : h[i] = SendCommand(h[i - 1], is[i])
    BY <1>1, <2>1
  <2>3. h[1] = SendCommand(h[0], is[1]) /\ h[2] = SendCommand(h[1], is[2])
    BY <2>2
  <2> QED BY <1>1, <2>1, <2>3
<1> QED BY <1>2 DEF is

LEMMA SendAll4 ==
    ASSUME NEW c \in Sane, NEW a1 \in SUBSET (0..7), NEW a2 \in SUBSET (0..7),
           NEW a3 \in SUBSET (0..7), NEW a4 \in SUBSET (0..7)
    PROVE  SendAll(c, <<a1, a2, a3, a4>>)
             = SendCommand(SendCommand(SendCommand(SendCommand(c, a1), a2), a3), a4)
<1> DEFINE P == SUBSET (0..7)
           is == <<a1, a2, a3, a4>>
<1>1. /\ is \in Seq(P) /\ Len(is) = 4
      /\ is[1] = a1 /\ is[2] = a2 /\ is[3] = a3 /\ is[4] = a4
  <2> HIDE DEF P
  <2>1. a1 \in P /\ a2 \in P /\ a3 \in P /\ a4 \in P
    BY DEF P
  <2> QED BY <2>1
<1> HIDE DEF is
<1>2. SendAll(c, is) = SendCommand(SendCommand(SendCommand(SendCommand(c, a1), a2), a3), a4)
  <2>1. PICK h : /\ h[0] = c
                 /\ \A i \in 1..Len(is) : h[i] = SendCommand(h[i - 1], is[i])
                 /\ SendAll(c, is) = h[Len(is)]
    BY <1>1, SendAllIs
  <2> HIDE DEF P
  <2>2. \A i \in 1..4 : h[i] = SendCommand(h[i - 1], is[i])
    BY <1>1, <2>1
  <2>3. /\ h[1] = SendCommand(h[0], is[1]) /\ h[2] = SendCommand(h[1], is[2])
        /\ h[3] = SendCommand(h[2], is[3]) /\ h[4] = SendCommand(h[3], is[4])
    BY <2>2
  <2> QED BY <1>1, <2>1, <2>3
<1> QED BY <1>2 DEF is

LEMMA SendAllType ==
    ASSUME NEW c \in Sane
    PROVE  /\ \A a, b \in SUBSET (0..7) : Clocked(c, SendAll(c, <<a, b>>))
           /\ \A a1, a2, a3, a4 \in SUBSET (0..7) : Clocked(c, SendAll(c, <<a1, a2, a3, a4>>))
<1>1. ASSUME NEW a \in SUBSET (0..7), NEW b \in SUBSET (0..7)
      PROVE  Clocked(c, SendCommand(SendCommand(c, a), b))
  <2>1. Clocked(c, SendCommand(c, a))
    BY SendCommandType
  <2>2. Clocked(SendCommand(c, a), SendCommand(SendCommand(c, a), b))
    BY <2>1, SendCommandType DEF Clocked
  <2> QED BY <2>1, <2>2 DEF Clocked
<1>2. ASSUME NEW a1 \in SUBSET (0..7), NEW a2 \in SUBSET (0..7),
             NEW a3 \in SUBSET (0..7), NEW a4 \in SUBSET (0..7)
      PROVE  Clocked(c, SendCommand(SendCommand(SendCommand(SendCommand(c, a1), a2), a3), a4))
  <2> DEFINE d == SendCommand(SendCommand(c, a1), a2)
             e == SendCommand(d, a3)
  <2>1. Clocked(c, d)
    BY <1>1
  <2> HIDE DEF d
  <2>2. Clocked(d, e)
    BY <2>1, SendCommandType DEF Clocked
  <2> HIDE DEF e
  <2>3. Clocked(e, SendCommand(e, a4))
    BY <2>2, SendCommandType DEF Clocked
  <2>4. Clocked(c, SendCommand(e, a4))
    BY <2>1, <2>2, <2>3 DEF Clocked
  <2> QED BY <2>4 DEF d, e
<1>3. \A a, b \in SUBSET (0..7) : SendAll(c, <<a, b>>) = SendCommand(SendCommand(c, a), b)
  BY SendAll2
<1>4. \A a1, a2, a3, a4 \in SUBSET (0..7) :
        SendAll(c, <<a1, a2, a3, a4>>)
          = SendCommand(SendCommand(SendCommand(SendCommand(c, a1), a2), a3), a4)
  BY SendAll4
<1> QED BY <1>1, <1>2, <1>3, <1>4

-----------------------------------------------------------------------------
(* What the commands do with a chip that listens, in Run-Test/Idle. *)

Idling(c) == c \in Sane /\ c.responds /\ c.tap = "Idle"

\* A chip with an instruction of eight bits in its register.
Loaded(c, ins) == [c EXCEPT !.ir = ins, !.shift = ins]

LEMMA LoadedType ==
    ASSUME NEW c, Idling(c), NEW ins \in SUBSET (0..7)
    PROVE  /\ Idling(Loaded(c, ins)) /\ Loaded(c, ins).ir = ins
           /\ Loaded(c, ins).mode = c.mode /\ Loaded(c, ins).warm = c.warm
           /\ Loaded(c, ins).addr = c.addr /\ Loaded(c, ins).crc = c.crc
           /\ Loaded(c, ins).sram = c.sram /\ Loaded(c, ins).taken = c.taken
<1>1. ins \in SUBSET (0..31)
  OBVIOUS
<1> QED BY <1>1 DEF Loaded, Idling, Sane, Chips

LEMMA WarmedStays ==
    ASSUME NEW c, c.mode # "entering"
    PROVE  Warmed(c) = c
BY DEF Warmed

\* In the configuration mode, or out of it, most instructions do nothing yet.
LEMMA CommandStays ==
    ASSUME NEW c, Idling(c), NEW ins \in {NOOP, XFER_DONE, XFER_WRITE, STATUS_REG, READ_IDCODE},
           c.mode # "entering"
    PROVE  SendCommand(c, ins) = Loaded(c, ins)
<1>1. ins \in SUBSET (0..7) /\ ins \notin {CONFIG_ENABLE, CONFIG_DISABLE, ERASE_SRAM, INIT_ADDR}
  BY Codes
<1>2. Idling(Loaded(c, ins)) /\ Loaded(c, ins).ir = ins /\ Loaded(c, ins).mode # "entering"
  BY <1>1, LoadedType
<1>3. Instructed(c, ins) = Loaded(c, ins)
  <2>1. Obey(Loaded(c, ins)) = Loaded(c, ins)
    BY <1>1, <1>2 DEF Obey
  <2> QED BY <2>1 DEF Instructed, Loaded
<1>4. SendCommand(c, ins) = Warmed(Instructed(c, ins))
  BY <1>1, SendCommandIs DEF Idling
<1> QED BY <1>2, <1>3, <1>4, WarmedStays

LEMMA CommandErases ==
    ASSUME NEW c, Idling(c), c.mode = "on"
    PROVE  SendCommand(c, ERASE_SRAM)
             = [Loaded(c, ERASE_SRAM) EXCEPT !.sram = "erasing", !.taken = <<>>, !.crc = FALSE]
<1> DEFINE d == Loaded(c, ERASE_SRAM)
           e == [d EXCEPT !.sram = "erasing", !.taken = <<>>, !.crc = FALSE]
<1>1. ERASE_SRAM \in SUBSET (0..7) /\ ERASE_SRAM \notin {CONFIG_ENABLE, CONFIG_DISABLE, STATUS_REG}
  BY Codes
<1>2. Idling(d) /\ d.ir = ERASE_SRAM /\ d.mode = "on"
  BY <1>1, LoadedType
<1>3. Instructed(c, ERASE_SRAM) = e
  <2>1. Instructed(c, ERASE_SRAM) = Obey(d)
    BY DEF Instructed, Loaded
  <2> HIDE DEF d
  <2>2. ERASE_SRAM # INIT_ADDR
    BY Codes
  <2> QED BY <1>1, <1>2, <2>1, <2>2 DEF Obey
<1>4. SendCommand(c, ERASE_SRAM) = Warmed(Instructed(c, ERASE_SRAM))
  BY <1>1, SendCommandIs DEF Idling
<1>5. e.mode = "on"
  <2> HIDE DEF d
  <2> QED BY <1>2 DEF Idling, Sane, Chips
<1> QED BY <1>3, <1>4, <1>5, WarmedStays

LEMMA CommandAddresses ==
    ASSUME NEW c, Idling(c), c.mode = "on"
    PROVE  SendCommand(c, INIT_ADDR) = [Loaded(c, INIT_ADDR) EXCEPT !.addr = TRUE]
<1> DEFINE d == Loaded(c, INIT_ADDR)
           e == [d EXCEPT !.addr = TRUE]
<1>1. INIT_ADDR \in SUBSET (0..7) /\ INIT_ADDR \notin {CONFIG_ENABLE, CONFIG_DISABLE, STATUS_REG, ERASE_SRAM}
  BY Codes
<1>2. Idling(d) /\ d.ir = INIT_ADDR /\ d.mode = "on"
  BY <1>1, LoadedType
<1>3. Instructed(c, INIT_ADDR) = e
  <2>1. Instructed(c, INIT_ADDR) = Obey(d)
    BY DEF Instructed, Loaded
  <2> HIDE DEF d
  <2> QED BY <1>1, <1>2, <2>1 DEF Obey
<1>4. SendCommand(c, INIT_ADDR) = Warmed(Instructed(c, INIT_ADDR))
  BY <1>1, SendCommandIs DEF Idling
<1>5. e.mode = "on"
  <2> HIDE DEF d
  <2> QED BY <1>2 DEF Idling, Sane, Chips
<1> QED BY <1>3, <1>4, <1>5, WarmedStays

LEMMA CommandDisables ==
    ASSUME NEW c, Idling(c)
    PROVE  SendCommand(c, CONFIG_DISABLE)
             = [Loaded(c, CONFIG_DISABLE) EXCEPT !.mode = "off", !.addr = FALSE]
<1> DEFINE d == Loaded(c, CONFIG_DISABLE)
           e == [d EXCEPT !.mode = "off", !.addr = FALSE]
<1>1. CONFIG_DISABLE \in SUBSET (0..7) /\ CONFIG_DISABLE \notin {CONFIG_ENABLE, INIT_ADDR, STATUS_REG, ERASE_SRAM}
  BY Codes
<1>2. Idling(d) /\ d.ir = CONFIG_DISABLE
  BY <1>1, LoadedType
<1>3. Instructed(c, CONFIG_DISABLE) = e
  <2>1. Instructed(c, CONFIG_DISABLE) = Obey(d)
    BY DEF Instructed, Loaded
  <2> HIDE DEF d
  <2> QED BY <1>1, <1>2, <2>1 DEF Obey
<1>4. SendCommand(c, CONFIG_DISABLE) = Warmed(Instructed(c, CONFIG_DISABLE))
  BY <1>1, SendCommandIs DEF Idling
<1>5. e.mode = "off"
  <2> HIDE DEF d
  <2> QED BY <1>2 DEF Idling, Sane, Chips
<1> QED BY <1>3, <1>4, <1>5, WarmedStays

\* The extra idle clocks after CONFIG_ENABLE complete the entry.
LEMMA CommandEnables ==
    ASSUME NEW c, Idling(c)
    PROVE  RunIdle(SendCommand(c, CONFIG_ENABLE))
             = [Loaded(c, CONFIG_ENABLE) EXCEPT !.mode = "on", !.warm = 2]
<1> DEFINE d  == Loaded(c, CONFIG_ENABLE)
           Warm(m, w) == [d EXCEPT !.mode = m, !.warm = w]
           e0 == Warm("entering", 0)
           e1 == Warm("entering", 1)
           e2 == Warm("entering", 2)
           e3 == Warm("on", 2)
<1>1. CONFIG_ENABLE \in SUBSET (0..7) /\ CONFIG_ENABLE \notin {CONFIG_DISABLE, INIT_ADDR, STATUS_REG, ERASE_SRAM}
  BY Codes
<1>2. Idling(d) /\ d.ir = CONFIG_ENABLE
  BY <1>1, LoadedType
<1> HIDE DEF d
<1>3. ASSUME NEW m \in {"off", "entering", "on"}, NEW w \in 0..2
      PROVE  Idling(Warm(m, w)) /\ Warm(m, w).mode = m /\ Warm(m, w).warm = w
  BY <1>2 DEF Idling, Sane, Chips
<1>4. Idling(e0) /\ Idling(e1) /\ Idling(e2) /\ Idling(e3)
  <2>1. 0 \in 0..2 /\ 1 \in 0..2 /\ 2 \in 0..2
    OBVIOUS
  <2> HIDE DEF Warm
  <2> QED BY <1>3, <2>1
<1>5. Warmed(e0) = e1 /\ Warmed(e1) = e2 /\ Warmed(e2) = e3
  <2>1. /\ e0.mode = "entering" /\ e1.mode = "entering" /\ e2.mode = "entering"
        /\ e0.warm = 0 /\ e1.warm = 1 /\ e2.warm = 2
    <3>1. 0 \in 0..2 /\ 1 \in 0..2 /\ 2 \in 0..2
      OBVIOUS
    <3> HIDE DEF Warm
    <3> QED BY <1>3, <3>1
  <2>2. [e0 EXCEPT !.warm = e0.warm + 1] = e1 /\ [e1 EXCEPT !.warm = e1.warm + 1] = e2
        /\ [e2 EXCEPT !.mode = "on"] = e3
    <3>1. ASSUME NEW m, NEW w, NEW v PROVE [Warm(m, w) EXCEPT !.warm = v] = Warm(m, v)
      BY <1>2 DEF Idling, Sane, Chips
    <3>2. ASSUME NEW m, NEW w, NEW v PROVE [Warm(m, w) EXCEPT !.mode = v] = Warm(v, w)
      BY <1>2 DEF Idling, Sane, Chips
    <3>3. e0.warm + 1 = 1 /\ e1.warm + 1 = 2
      <4> HIDE DEF e0, e1
      <4> QED BY <2>1
    <3> HIDE DEF Warm
    <3> QED BY <3>1, <3>2, <3>3
  <2> HIDE DEF e0, e1, e2, e3
  <2> QED BY <2>1, <2>2 DEF Warmed
<1> HIDE DEF Warm
<1>6. SendCommand(c, CONFIG_ENABLE) = e1
  <2>1. Instructed(c, CONFIG_ENABLE) = Obey(d)
    BY DEF Instructed, Loaded, d
  <2>2. Obey(d) = e0
    BY <1>1, <1>2 DEF Obey, Warm
  <2>3. SendCommand(c, CONFIG_ENABLE) = Warmed(Instructed(c, CONFIG_ENABLE))
    BY <1>1, SendCommandIs DEF Idling
  <2> QED BY <1>5, <2>1, <2>2, <2>3
<1> HIDE DEF e0, e1, e2, e3
<1>7. ClockTms(e1, <<0, 0>>) = Tms(Tms(e1, 0), 0)
  BY <1>4, ClockTms2 DEF Idling
<1>8. Tms(e1, 0) = e2 /\ Tms(e2, 0) = e3
  BY <1>4, <1>5, IdleClock DEF Idling
<1> QED BY <1>6, <1>7, <1>8 DEF RunIdle, e3, Warm, d

\* Idle clocks complete an entry into the configuration mode, or change nothing.
LEMMA WarmedKeeps ==
    ASSUME NEW c \in Chips
    PROVE  /\ Warmed(c).ir = c.ir /\ Warmed(c).addr = c.addr /\ Warmed(c).crc = c.crc
           /\ Warmed(c).sram = c.sram /\ Warmed(c).taken = c.taken
<1>1. c.mode \in {"off", "entering", "on"} /\ c.warm \in 0..2
  BY DEF Chips
<1>2. CASE c.mode = "entering" /\ c.warm < 2
  BY <1>2 DEF Warmed, Chips
<1>3. CASE c.mode = "entering" /\ c.warm = 2
  BY <1>3 DEF Warmed, Chips
<1>4. CASE c.mode # "entering"
  BY <1>4 DEF Warmed
<1> QED BY <1>1, <1>2, <1>3, <1>4

LEMMA RunIdle6Is ==
    ASSUME NEW c, Idling(c)
    PROVE  RunIdle6(c) = Warmed(c) /\ Idling(Warmed(c))
<1>1. RunIdle6(c) = Warmed(c)
  BY ClockTms1, IdleClock DEF RunIdle6, Idling
<1>2. Warmed(c) \in Chips /\ Warmed(c).tap = "Idle" /\ Warmed(c).responds
  BY WarmedType DEF Idling, Sane
<1> QED BY <1>1, <1>2 DEF Idling, Sane

LEMMA RunIdleIs ==
    ASSUME NEW c, Idling(c)
    PROVE  /\ RunIdle(c) = Warmed(Warmed(c)) /\ Idling(RunIdle(c))
           /\ c.mode # "entering" => RunIdle(c) = c
<1>1. Idling(Warmed(c)) /\ Idling(Warmed(Warmed(c)))
  BY RunIdle6Is
<1>2. RunIdle(c) = Tms(Tms(c, 0), 0)
  BY ClockTms2 DEF RunIdle, Idling
<1>3. Tms(c, 0) = Warmed(c) /\ Tms(Warmed(c), 0) = Warmed(Warmed(c))
  BY <1>1, IdleClock DEF Idling
<1> QED BY <1>1, <1>2, <1>3, WarmedStays

-----------------------------------------------------------------------------
(* Ten clocks with TMS = 1 lead to Test-Logic-Reset from anywhere. *)

\* The states of the TAP from which n clocks do.
Within(n) ==
    {"Reset"} \cup (IF n >= 1 THEN {"SelectIR"} ELSE {})
              \cup (IF n >= 2 THEN {"SelectDR"} ELSE {})
              \cup (IF n >= 3 THEN {"Idle", "UpdateDR", "UpdateIR"} ELSE {})
              \cup (IF n >= 4 THEN {"Exit1DR", "Exit2DR", "Exit1IR", "Exit2IR"} ELSE {})
              \cup (IF n >= 5 THEN TapStates ELSE {})

LEMMA TmsTap ==
    ASSUME NEW c \in Sane, c.responds, NEW a \in {0, 1}
    PROVE  Tms(c, a) \in Sane /\ Tms(c, a).responds /\ Tms(c, a).tap = TapNext[c.tap][a + 1]
<1> DEFINE bit == Bit(a, 0)
<1>1. bit \in Bits /\ bit.tms = a /\ Tms(c, a) = Edge(c, bit)
  BY BitType DEF Tms, After
<1> HIDE DEF bit
<1> QED BY <1>1, EdgeType

LEMMA Nearer ==
    ASSUME NEW c \in Sane, c.responds, NEW n \in 0..5, c.tap \in Within(n)
    PROVE  Tms(c, 1).tap \in IF n = 0 THEN {"Reset"} ELSE Within(n - 1)
<1>1. Tms(c, 1).tap = TapNext[c.tap][2]
  BY TmsTap
<1>2. c.tap \in TapStates
  BY DEF Sane, Chips
<1> QED BY <1>1, <1>2 DEF Within, TapNext, TapStates

LEMMA IntoReset ==
    ASSUME NEW c \in Sane, c.responds, c.tap \in Within(1)
    PROVE  Tms(c, 1) = [c EXCEPT !.tap = "Reset", !.ir = READ_IDCODE]
<1> DEFINE bit == Bit(1, 0)
<1>1. bit.tms = 1 /\ Tms(c, 1) = Edge(c, bit)
  BY BitType DEF Tms, After
<1> HIDE DEF bit
<1>2. c.tap \in {"Reset", "SelectIR"}
  BY DEF Within
<1>3. TapNext[c.tap][2] = "Reset"
  BY <1>2 DEF TapNext
<1> DEFINE to    == TapNext[c.tap][bit.tms + 1]
           moved == [c EXCEPT !.tap = to]
<1>4. Edge(c, bit) = [moved EXCEPT !.ir = READ_IDCODE]
  <2>1. to = "Reset"
    BY <1>1, <1>3
  <2> HIDE DEF to, moved
  <2> QED BY <1>2, <2>1 DEF Edge, to, moved
<1>5. moved = [c EXCEPT !.tap = "Reset"]
  BY <1>1, <1>3
<1> HIDE DEF moved
<1> QED BY <1>1, <1>4, <1>5 DEF Sane, Chips

LEMMA TenOnes ==
    ASSUME NEW c \in Sane
    PROVE  \E f \in [0..10 -> Sane] :
              f[0] = c /\ (\A i \in 1..10 : f[i] = Tms(f[i - 1], 1)) /\ GotoReset(c) = f[10]
<1> DEFINE tms == [i \in 1..10 |-> 1]
<1>1. tms \in Seq({0, 1}) /\ Len(tms) = 10 /\ \A i \in 1..10 : tms[i] = 1
  OBVIOUS
<1>2. GotoReset(c) = ClockTms(c, tms)
  BY DEF GotoReset
<1> HIDE DEF tms
<1>3. PICK f \in [0..Len(tms) -> Sane] :
              /\ f[0] = c
              /\ \A i \in 1..Len(tms) : f[i] = Tms(f[i - 1], tms[i])
              /\ ClockTms(c, tms) = f[Len(tms)]
  BY <1>1, TmsRun
<1> QED BY <1>1, <1>2, <1>3

LEMMA GotoResetIs ==
    ASSUME NEW c \in Sane, c.responds
    PROVE  /\ GotoReset(c) \in Sane /\ GotoReset(c).responds
           /\ GotoReset(c).tap = "Reset" /\ GotoReset(c).ir = READ_IDCODE
<1>1. PICK f \in [0..10 -> Sane] :
              f[0] = c /\ (\A i \in 1..10 : f[i] = Tms(f[i - 1], 1)) /\ GotoReset(c) = f[10]
  BY TenOnes
<1> DEFINE Left(i) == IF i <= 5 THEN 5 - i ELSE 0
           S == {i \in 0..10 : f[i].responds /\ f[i].tap \in Within(Left(i))}
<1>2. 0 \in S
  BY <1>1 DEF Within, Sane, Chips
<1>3. ASSUME NEW i \in 1..10, i - 1 \in S PROVE i \in S
  <2> DEFINE d == f[i - 1]
             n == Left(i - 1)
  <2>1. d \in Sane /\ d.responds /\ n \in 0..5 /\ d.tap \in Within(n) /\ f[i] = Tms(d, 1)
    BY <1>1, <1>3
  <2>2. Left(i) = IF n = 0 THEN 0 ELSE n - 1
    OBVIOUS
  <2> HIDE DEF d, n, Left
  <2>3. Tms(d, 1).responds /\ Tms(d, 1).tap \in IF n = 0 THEN {"Reset"} ELSE Within(n - 1)
    BY <2>1, TmsTap, Nearer
  <2>4. "Reset" \in Within(0)
    BY DEF Within
  <2> QED BY <2>1, <2>2, <2>3, <2>4
<1>4. 0..10 \subseteq S
  <2> HIDE DEF S
  <2> QED BY <1>2, <1>3, UpTo
<1>5. f[9] \in Sane /\ f[9].responds /\ f[9].tap \in Within(0)
  BY <1>1, <1>4
<1>6. f[10] = [f[9] EXCEPT !.tap = "Reset", !.ir = READ_IDCODE]
  <2>1. f[9].tap \in Within(1) /\ f[10] = Tms(f[9], 1)
    BY <1>1, <1>5 DEF Within
  <2> QED BY <1>5, <2>1, IntoReset
<1>7. f[10] \in Sane
  BY <1>1
<1> QED BY <1>1, <1>5, <1>6, <1>7 DEF Sane, Chips

\* From Run-Test/Idle, nothing else happens on the way.
LEMMA ResetFromIdle ==
    ASSUME NEW c, Idling(c)
    PROVE  GotoReset(c) = [c EXCEPT !.tap = "Reset", !.ir = READ_IDCODE]
<1> DEFINE r == [c EXCEPT !.tap = "Reset", !.ir = READ_IDCODE]
<1>1. PICK f \in [0..10 -> Sane] :
              f[0] = c /\ (\A i \in 1..10 : f[i] = Tms(f[i - 1], 1)) /\ GotoReset(c) = f[10]
  BY TenOnes DEF Idling
<1>2. f[1] = [c EXCEPT !.tap = "SelectDR"]
  <2>1. Tms(c, 1) = [c EXCEPT !.tap = "SelectDR"]
    BY Plain DEF Idling, TapNext
  <2> QED BY <1>1, <2>1
<1>3. f[2] = [c EXCEPT !.tap = "SelectIR"]
  <2> DEFINE d == f[1]
  <2>1. d \in Sane /\ f[2] = Tms(d, 1)
    BY <1>1
  <2>2. d.tap = "SelectDR" /\ d.responds
    BY <1>2 DEF Idling, Sane, Chips
  <2> HIDE DEF d
  <2>3. f[2] = [d EXCEPT !.tap = "SelectIR"]
    BY <2>1, <2>2, Plain DEF TapNext
  <2> QED BY <1>2, <2>3 DEF Idling, Sane, Chips, d
<1> DEFINE S == {i \in 0..10 : i <= 2 \/ f[i] = r}
<1>4. 0 \in S
  OBVIOUS
<1>5. ASSUME NEW i \in 1..10, i - 1 \in S PROVE i \in S
  <2> DEFINE d == f[i - 1]
  <2>1. d \in Sane /\ f[i] = Tms(d, 1)
    BY <1>1
  <2>2. CASE i = 3
    <3>1. d = [c EXCEPT !.tap = "SelectIR"]
      BY <1>3, <2>2
    <3> HIDE DEF d
    <3>2. d.tap \in Within(1) /\ d.responds
      BY <3>1 DEF Within, Idling, Sane, Chips
    <3>3. f[i] = [d EXCEPT !.tap = "Reset", !.ir = READ_IDCODE]
      BY <2>1, <3>2, IntoReset
    <3>4. f[i] = r
      BY <3>1, <3>3 DEF Idling, Sane, Chips
    <3> QED BY <3>4
  <2>3. CASE i > 3
    <3>1. d = r
      BY <1>5, <2>3
    <3> HIDE DEF d
    <3>2. d.tap \in Within(1) /\ d.responds
      BY <3>1 DEF Within, Idling, Sane, Chips
    <3>3. f[i] = [d EXCEPT !.tap = "Reset", !.ir = READ_IDCODE]
      BY <2>1, <3>2, IntoReset
    <3>4. f[i] = r
      BY <3>1, <3>3 DEF Idling, Sane, Chips
    <3> QED BY <3>4
  <2> QED BY <2>2, <2>3
<1>6. 0..10 \subseteq S
  <2> HIDE DEF S
  <2> QED BY <1>4, <1>5, UpTo
<1> QED BY <1>1, <1>6

\* To Run-Test/Idle from anywhere.
LEMMA GotoIdleIs ==
    ASSUME NEW c \in Sane, c.responds
    PROVE  Idling(GotoIdle(c)) /\ GotoIdle(c).ir = READ_IDCODE
<1> DEFINE r == GotoReset(c)
<1>1. r \in Sane /\ r.responds /\ r.tap = "Reset" /\ r.ir = READ_IDCODE
  BY GotoResetIs
<1> HIDE DEF r
<1>2. ClockTms(r, <<0>>) = Tms(r, 0)
  BY <1>1, ClockTms1
<1>3. Tms(r, 0) = [r EXCEPT !.tap = "Idle"]
  BY <1>1, Plain DEF TapNext
<1>4. Tms(r, 0) \in Sane
  BY <1>1, TmsType
<1> QED BY <1>1, <1>2, <1>3, <1>4 DEF GotoIdle, r, Idling, Sane, Chips

LEMMA GotoType ==
    ASSUME NEW c \in Sane
    PROVE  Clocked(c, GotoReset(c)) /\ Clocked(c, GotoIdle(c))
<1> DEFINE tms == [i \in 1..10 |-> 1]
<1>1. tms \in Seq({0, 1})
  OBVIOUS
<1>2. Clocked(c, ClockTms(c, tms))
  <2> HIDE DEF tms
  <2> QED BY <1>1, ClockTmsType
<1>3. Clocked(c, GotoReset(c))
  BY <1>2 DEF GotoReset
<1>4. Clocked(GotoReset(c), GotoIdle(c))
  BY <1>3, ShortType DEF GotoIdle, Clocked
<1> QED BY <1>3, <1>4 DEF Clocked

-----------------------------------------------------------------------------
(* Readings. *)

SaneReadings == [chip : Sane, ones : SUBSET (0..31)]

LEMMA SampleIs ==
    ASSUME NEW x \in SaneReadings, NEW bit \in Bits, NEW n \in 0..31
    PROVE  /\ Sample[<<x, bit, n>>] \in SaneReadings
           /\ Sample[<<x, bit, n>>].chip = After(x.chip, bit)
           /\ Sample[<<x, bit, n>>].ones
                = IF Tdo(After(x.chip, bit)) THEN x.ones \cup {n} ELSE x.ones
<1>1. x \in Readings /\ x.chip \in Sane /\ x.ones \in SUBSET (0..31)
  BY DEF SaneReadings, Readings, Sane
<1>2. Clock[<<x.chip, bit>>] = After(x.chip, bit) /\ After(x.chip, bit) \in Sane
  BY <1>1, ClockIsAfter
<1>3. Sample[<<x, bit, n>>]
        = [chip |-> After(x.chip, bit),
           ones |-> IF Tdo(After(x.chip, bit)) THEN x.ones \cup {n} ELSE x.ones]
  BY <1>1, <1>2 DEF Sample
<1> QED BY <1>1, <1>2, <1>3 DEF SaneReadings

LEMMA ReadingIterates ==
    ASSUME NEW x \in SaneReadings
    PROVE  \A G \in [1..32 -> [SaneReadings -> SaneReadings]] :
              \E f \in [0..32 -> SaneReadings] : f[0] = x /\ \A i \in 1..32 : f[i] = G[i][f[i - 1]]
<1>1. 32 \in Nat
  OBVIOUS
<1>2. \A n \in Nat : \A G \in [1..n -> [SaneReadings -> SaneReadings]] :
              \E f \in [0..n -> SaneReadings] : f[0] = x /\ \A i \in 1..n : f[i] = G[i][f[i - 1]]
  BY Iterates
<1> QED BY <1>1, <1>2

ReadBit(i, tdi) == Bit(IF i = 32 THEN 1 ELSE 0, tdi)

\* The 32 samples, of the chip c in Capture-DR.
LEMMA ReadExists ==
    ASSUME NEW c \in Sane, NEW tdi \in {0, 1}
    PROVE  LET Is(f) == f = [i \in 0..32 |->
                              IF i = 0 THEN [chip |-> c, ones |-> {}]
                              ELSE Sample[<<f[i - 1], Bit(IF i = 32 THEN 1 ELSE 0, tdi), i - 1>>]]
               h     == CHOOSE f : Is(f)
           IN  /\ h \in [0..32 -> SaneReadings]
               /\ h[0] = [chip |-> c, ones |-> {}]
               /\ \A i \in 1..32 : h[i] = Sample[<<h[i - 1], ReadBit(i, tdi), i - 1>>]
<1> DEFINE x == [chip |-> c, ones |-> {}]
           G == [i \in 1..32 |-> [y \in SaneReadings |-> Sample[<<y, ReadBit(i, tdi), i - 1>>]]]
           Is(f) == f = [i \in 0..32 |->
                              IF i = 0 THEN [chip |-> c, ones |-> {}]
                              ELSE Sample[<<f[i - 1], Bit(IF i = 32 THEN 1 ELSE 0, tdi), i - 1>>]]
           h == CHOOSE f : Is(f)
<1>1. \A i \in 1..32 : ReadBit(i, tdi) \in Bits /\ i - 1 \in 0..31
  BY BitType DEF ReadBit
<1>2. G \in [1..32 -> [SaneReadings -> SaneReadings]] /\ x \in SaneReadings
  <2>1. x \in SaneReadings
    BY DEF SaneReadings
  <2>2. \A i \in 1..32 : \A y \in SaneReadings : Sample[<<y, ReadBit(i, tdi), i - 1>>] \in SaneReadings
    BY <1>1, SampleIs
  <2> QED BY <2>1, <2>2
<1>3. PICK f \in [0..32 -> SaneReadings] : f[0] = x /\ \A i \in 1..32 : f[i] = G[i][f[i - 1]]
  <2> HIDE DEF G, x
  <2> QED BY <1>2, ReadingIterates
<1>4. ASSUME NEW i \in 1..32, NEW y \in SaneReadings
      PROVE  G[i][y] = Sample[<<y, ReadBit(i, tdi), i - 1>>]
  OBVIOUS
<1>5. ASSUME NEW i \in 0..32
      PROVE  f[i] = IF i = 0 THEN x ELSE Sample[<<f[i - 1], ReadBit(i, tdi), i - 1>>]
  <2> HIDE DEF G, x
  <2>1. CASE i = 0
    BY <1>3, <2>1
  <2>2. CASE i \in 1..32
    <3>1. f[i - 1] \in SaneReadings
      BY <1>3, <2>2
    <3> QED BY <1>3, <1>4, <2>2, <3>1
  <2> QED BY <2>1, <2>2
<1>6. f = [i \in 0..32 |-> f[i]]
  BY <1>3
<1>7. Is(f)
  BY <1>5, <1>6 DEF ReadBit
<1>8. Is(h)
  BY <1>7
<1> HIDE DEF h, x
<1>9. ASSUME NEW i \in 0..32
      PROVE  h[i] = IF i = 0 THEN x ELSE Sample[<<h[i - 1], ReadBit(i, tdi), i - 1>>]
  BY <1>8 DEF x, ReadBit
<1> DEFINE S == {i \in 0..32 : h[i] \in SaneReadings}
<1>10. 0..32 \subseteq S
  <2>1. 0 \in S
    BY <1>2, <1>9
  <2>2. ASSUME NEW i \in 1..32, i - 1 \in S PROVE i \in S
    <3>1. h[i - 1] \in SaneReadings /\ i \in 0..32 /\ i # 0
      BY <2>2
    <3>2. h[i] = Sample[<<h[i - 1], ReadBit(i, tdi), i - 1>>]
      BY <3>1, <1>9
    <3> QED BY <1>1, <3>1, <3>2, SampleIs
  <2> HIDE DEF S
  <2> QED BY <2>1, <2>2, UpTo
<1>11. h \in [0..32 -> SaneReadings]
  BY <1>8, <1>10
<1>12. h[0] = x
  <2>1. 0 \in 0..32
    OBVIOUS
  <2> QED BY <2>1, <1>9
<1>13. ASSUME NEW i \in 1..32
       PROVE  h[i] = Sample[<<h[i - 1], ReadBit(i, tdi), i - 1>>]
  <2>1. i \in 0..32 /\ i # 0
    OBVIOUS
  <2> QED BY <2>1, <1>9
<1> QED BY <1>11, <1>12, <1>13 DEF h, x

\* What a reading amounts to.
LEMMA ReadBitsRun ==
    ASSUME NEW c \in Sane, NEW tdi \in {0, 1}
    PROVE  \E h \in [0..32 -> SaneReadings] :
              /\ h[0].chip = ClockTms(c, <<1, 0>>) /\ h[0].ones = {}
              /\ \A i \in 1..32 :
                    /\ h[i].chip = After(h[i - 1].chip, ReadBit(i, tdi))
                    /\ h[i].ones = IF Tdo(h[i].chip) THEN h[i - 1].ones \cup {i - 1} ELSE h[i - 1].ones
              /\ ReadBits(c, <<1, 0>>, tdi).chip = ClockTms(h[32].chip, <<1, 0>>)
              /\ ReadBits(c, <<1, 0>>, tdi).ones = h[32].ones
<1> DEFINE c1 == ClockTms(c, <<1, 0>>)
<1>1. c1 \in Sane
  BY ShortType DEF Clocked
<1> HIDE DEF c1
<1> DEFINE Is(f) == f = [i \in 0..32 |->
                              IF i = 0 THEN [chip |-> c1, ones |-> {}]
                              ELSE Sample[<<f[i - 1], Bit(IF i = 32 THEN 1 ELSE 0, tdi), i - 1>>]]
           h     == CHOOSE f : Is(f)
<1>2. /\ h \in [0..32 -> SaneReadings]
      /\ h[0] = [chip |-> c1, ones |-> {}]
      /\ \A i \in 1..32 : h[i] = Sample[<<h[i - 1], ReadBit(i, tdi), i - 1>>]
  BY <1>1, ReadExists
<1>3. ReadBits(c, <<1, 0>>, tdi) = [h[32] EXCEPT !.chip = ClockTms(h[32].chip, <<1, 0>>)]
  BY DEF ReadBits, c1
<1> HIDE DEF h
<1>4. ASSUME NEW i \in 1..32
      PROVE  /\ h[i].chip = After(h[i - 1].chip, ReadBit(i, tdi))
             /\ h[i].ones = IF Tdo(h[i].chip) THEN h[i - 1].ones \cup {i - 1} ELSE h[i - 1].ones
  <2> DEFINE y   == h[i - 1]
             bit == ReadBit(i, tdi)
             n   == i - 1
  <2>1. y \in SaneReadings /\ n \in 0..31 /\ bit \in Bits
    BY <1>2, BitType DEF ReadBit
  <2>2. h[i] = Sample[<<y, bit, n>>]
    BY <1>2
  <2> HIDE DEF y, bit, n
  <2>3. /\ h[i].chip = After(y.chip, bit)
        /\ h[i].ones = IF Tdo(After(y.chip, bit)) THEN y.ones \cup {n} ELSE y.ones
    <3> DEFINE s == Sample[<<y, bit, n>>]
    <3>1. /\ s.chip = After(y.chip, bit)
          /\ s.ones = IF Tdo(After(y.chip, bit)) THEN y.ones \cup {n} ELSE y.ones
      BY <2>1, SampleIs, Zenon
    <3> HIDE DEF s
    <3> QED BY <2>2, <3>1 DEF s
  <2>4. h[i].ones = IF Tdo(h[i].chip) THEN y.ones \cup {n} ELSE y.ones
    BY <2>3
  <2> QED BY <2>3, <2>4 DEF y, bit, n
<1>5. h[32] \in SaneReadings
  BY <1>2
<1>6. /\ ReadBits(c, <<1, 0>>, tdi).chip = ClockTms(h[32].chip, <<1, 0>>)
      /\ ReadBits(c, <<1, 0>>, tdi).ones = h[32].ones
  BY <1>3, <1>5 DEF SaneReadings
<1>7. h[0].chip = c1 /\ h[0].ones = {}
  BY <1>2
<1> QED BY <1>2, <1>4, <1>6, <1>7 DEF c1

\* A chip that does not listen reads as ones.
LEMMA ReadBitsType ==
    ASSUME NEW c \in Sane, NEW tdi \in {0, 1}
    PROVE  /\ Clocked(c, ReadBits(c, <<1, 0>>, tdi).chip)
           /\ ReadBits(c, <<1, 0>>, tdi).ones \in SUBSET (0..31)
           /\ ~ c.responds => ReadBits(c, <<1, 0>>, tdi).ones = 0..31
<1>1. PICK h \in [0..32 -> SaneReadings] :
              /\ h[0].chip = ClockTms(c, <<1, 0>>) /\ h[0].ones = {}
              /\ \A i \in 1..32 :
                    /\ h[i].chip = After(h[i - 1].chip, ReadBit(i, tdi))
                    /\ h[i].ones = IF Tdo(h[i].chip) THEN h[i - 1].ones \cup {i - 1} ELSE h[i - 1].ones
              /\ ReadBits(c, <<1, 0>>, tdi).chip = ClockTms(h[32].chip, <<1, 0>>)
              /\ ReadBits(c, <<1, 0>>, tdi).ones = h[32].ones
  BY ReadBitsRun
<1> DEFINE S == {i \in 0..32 : /\ Clocked(c, h[i].chip)
                               /\ ~ c.responds => h[i].ones = {j \in 0..31 : j < i}}
<1>2. 0 \in S
  <2>1. Clocked(c, h[0].chip)
    BY <1>1, ShortType
  <2> QED BY <1>1, <2>1
<1>3. ASSUME NEW i \in 1..32, i - 1 \in S PROVE i \in S
  <2> DEFINE d   == h[i - 1].chip
             bit == ReadBit(i, tdi)
  <2>1. Clocked(c, d) /\ h[i].chip = After(d, bit)
    BY <1>1, <1>3
  <2>2. bit \in Bits
    BY BitType DEF ReadBit
  <2> HIDE DEF d, bit
  <2>3. Clocked(d, h[i].chip)
    <3>1. After(d, bit) \in Sane /\ After(d, bit).responds = d.responds
      BY <2>1, <2>2, ClockIsAfter DEF Clocked
    <3>2. ~ d.responds => After(d, bit) = d
      BY DEF After
    <3> QED BY <2>1, <3>1, <3>2 DEF Clocked
  <2>5. Clocked(c, h[i].chip)
    BY <2>1, <2>3 DEF Clocked
  <2>4. ASSUME ~ c.responds PROVE h[i].ones = {j \in 0..31 : j < i}
    <3>1. ~ h[i].chip.responds
      BY <2>5, <2>4 DEF Clocked
    <3>2. Tdo(h[i].chip)
      BY <3>1 DEF Tdo
    <3>3. h[i].ones = {j \in 0..31 : j < i - 1} \cup {i - 1}
      BY <1>1, <1>3, <2>4, <3>2
    <3> QED BY <3>3
  <2> QED BY <2>4, <2>5
<1>4. 32 \in S
  <2>1. 0..32 \subseteq S
    <3> HIDE DEF S
    <3> QED BY <1>2, <1>3, UpTo
  <2> QED BY <2>1
<1>5. h[32] \in SaneReadings
  BY <1>1
<1>6. Clocked(h[32].chip, ClockTms(h[32].chip, <<1, 0>>))
  BY <1>5, ShortType DEF SaneReadings
<1>7. Clocked(c, ReadBits(c, <<1, 0>>, tdi).chip)
  BY <1>1, <1>4, <1>6 DEF Clocked
<1>8. ~ c.responds => h[32].ones = 0..31
  BY <1>4
<1>9. h[32].ones \in SUBSET (0..31)
  BY <1>5 DEF SaneReadings
<1> QED BY <1>1, <1>7, <1>8, <1>9

\* From Run-Test/Idle to Capture-DR.
LEMMA SelectDr ==
    ASSUME NEW c, Idling(c)
    PROVE  /\ ClockTms(c, <<1, 0>>) = [c EXCEPT !.tap = "CaptureDR"]
           /\ [c EXCEPT !.tap = "CaptureDR"] \in Sane
<1> DEFINE c1 == Tms(c, 1)
           c2 == Tms(c1, 0)
<1>1. c1 \in Sane /\ c2 \in Sane
  BY TmsType DEF Idling
<1>2. c1 = [c EXCEPT !.tap = "SelectDR"]
  BY Plain DEF Idling, TapNext
<1>3. c1.tap = "SelectDR" /\ c1.responds
  <2> HIDE DEF c1
  <2> QED BY <1>2 DEF Idling, Sane, Chips
<1>4. c2 = [c1 EXCEPT !.tap = "CaptureDR"]
  <2> HIDE DEF c1
  <2> QED BY <1>1, <1>3, Plain DEF TapNext
<1>5. c2 = [c EXCEPT !.tap = "CaptureDR"]
  <2> HIDE DEF c1, c2
  <2> QED BY <1>2, <1>4 DEF Idling, Sane, Chips
<1>6. ClockTms(c, <<1, 0>>) = c2
  BY ClockTms2 DEF Idling
<1> QED BY <1>1, <1>5, <1>6

\* The first edge takes the register over.
LEMMA CaptureEdge ==
    ASSUME NEW c \in Sane, c.responds, c.tap = "CaptureDR", NEW bit \in Bits, bit.tms = 0
    PROVE  After(c, bit) = [c EXCEPT !.tap = "ShiftDR", !.shift = Captured(c)]
<1>1. After(c, bit) = Edge(c, bit)
  BY DEF After
<1>2. Edge(c, bit) = [[c EXCEPT !.tap = "ShiftDR"] EXCEPT !.shift = Captured(c)]
  BY DEF Edge, TapNext
<1> QED BY <1>1, <1>2 DEF Sane, Chips

\* The others move it by a bit, and what is not taken is lost.
LEMMA ShiftEdge ==
    ASSUME NEW c \in Sane, c.responds, c.tap = "ShiftDR", NEW bit \in Bits
    PROVE  After(c, bit)
             = [c EXCEPT !.tap = IF bit.tms = 1 THEN "Exit1DR" ELSE "ShiftDR",
                         !.shift = Shifted(c.shift, 32, bit.tdi),
                         !.taken = IF Accepts(c) THEN Append(c.taken, bit.data) ELSE c.taken]
<1> DEFINE to    == TapNext[c.tap][bit.tms + 1]
           moved == [c EXCEPT !.tap = to]
           s     == Shifted(c.shift, 32, bit.tdi)
           t     == IF Accepts(c) THEN Append(c.taken, bit.data) ELSE c.taken
<1>1. to = IF bit.tms = 1 THEN "Exit1DR" ELSE "ShiftDR"
  BY DEF Bits, TapNext
<1>2. moved.shift = c.shift /\ moved.taken = c.taken
  BY DEF Sane, Chips
<1>3. After(c, bit) = Edge(c, bit)
  BY DEF After
<1> HIDE DEF to, moved
<1>4. Edge(c, bit) = [moved EXCEPT !.shift = s, !.taken = t]
  BY <1>1, <1>2 DEF Edge, moved, to
<1> HIDE DEF s, t
<1>5. [moved EXCEPT !.shift = s, !.taken = t] = [c EXCEPT !.tap = to, !.shift = s, !.taken = t]
  BY DEF moved, Sane, Chips
<1> QED BY <1>1, <1>3, <1>4, <1>5 DEF s, t

\* In the middle of a reading.
LEMMA Reading ==
    ASSUME NEW c, Idling(c), c.ir # XFER_WRITE,
           NEW d, d.shift \in SUBSET (0..31), d = [c EXCEPT !.tap = "ShiftDR", !.shift = d.shift]
    PROVE  /\ d \in Sane /\ d.responds /\ d.tap = "ShiftDR" /\ d.taken = c.taken
           /\ ~ Accepts(d)
<1> DEFINE s == d.shift
<1>1. s \in SUBSET (0..31) /\ d = [c EXCEPT !.tap = "ShiftDR", !.shift = s]
  OBVIOUS
<1> HIDE DEF s
<1>2. d \in Sane
  BY <1>1 DEF Idling, Sane, Chips, TapStates
<1>3. d.responds /\ d.tap = "ShiftDR" /\ d.taken = c.taken /\ d.ir = c.ir
  BY <1>1 DEF Idling, Sane, Chips
<1> QED BY <1>2, <1>3 DEF Accepts

LEMMA ShiftedDown ==
    ASSUME NEW r, NEW s \in SUBSET (0..31), NEW i \in 2..31, NEW tdi,
           \A k \in 0..(33 - i) : k \in s <=> k + (i - 2) \in r
    PROVE  \A k \in 0..(32 - i) : k \in Shifted(s, 32, tdi) <=> k + (i - 1) \in r
<1> SUFFICES ASSUME NEW k \in 0..(32 - i)
             PROVE  k \in Shifted(s, 32, tdi) <=> k + (i - 1) \in r
  OBVIOUS
<1>1. k # 31 /\ k + 1 \in 0..(33 - i) /\ (k + 1) + (i - 2) = k + (i - 1)
  OBVIOUS
<1>2. k \in Shifted(s, 32, tdi) <=> k + 1 \in s
  <2>1. ASSUME k + 1 \in s PROVE k \in Shifted(s, 32, tdi)
    <3>1. k + 1 \in s \ {0} /\ k = (k + 1) - 1
      BY <2>1
    <3> QED BY <3>1 DEF Shifted
  <2>2. ASSUME k \in Shifted(s, 32, tdi) PROVE k + 1 \in s
    <3>1. PICK j \in s \ {0} : k = j - 1
      BY <1>1, <2>2 DEF Shifted
    <3>2. j \in 0..31 /\ j = k + 1
      BY <3>1
    <3> QED BY <3>2
  <2> QED BY <2>1, <2>2
<1>3. k + 1 \in s <=> (k + 1) + (i - 2) \in r
  BY <1>1
<1> QED BY <1>1, <1>2, <1>3

\* After i samples the register has moved by i - 1 bits, and i bits are known.
Read(c, x, i) ==
    /\ x.chip.shift \in SUBSET (0..31)
    /\ x.chip = [c EXCEPT !.tap = "ShiftDR", !.shift = x.chip.shift]
    /\ \A k \in 0..(32 - i) : k \in x.chip.shift <=> k + (i - 1) \in Captured(c)
    /\ x.ones = {j \in Captured(c) : j < i}

LEMMA FirstSample ==
    ASSUME NEW c, Idling(c), c.ir # XFER_WRITE, NEW bit \in Bits, bit.tms = 0, NEW y, NEW x,
           y.chip = [c EXCEPT !.tap = "CaptureDR"], y.ones = {},
           x.chip = After(y.chip, bit), x.ones = IF Tdo(x.chip) THEN y.ones \cup {0} ELSE y.ones
    PROVE  Read(c, x, 1)
<1> DEFINE d == [c EXCEPT !.tap = "CaptureDR"]
           R == Captured(c)
           e == [c EXCEPT !.tap = "ShiftDR", !.shift = R]
<1>1. R \in SUBSET (0..31)
  BY CapturedType DEF Idling, Sane
<1>2. d \in Sane /\ d.responds /\ d.tap = "CaptureDR" /\ d.ir = c.ir /\ d.crc = c.crc /\ d.sram = c.sram
  BY DEF Idling, Sane, Chips, TapStates
<1>3. Captured(d) = R
  <2> HIDE DEF d
  <2> QED BY <1>2 DEF Captured, Status
<1>4. x.chip = [d EXCEPT !.tap = "ShiftDR", !.shift = R]
  <2>1. x.chip = After(d, bit)
    OBVIOUS
  <2> HIDE DEF d, R
  <2>2. After(d, bit) = [d EXCEPT !.tap = "ShiftDR", !.shift = Captured(d)]
    BY <1>2, CaptureEdge
  <2> QED BY <1>3, <2>1, <2>2
<1>5. x.chip = e
  <2> HIDE DEF R
  <2> QED BY <1>4 DEF Idling, Sane, Chips
<1>6. e.tap = "ShiftDR" /\ e.responds /\ e.shift = R
  <2> HIDE DEF R
  <2> QED BY DEF Idling, Sane, Chips
<1> HIDE DEF e, R
<1>7. Tdo(x.chip) <=> 0 \in R
  BY <1>5, <1>6 DEF Tdo
<1>8. x.ones = {j \in R : j < 1}
  <2>1. {j \in R : j < 1} = IF 0 \in R THEN {0} ELSE {}
    BY <1>1
  <2> QED BY <1>7, <2>1
<1>9. \A k \in 0..(32 - 1) : k \in R <=> k + (1 - 1) \in R
  OBVIOUS
<1>10. x.chip.shift = R
  BY <1>5, <1>6
<1>11. x.chip = [c EXCEPT !.tap = "ShiftDR", !.shift = x.chip.shift]
  BY <1>5, <1>10 DEF e
<1> QED BY <1>1, <1>8, <1>9, <1>10, <1>11 DEF Read, R

LEMMA NextSample ==
    ASSUME NEW c, Idling(c), c.ir # XFER_WRITE, NEW bit \in Bits, bit.tms = 0, NEW i \in 2..31, NEW y, NEW x,
           Read(c, y, i - 1),
           x.chip = After(y.chip, bit), x.ones = IF Tdo(x.chip) THEN y.ones \cup {i - 1} ELSE y.ones
    PROVE  Read(c, x, i)
<1> DEFINE s == y.chip.shift
           r == Shifted(s, 32, bit.tdi)
           R == Captured(c)
<1>1. /\ s \in SUBSET (0..31) /\ y.chip = [c EXCEPT !.tap = "ShiftDR", !.shift = s]
      /\ \A k \in 0..(33 - i) : k \in s <=> k + (i - 2) \in R
      /\ y.ones = {j \in R : j < i - 1}
  <2>1. 32 - (i - 1) = 33 - i /\ (i - 1) - 1 = i - 2
    OBVIOUS
  <2> QED BY <2>1 DEF Read
<1> HIDE DEF s
<1> DEFINE d == y.chip
<1>3. /\ d \in Sane /\ d.responds /\ d.tap = "ShiftDR" /\ d.shift = s /\ d.taken = c.taken
      /\ ~ Accepts(d)
  <2>1. d.shift = s /\ d.shift \in SUBSET (0..31) /\ d = [c EXCEPT !.tap = "ShiftDR", !.shift = d.shift]
    BY <1>1 DEF s
  <2> HIDE DEF d
  <2> QED BY <2>1, Reading
<1>4. \A u, q : [d EXCEPT !.tap = u, !.shift = q, !.taken = c.taken] = [c EXCEPT !.tap = u, !.shift = q]
  <2>1. d = [c EXCEPT !.tap = "ShiftDR", !.shift = s]
    BY <1>1
  <2> HIDE DEF d
  <2> QED BY <2>1 DEF Idling, Sane, Chips
<1>5. x.chip = [c EXCEPT !.tap = "ShiftDR", !.shift = r]
  <2>1. x.chip = After(d, bit)
    BY <1>1
  <2> HIDE DEF d
  <2>2. After(d, bit) = [d EXCEPT !.tap = IF bit.tms = 1 THEN "Exit1DR" ELSE "ShiftDR",
                                  !.shift = Shifted(d.shift, 32, bit.tdi),
                                  !.taken = IF Accepts(d) THEN Append(d.taken, bit.data) ELSE d.taken]
    BY <1>3, ShiftEdge
  <2>3. After(d, bit) = [d EXCEPT !.tap = "ShiftDR", !.shift = r, !.taken = c.taken]
    BY <1>3, <2>2
  <2> HIDE DEF r
  <2> QED BY <1>4, <2>1, <2>3
<1>6. r \in SUBSET (0..31)
  BY <1>1, ShiftedType
<1>7. x.chip.shift = r /\ x.chip.tap = "ShiftDR" /\ x.chip.responds
  <2> HIDE DEF r
  <2> QED BY <1>5 DEF Idling, Sane, Chips
<1>8. \A k \in 0..(32 - i) : k \in r <=> k + (i - 1) \in R
  <2>1. s \in SUBSET (0..31)
    BY <1>1
  <2>2. \A k \in 0..(33 - i) : k \in s <=> k + (i - 2) \in R
    BY <1>1
  <2> HIDE DEF R
  <2> QED BY <2>1, <2>2, ShiftedDown
<1> HIDE DEF r
<1>9. Tdo(x.chip) <=> i - 1 \in R
  <2>1. Tdo(x.chip) <=> 0 \in r
    BY <1>7 DEF Tdo
  <2>2. 0 \in 0..(32 - i) /\ 0 + (i - 1) = i - 1
    OBVIOUS
  <2> QED BY <1>8, <2>1, <2>2
<1>10. x.ones = {j \in R : j < i}
  <2>1. R \in SUBSET (0..31)
    BY CapturedType DEF Idling, Sane
  <2> HIDE DEF R
  <2>2. {j \in R : j < i} = {j \in R : j < i - 1} \cup (IF i - 1 \in R THEN {i - 1} ELSE {})
    <3>1. \A j \in R : j < i <=> j < i - 1 \/ j = i - 1
      BY <2>1
    <3> QED BY <3>1
  <2> QED BY <1>1, <1>9, <2>2
<1> QED BY <1>5, <1>6, <1>7, <1>8, <1>10 DEF Read

\* A reading of a chip that listens: the bits of its register but the last, for
\* which nobody drives TDO any more.
LEMMA ReadBitsIs ==
    ASSUME NEW c, Idling(c), c.ir # XFER_WRITE, NEW tdi \in {0, 1}
    PROVE  /\ ReadBits(c, <<1, 0>>, tdi).ones = {j \in Captured(c) : j < 31} \cup {31}
           /\ \E s \in SUBSET (0..31) : ReadBits(c, <<1, 0>>, tdi).chip = [c EXCEPT !.shift = s]
<1>1. PICK h \in [0..32 -> SaneReadings] :
              /\ h[0].chip = ClockTms(c, <<1, 0>>) /\ h[0].ones = {}
              /\ \A i \in 1..32 :
                    /\ h[i].chip = After(h[i - 1].chip, ReadBit(i, tdi))
                    /\ h[i].ones = IF Tdo(h[i].chip) THEN h[i - 1].ones \cup {i - 1} ELSE h[i - 1].ones
              /\ ReadBits(c, <<1, 0>>, tdi).chip = ClockTms(h[32].chip, <<1, 0>>)
              /\ ReadBits(c, <<1, 0>>, tdi).ones = h[32].ones
  BY ReadBitsRun DEF Idling
<1>2. ASSUME NEW i \in 1..32
      PROVE  ReadBit(i, tdi) \in Bits /\ ReadBit(i, tdi).tms = IF i = 32 THEN 1 ELSE 0
  BY BitType DEF ReadBit
<1> DEFINE S == {i \in 0..31 : i = 0 \/ Read(c, h[i], i)}
<1>3. ASSUME NEW i \in 1..31, i - 1 \in S PROVE i \in S
  <2> DEFINE y == h[i - 1]
             x == h[i]
             bit == ReadBit(i, tdi)
  <2>1. /\ bit \in Bits /\ bit.tms = 0
        /\ x.chip = After(y.chip, bit)
        /\ x.ones = IF Tdo(x.chip) THEN y.ones \cup {i - 1} ELSE y.ones
    <3>1. i \in 1..32 /\ i # 32
      OBVIOUS
    <3>2. bit \in Bits /\ bit.tms = 0
      BY <1>2, <3>1
    <3>3. /\ x.chip = After(y.chip, bit)
          /\ x.ones = IF Tdo(x.chip) THEN y.ones \cup {i - 1} ELSE y.ones
      BY <1>1, <3>1
    <3> QED BY <3>2, <3>3
  <2> HIDE DEF bit, x
  <2>2. CASE i = 1
    <3>1. y.chip = [c EXCEPT !.tap = "CaptureDR"] /\ y.ones = {} /\ i - 1 = 0
      BY <1>1, <2>2, SelectDr
    <3> HIDE DEF y
    <3>2. Read(c, x, 1)
      BY <2>1, <3>1, FirstSample
    <3> QED BY <2>2, <3>2 DEF x
  <2>3. CASE i \in 2..31
    <3>1. Read(c, y, i - 1)
      BY <1>3, <2>3
    <3> HIDE DEF y
    <3>2. Read(c, x, i)
      BY <2>1, <2>3, <3>1, NextSample
    <3> QED BY <3>2 DEF x
  <2> QED BY <2>2, <2>3
<1>4. Read(c, h[31], 31)
  <2>1. 0..31 \subseteq S
    <3>1. 0 \in S
      OBVIOUS
    <3> HIDE DEF S
    <3> QED BY <1>3, <3>1, UpTo
  <2>2. 31 \in S
    BY <2>1
  <2> QED BY <2>2
<1> DEFINE d   == h[31].chip
           s   == d.shift
           e   == h[32].chip
           bit == ReadBit(32, tdi)
           r   == Shifted(s, 32, bit.tdi)
<1>5. /\ bit \in Bits /\ bit.tms = 1 /\ e = After(d, bit)
      /\ h[32].ones = IF Tdo(e) THEN h[31].ones \cup {31} ELSE h[31].ones
  <2>1. 32 \in 1..32 /\ 32 - 1 = 31
    OBVIOUS
  <2> QED BY <1>1, <1>2, <2>1
<1>6. s \in SUBSET (0..31) /\ d = [c EXCEPT !.tap = "ShiftDR", !.shift = s]
      /\ h[31].ones = {j \in Captured(c) : j < 31}
  BY <1>4 DEF Read
<1> HIDE DEF bit, s
<1>7. /\ d \in Sane /\ d.responds /\ d.tap = "ShiftDR" /\ d.shift = s /\ d.taken = c.taken
      /\ ~ Accepts(d)
  <2>1. d.shift = s /\ d.shift \in SUBSET (0..31) /\ d = [c EXCEPT !.tap = "ShiftDR", !.shift = d.shift]
    BY <1>6 DEF s
  <2> HIDE DEF d
  <2> QED BY <2>1, Reading
<1>8. e = [c EXCEPT !.tap = "Exit1DR", !.shift = r]
  <2> HIDE DEF d, e
  <2>1. e = [d EXCEPT !.tap = "Exit1DR", !.shift = Shifted(d.shift, 32, bit.tdi), !.taken = d.taken]
    BY <1>5, <1>7, ShiftEdge
  <2>2. e = [d EXCEPT !.tap = "Exit1DR", !.shift = r, !.taken = c.taken]
    BY <1>7, <2>1
  <2> HIDE DEF r
  <2> QED BY <1>6, <2>2 DEF Idling, Sane, Chips
<1>9. r \in SUBSET (0..31)
  BY <1>6, ShiftedType
<1> HIDE DEF d, e, r
<1>10. e \in Sane /\ e.tap = "Exit1DR" /\ e.responds
  BY <1>8, <1>9 DEF Idling, Sane, Chips, TapStates
<1>11. Tdo(e)
  BY <1>10 DEF Tdo
<1>12. ClockTms(e, <<1, 0>>) = [e EXCEPT !.tap = "Idle"]
  <2> DEFINE e1 == Tms(e, 1)
             e2 == Tms(e1, 0)
  <2>1. e1 = [e EXCEPT !.tap = "UpdateDR"]
    BY <1>10, Plain DEF TapNext
  <2>2. e1 \in Sane
    BY <1>10, TmsType
  <2>3. e1.tap = "UpdateDR" /\ e1.responds
    <3> HIDE DEF e1
    <3> QED BY <1>10, <2>1 DEF Sane, Chips
  <2>4. e2 = [e1 EXCEPT !.tap = "Idle"]
    <3> HIDE DEF e1
    <3> QED BY <2>2, <2>3, Plain DEF TapNext
  <2>5. e2 = [e EXCEPT !.tap = "Idle"]
    <3> HIDE DEF e1, e2
    <3> QED BY <1>10, <2>1, <2>4 DEF Sane, Chips
  <2> QED BY <1>10, <2>5, ClockTms2
<1>13. [e EXCEPT !.tap = "Idle"] = [c EXCEPT !.shift = r]
  BY <1>8 DEF Idling, Sane, Chips
<1>14. ReadBits(c, <<1, 0>>, tdi).chip = [c EXCEPT !.shift = r]
  BY <1>1, <1>12, <1>13 DEF e
<1>15. ReadBits(c, <<1, 0>>, tdi).ones = {j \in Captured(c) : j < 31} \cup {31}
  BY <1>1, <1>5, <1>6, <1>11
<1> QED BY <1>9, <1>14, <1>15

-----------------------------------------------------------------------------
(* The bits of a bitstream. *)

\* What the FPGA has taken after n clocks.
Bitstream(n) == [k \in 1..(n - 1) |-> k + 1]

\* The FPGA after n clocks from Capture-DR.
Streamed(c, n) ==
    /\ c \in Sane /\ c.responds
    /\ c.ir = XFER_WRITE /\ c.mode = "on" /\ c.addr /\ c.sram = "erased"
    /\ c.tap = IF n = 0 THEN "CaptureDR" ELSE "ShiftDR"
    /\ c.taken = Bitstream(n)

LEMMA BitstreamIs ==
    /\ Bitstream(0) = <<>>
    /\ \A n \in Nat : Bitstream(8 * n) = Stream(n)
    /\ \A n \in Nat \ {0} : Bitstream(n) \in Seq(Nat) /\ Len(Bitstream(n)) = n - 1
    /\ \A n \in Nat \ {0} : Append(Bitstream(n), n + 1) = Bitstream(n + 1)
<1>1. Bitstream(0) = <<>>
  BY DEF Bitstream
<1>2. ASSUME NEW n \in Nat PROVE Bitstream(8 * n) = Stream(n)
  <2>1. CASE n = 0
    BY <1>1, <2>1 DEF Stream
  <2>2. CASE n # 0
    BY <2>2 DEF Bitstream, Stream
  <2> QED BY <2>1, <2>2
<1>3. ASSUME NEW n \in Nat \ {0} PROVE Bitstream(n) \in Seq(Nat) /\ Len(Bitstream(n)) = n - 1
  BY DEF Bitstream
<1>4. ASSUME NEW n \in Nat \ {0} PROVE Append(Bitstream(n), n + 1) = Bitstream(n + 1)
  <2> DEFINE a == Append(Bitstream(n), n + 1)
             b == Bitstream(n + 1)
  <2>1. b \in Seq(Nat) /\ Len(b) = n
    BY <1>3
  <2>2. a \in Seq(Nat) /\ Len(a) = n
    BY <1>3
  <2>3. ASSUME NEW k \in 1..n PROVE a[k] = b[k]
    BY <1>3 DEF Bitstream
  <2> HIDE DEF a, b
  <2>4. a \in [1..n -> Nat] /\ b \in [1..n -> Nat]
    BY <2>1, <2>2
  <2>5. a = b
    BY <2>3, <2>4
  <2> QED BY <2>5 DEF a, b
<1> QED BY <1>1, <1>2, <1>3, <1>4

\* The n-th clock: it takes the n-th bit, but for the first.
LEMMA StreamBit ==
    ASSUME NEW n \in Nat, NEW c, Streamed(c, n), NEW bit \in Bits, bit.tms = 0, bit.data = n + 1
    PROVE  Streamed(After(c, bit), n + 1)
<1> DEFINE d == After(c, bit)
<1>1. d \in Sane
  BY ClockIsAfter DEF Streamed
<1>2. CASE n = 0
  <2>1. d = [c EXCEPT !.tap = "ShiftDR", !.shift = Captured(c)]
    BY <1>2, CaptureEdge DEF Streamed
  <2>2. Bitstream(1) = <<>> /\ c.taken = <<>>
    BY <1>2, BitstreamIs DEF Streamed, Bitstream
  <2> HIDE DEF d
  <2>3. /\ d.tap = "ShiftDR" /\ d.taken = c.taken /\ d.responds = c.responds /\ d.ir = c.ir
        /\ d.mode = c.mode /\ d.addr = c.addr /\ d.sram = c.sram
    BY <2>1 DEF Streamed, Sane, Chips
  <2> QED BY <1>1, <1>2, <2>2, <2>3 DEF Streamed, d
<1>3. CASE n # 0
  <2>1. c.tap = "ShiftDR" /\ Accepts(c)
    BY <1>3 DEF Streamed, Accepts
  <2> DEFINE s == Shifted(c.shift, 32, bit.tdi)
             t == Append(c.taken, bit.data)
  <2>2. d = [c EXCEPT !.tap = "ShiftDR", !.shift = s, !.taken = t]
    <3>1. d = [c EXCEPT !.tap = IF bit.tms = 1 THEN "Exit1DR" ELSE "ShiftDR",
                        !.shift = s, !.taken = IF Accepts(c) THEN t ELSE c.taken]
      BY <2>1, ShiftEdge, Zenon DEF Streamed
    <3> HIDE DEF d, s, t
    <3> QED BY <2>1, <3>1
  <2>3. t = Bitstream(n + 1)
    BY <1>3, BitstreamIs DEF Streamed
  <2> HIDE DEF d, s, t
  <2>4. /\ d.tap = "ShiftDR" /\ d.taken = t /\ d.responds = c.responds /\ d.ir = c.ir
        /\ d.mode = c.mode /\ d.addr = c.addr /\ d.sram = c.sram
    BY <2>2 DEF Streamed, Sane, Chips
  <2>5. n + 1 # 0
    OBVIOUS
  <2> QED BY <1>1, <2>3, <2>4, <2>5 DEF Streamed, d
<1> QED BY <1>2, <1>3

\* The bits of a byte.
Octet(m) == [i \in 1..8 |-> [tms |-> 0, tdi |-> 1, data |-> 8 * m + i]]

LEMMA OctetType ==
    ASSUME NEW m \in Nat, m < Bytes
    PROVE  /\ Octet(m) \in Seq(Bits) /\ Len(Octet(m)) = 8
           /\ \A i \in 1..8 : Octet(m)[i] \in Bits /\ Octet(m)[i].tms = 0 /\ Octet(m)[i].data = 8 * m + i
<1>1. ASSUME NEW i \in 1..8 PROVE 8 * m + i \in 0..8 * Bytes
  BY BytesAssumption
<1>2. \A i \in 1..8 : Octet(m)[i] \in Bits /\ Octet(m)[i].tms = 0 /\ Octet(m)[i].data = 8 * m + i
  BY <1>1 DEF Octet, Bits
<1>3. Octet(m) = [i \in 1..8 |-> Octet(m)[i]]
  BY DEF Octet
<1> HIDE DEF Octet
<1>4. Octet(m) \in Seq(Bits) /\ Len(Octet(m)) = 8
  BY <1>2, <1>3
<1> QED BY <1>2, <1>4

LEMMA WriteIs ==
    ASSUME NEW m \in Nat, m < Bytes, NEW c, Streamed(c, 8 * m)
    PROVE  Streamed(Clocks(c, Octet(m)), 8 * (m + 1))
<1> DEFINE bits == Octet(m)
<1>1. bits \in Seq(Bits) /\ Len(bits) = 8
      /\ \A i \in 1..8 : bits[i] \in Bits /\ bits[i].tms = 0 /\ bits[i].data = 8 * m + i
  BY OctetType
<1> HIDE DEF bits
<1>2. PICK f : /\ f[0] = c
               /\ \A i \in 1..8 : f[i] = After(f[i - 1], bits[i])
               /\ Clocks(c, bits) = f[8]
  <2>1. \E f \in [0..Len(bits) -> Sane] :
              /\ f[0] = c
              /\ \A i \in 1..Len(bits) : f[i] = After(f[i - 1], bits[i])
              /\ Clocks(c, bits) = f[Len(bits)]
    BY <1>1, ClocksRun, Zenon DEF Streamed
  <2> QED BY <1>1, <2>1
<1> DEFINE S == {i \in 0..8 : Streamed(f[i], 8 * m + i)}
<1>3. 0 \in S
  BY <1>2
<1>4. ASSUME NEW i \in 1..8, i - 1 \in S PROVE i \in S
  <2> DEFINE n == 8 * m + (i - 1)
             d == f[i - 1]
             bit == bits[i]
  <2>1. n \in Nat /\ Streamed(d, n) /\ n + 1 = 8 * m + i
    BY <1>4
  <2>2. bit \in Bits /\ bit.tms = 0 /\ bit.data = n + 1 /\ f[i] = After(d, bit)
    BY <1>1, <1>2, <2>1
  <2> HIDE DEF n, d, bit
  <2>3. Streamed(f[i], n + 1)
    BY <2>1, <2>2, StreamBit
  <2> QED BY <2>1, <2>3
<1>5. 0..8 \subseteq S
  <2> HIDE DEF S
  <2> QED BY <1>3, <1>4, UpTo
<1>6. Streamed(f[8], 8 * m + 8)
  BY <1>5
<1>7. 8 * m + 8 = 8 * (m + 1)
  OBVIOUS
<1> QED BY <1>2, <1>6, <1>7 DEF bits

\* The end of a stream takes a bit of no meaning, and no more.
LEMMA LeaveShiftIs ==
    ASSUME NEW m \in Nat, NEW c, Streamed(c, 8 * m)
    PROVE  /\ Idling(ClockTms(c, <<1, 1, 0>>))
           /\ ClockTms(c, <<1, 1, 0>>).mode = "on"
           /\ \/ ClockTms(c, <<1, 1, 0>>).taken = Stream(m)
              \/ m # 0 /\ ClockTms(c, <<1, 1, 0>>).taken = Append(Stream(m), 0)
<1> DEFINE c1  == Tms(c, 1)
           c2  == Tms(c1, 1)
           c3  == Tms(c2, 0)
           bit == Bit(1, 0)
<1>1. c1 \in Sane /\ c1.responds /\ c1.tap = TapNext[c.tap][2]
  BY TmsTap DEF Streamed
<1>2. c.taken = Stream(m)
  BY BitstreamIs DEF Streamed
<1>3. bit \in Bits /\ bit.tms = 1 /\ bit.data = 0 /\ c1 = After(c, bit)
  BY BitType DEF Tms, Bit
<1> HIDE DEF bit
<1>4. /\ c1.tap = "Exit1DR" /\ c1.mode = "on"
      /\ \/ c1.taken = Stream(m)
         \/ m # 0 /\ c1.taken = Append(Stream(m), 0)
  <2>1. CASE m = 0
    <3>1. c.tap = "CaptureDR"
      BY <2>1 DEF Streamed
    <3>2. c1 = Edge(c, bit)
      BY <1>3 DEF After, Streamed
    <3> HIDE DEF c1
    <3>3. c1 = [[c EXCEPT !.tap = "Exit1DR"] EXCEPT !.shift = Captured(c)]
      BY <1>3, <3>1, <3>2 DEF Edge, TapNext
    <3>4. c1.tap = "Exit1DR" /\ c1.mode = c.mode /\ c1.taken = c.taken
      BY <3>3 DEF Streamed, Sane, Chips
    <3>5. c.mode = "on"
      BY DEF Streamed
    <3> HIDE DEF c1
    <3> QED BY <1>2, <3>4, <3>5
  <2>2. CASE m # 0
    <3>1. c.tap = "ShiftDR" /\ Accepts(c)
      BY <2>2 DEF Streamed, Accepts
    <3> DEFINE s == Shifted(c.shift, 32, bit.tdi)
               t == Append(c.taken, bit.data)
    <3> HIDE DEF c1
    <3>2. c1 = [c EXCEPT !.tap = "Exit1DR", !.shift = s, !.taken = t]
      BY <1>3, <3>1, ShiftEdge DEF Streamed
    <3>3. t = Append(Stream(m), 0)
      BY <1>2, <1>3
    <3> HIDE DEF s, t
    <3> QED BY <2>2, <3>2, <3>3 DEF Streamed, Sane, Chips
  <2> QED BY <2>1, <2>2
<1> HIDE DEF c1
<1>5. c2 = [c1 EXCEPT !.tap = "UpdateDR"]
  BY <1>1, <1>4, Plain DEF TapNext
<1>6. c2 \in Sane /\ c2.responds /\ c2.tap = "UpdateDR" /\ c2.mode = "on" /\ c2.taken = c1.taken
  <2>1. c2 \in Sane
    BY <1>1, TmsType
  <2> HIDE DEF c2
  <2> QED BY <1>1, <1>4, <1>5, <2>1 DEF Sane, Chips
<1> HIDE DEF c2
<1>7. c3 = [c2 EXCEPT !.tap = "Idle"]
  BY <1>6, Plain DEF TapNext
<1>8. Idling(c3) /\ c3.mode = "on" /\ c3.taken = c1.taken
  <2>1. c3 \in Sane
    BY <1>6, TmsType
  <2> HIDE DEF c3
  <2> QED BY <1>6, <1>7, <2>1 DEF Idling, Sane, Chips
<1>9. ClockTms(c, <<1, 1, 0>>) = c3
  BY ClockTms3 DEF Streamed, c1, c2
<1> QED BY <1>4, <1>8, <1>9

\* Both are what StreamIntact asks for.
LEMMA StreamPrefix ==
    ASSUME NEW m \in Nat
    PROVE  /\ IsPrefix(Stream(m), Stream(m)) /\ Len(Stream(m)) <= 8 * m
           /\ m # 0 => /\ IsPrefix(Stream(m), Append(Stream(m), 0))
                       /\ Len(Append(Stream(m), 0)) <= 8 * m
<1>1. m = 0 => Stream(m) = <<>>
  BY DEF Stream
<1>2. Stream(m) \in Seq(Nat) /\ (m # 0 => Len(Stream(m)) = 8 * m - 1)
  <2>1. CASE m = 0
    <3>1. <<>> \in Seq(Nat)
      OBVIOUS
    <3> QED BY <1>1, <2>1, <3>1
  <2>2. CASE m # 0
    <3>1. 8 * m \in Nat \ {0}
      BY <2>2
    <3>2. Stream(m) = Bitstream(8 * m)
      BY BitstreamIs
    <3> QED BY <3>1, <3>2, BitstreamIs
  <2> QED BY <2>1, <2>2
<1> DEFINE s == Stream(m)
<1>3. s \in Seq(Nat)
  BY <1>2
<1> HIDE DEF s
<1>4. IsPrefix(s, s)
  BY <1>3 DEF IsPrefix
<1>5. IsPrefix(s, Append(s, 0))
  <2>1. Len(Append(s, 0)) = Len(s) + 1 /\ Len(s) \in Nat
    BY <1>3
  <2>2. \A i \in 1..Len(s) : Append(s, 0)[i] = s[i]
    BY <1>3
  <2>3. SubSeq(s, 1, Len(s)) = SubSeq(Append(s, 0), 1, Len(s))
    BY <1>3, <2>1, <2>2
  <2> QED BY <2>1, <2>3 DEF IsPrefix
<1>6. Len(Append(s, 0)) = Len(s) + 1
  BY <1>3
<1> QED BY <1>1, <1>2, <1>4, <1>5, <1>6 DEF s

-----------------------------------------------------------------------------
(* The calls of a session: of any chip, and of one that listens in Run-Test/Idle. *)

LEMMA CodeTypes ==
    /\ NOOP \in SUBSET (0..7) /\ ERASE_SRAM \in SUBSET (0..7) /\ XFER_DONE \in SUBSET (0..7)
    /\ INIT_ADDR \in SUBSET (0..7) /\ CONFIG_ENABLE \in SUBSET (0..7) /\ XFER_WRITE \in SUBSET (0..7)
    /\ CONFIG_DISABLE \in SUBSET (0..7) /\ STATUS_REG \in SUBSET (0..7) /\ READ_IDCODE \in SUBSET (0..7)
BY Codes

\* What the registers of the TAP are not.
Alike(c, d) == d.addr = c.addr /\ d.crc = c.crc /\ d.sram = c.sram /\ d.taken = c.taken

\* The status register shows the flags of the FPGA.
LEMMA StatusIs ==
    ASSUME NEW c, Idling(c), c.mode # "entering"
    PROVE  LET d    == ReadReg32(c, STATUS_REG).chip
               ones == ReadReg32(c, STATUS_REG).ones
           IN  /\ Idling(d) /\ d.mode = c.mode /\ Alike(c, d)
               /\ MEMORY_ERASE \in ones <=> c.sram = "erased"
               /\ DONE_FINAL \in ones <=> c.sram = "running"
               /\ CRC_ERROR \in ones <=> c.crc
<1> DEFINE l    == Loaded(c, STATUS_REG)
           d    == ReadReg32(c, STATUS_REG).chip
           ones == ReadReg32(c, STATUS_REG).ones
<1>1. SendCommand(c, STATUS_REG) = l
  BY CommandStays
<1>2. Idling(l) /\ l.ir = STATUS_REG /\ l.mode = c.mode /\ Alike(c, l)
  BY CodeTypes, LoadedType DEF Alike
<1> HIDE DEF l
<1>3. l.ir # XFER_WRITE
  BY <1>2, Codes
<1>4. ReadReg32(c, STATUS_REG) = ReadBits(l, <<1, 0>>, 1)
  BY <1>1 DEF ReadReg32
<1>5. /\ ones = {j \in Captured(l) : j < 31} \cup {31}
      /\ \E s \in SUBSET (0..31) : d = [l EXCEPT !.shift = s]
  <2> DEFINE r == ReadBits(l, <<1, 0>>, 1)
  <2>1. /\ r.ones = {j \in Captured(l) : j < 31} \cup {31}
        /\ \E s \in SUBSET (0..31) : r.chip = [l EXCEPT !.shift = s]
    BY <1>2, <1>3, ReadBitsIs
  <2> HIDE DEF r
  <2>2. ones = r.ones /\ d = r.chip
    BY <1>4 DEF r
  <2> QED BY <2>1, <2>2
<1>6. Captured(l) = Status(c)
  <2>1. STATUS_REG # READ_IDCODE
    BY Codes
  <2>2. Captured(l) = Status(l)
    BY <1>2, <2>1 DEF Captured
  <2>3. Status(l) = Status(c)
    BY <1>2 DEF Status, Alike
  <2> QED BY <2>2, <2>3
<1> HIDE DEF d, ones
<1>7. Idling(d) /\ d.mode = l.mode /\ Alike(l, d)
  BY <1>2, <1>5 DEF Idling, Sane, Chips, Alike
<1>8. /\ MEMORY_ERASE \in ones <=> c.sram = "erased"
      /\ DONE_FINAL \in ones <=> c.sram = "running"
      /\ CRC_ERROR \in ones <=> c.crc
  BY <1>5, <1>6 DEF Status, MEMORY_ERASE, DONE_FINAL, CRC_ERROR
<1>9. Idling(d) /\ d.mode = c.mode /\ Alike(c, d)
  BY <1>2, <1>7 DEF Alike
<1> QED BY <1>8, <1>9 DEF d, ones

LEMMA StatusType ==
    ASSUME NEW c \in Sane
    PROVE  Clocked(c, ReadReg32(c, STATUS_REG).chip)
<1> DEFINE d == SendCommand(c, STATUS_REG)
<1>1. Clocked(c, d)
  BY CodeTypes, SendCommandType
<1> HIDE DEF d
<1>2. Clocked(d, ReadBits(d, <<1, 0>>, 1).chip)
  BY <1>1, ReadBitsType DEF Clocked
<1>3. ReadReg32(c, STATUS_REG) = ReadBits(d, <<1, 0>>, 1)
  BY DEF ReadReg32, d
<1> QED BY <1>1, <1>2, <1>3 DEF Clocked

\* A GW2A is recognized, wherever its TAP is, if and only if it listens.
LEMMA IdcodeIs ==
    ASSUME NEW c \in Sane
    PROVE  LET d    == ReadIdcode(GotoIdle(c)).chip
               ones == ReadIdcode(GotoIdle(c)).ones
           IN  /\ d \in Sane
               /\ c.responds => Idling(d)
               /\ Manufacturer(ones) = Manufacturer(IDCODE) <=> c.responds
<1> DEFINE c1 == GotoIdle(c)
           c2 == GotoReset(c1)
           c3 == GotoIdle(c2)
           c4 == RunIdle6(c3)
           reading == ReadIdcode(c1)
<1>1. Clocked(c, c1)
  BY GotoType
<1> HIDE DEF c1
<1>2. Clocked(c1, c2)
  BY <1>1, GotoType DEF Clocked
<1> HIDE DEF c2
<1>3. Clocked(c2, c3) /\ (c2.responds => Idling(c3) /\ c3.ir = READ_IDCODE)
  BY <1>2, GotoType, GotoIdleIs DEF Clocked
<1> HIDE DEF c3
<1>4. Clocked(c3, c4)
  BY <1>3, RunIdleType DEF Clocked
<1>5. Idling(c3) => Idling(c4) /\ c4.ir = c3.ir
  BY RunIdle6Is, WarmedKeeps DEF Idling, Sane
<1> HIDE DEF c4
<1>6. c4 \in Sane /\ c4.responds = c.responds
  BY <1>1, <1>2, <1>3, <1>4 DEF Clocked
<1>7. c.responds => Idling(c4) /\ c4.ir = READ_IDCODE
  BY <1>1, <1>2, <1>3, <1>5 DEF Clocked
<1>8. reading = ReadBits(c4, <<1, 0>>, 0)
  BY DEF ReadIdcode, c2, c3, c4
<1> HIDE DEF reading
<1>9. Clocked(c4, reading.chip) /\ (~ c4.responds => reading.ones = 0..31)
  BY <1>6, <1>8, ReadBitsType
<1>10. CASE c.responds
  <2>1. Idling(c4) /\ c4.ir = READ_IDCODE /\ c4.ir # XFER_WRITE
    BY <1>7, <1>10, Codes
  <2>2. /\ reading.ones = {j \in Captured(c4) : j < 31} \cup {31}
        /\ \E s \in SUBSET (0..31) : reading.chip = [c4 EXCEPT !.shift = s]
    BY <1>8, <2>1, ReadBitsIs
  <2>3. Captured(c4) = IDCODE
    BY <2>1, Codes DEF Captured
  <2>4. reading.ones \cap 1..11 = IDCODE \cap 1..11
    BY <2>2, <2>3 DEF IDCODE
  <2>5. Idling(reading.chip)
    BY <2>1, <2>2 DEF Idling, Sane, Chips
  <2>6. Manufacturer(reading.ones) = Manufacturer(IDCODE)
    BY <2>4 DEF Manufacturer
  <2> QED BY <1>10, <2>5, <2>6 DEF reading, c1, Idling
<1>11. CASE ~ c.responds
  <2>1. reading.ones = 0..31
    BY <1>6, <1>9, <1>11
  <2>2. 1 \in Manufacturer(reading.ones)
    <3>1. 2 \in reading.ones \cap 1..11 /\ 1 = 2 - 1
      BY <2>1
    <3> QED BY <3>1 DEF Manufacturer
  <2>3. 1 \notin Manufacturer(IDCODE)
    BY DEF Manufacturer, IDCODE
  <2> QED BY <1>9, <1>11, <2>2, <2>3 DEF reading, c1, Clocked
<1> QED BY <1>10, <1>11

LEMMA EnterConfigIs ==
    ASSUME NEW c \in Sane
    PROVE  LET d == RunIdle(SendCommand(c, CONFIG_ENABLE))
           IN  /\ Clocked(c, d)
               /\ Idling(c) => Idling(d) /\ d.mode = "on" /\ Alike(c, d)
<1> DEFINE d == RunIdle(SendCommand(c, CONFIG_ENABLE))
           e == SendCommand(c, CONFIG_ENABLE)
           l == Loaded(c, CONFIG_ENABLE)
<1>1. Clocked(c, d)
  <2>1. Clocked(c, e)
    BY CodeTypes, SendCommandType
  <2> HIDE DEF e
  <2>2. Clocked(e, RunIdle(e))
    BY <2>1, RunIdleType DEF Clocked
  <2> QED BY <2>1, <2>2 DEF Clocked, e
<1>2. ASSUME Idling(c) PROVE Idling(d) /\ d.mode = "on" /\ Alike(c, d)
  <2>1. d = [l EXCEPT !.mode = "on", !.warm = 2]
    BY <1>2, CommandEnables
  <2>2. Idling(l) /\ Alike(c, l)
    BY <1>2, CodeTypes, LoadedType DEF Alike
  <2> HIDE DEF d, l
  <2> DEFINE w == 2
  <2>3. w \in 0..2 /\ d = [l EXCEPT !.mode = "on", !.warm = w]
    BY <2>1
  <2> HIDE DEF w
  <2>4. Idling(d) /\ d.mode = "on" /\ Alike(l, d)
    BY <2>2, <2>3 DEF Idling, Sane, Chips, Alike
  <2> QED BY <2>2, <2>4 DEF Alike
<1> QED BY <1>1, <1>2

LEMMA StartEraseIs ==
    ASSUME NEW c \in Sane
    PROVE  LET d == RunIdle(SendAll(c, <<ERASE_SRAM, NOOP>>))
           IN  /\ Clocked(c, d)
               /\ Idling(c) /\ c.mode = "on" =>
                    Idling(d) /\ d.mode = "on" /\ d.sram = "erasing" /\ d.taken = <<>>
<1> DEFINE e == SendAll(c, <<ERASE_SRAM, NOOP>>)
<1>1. Clocked(c, e)
  BY CodeTypes, SendAllType
<1>2. ASSUME Idling(c), c.mode = "on"
      PROVE  Idling(e) /\ e.mode = "on" /\ e.sram = "erasing" /\ e.taken = <<>>
  <2> DEFINE l == Loaded(c, ERASE_SRAM)
             c1 == SendCommand(c, ERASE_SRAM)
             empty == <<>>
  <2>1. c1 = [l EXCEPT !.sram = "erasing", !.taken = empty, !.crc = FALSE]
    BY <1>2, CommandErases
  <2>2. Idling(l) /\ l.mode = "on"
    BY <1>2, CodeTypes, LoadedType
  <2>3. empty \in Seq(0..8 * Bytes)
    OBVIOUS
  <2>4. c1 \in Chips
    <3> HIDE DEF l, empty, c1
    <3> QED BY <2>1, <2>2, <2>3, ErasedSet DEF Idling, Sane
  <2> HIDE DEF l, empty, c1
  <2>5. c1.tap = "Idle" /\ c1.responds /\ c1.mode = "on" /\ c1.sram = "erasing" /\ c1.taken = empty
    BY <2>1, <2>2 DEF Idling, Sane, Chips
  <2>6. Idling(c1)
    BY <2>4, <2>5 DEF Idling, Sane
  <2>7. SendCommand(c1, NOOP) = Loaded(c1, NOOP)
    BY <2>5, <2>6, CommandStays
  <2>8. e = Loaded(c1, NOOP)
    BY <2>7, CodeTypes, SendAll2 DEF c1
  <2> QED BY <2>5, <2>6, <2>8, CodeTypes, LoadedType DEF empty
<1> HIDE DEF e
<1>3. Clocked(e, RunIdle(e))
  BY <1>1, RunIdleType DEF Clocked
<1>4. Idling(e) /\ e.mode = "on" => RunIdle(e) = e
  BY RunIdleIs
<1>5. Clocked(c, RunIdle(e))
  BY <1>1, <1>3 DEF Clocked
<1> QED BY <1>2, <1>4, <1>5 DEF e

LEMMA LeaveConfigIs ==
    ASSUME NEW c \in Sane
    PROVE  LET d == SendAll(c, <<XFER_DONE, NOOP, CONFIG_DISABLE, NOOP>>)
           IN  /\ Clocked(c, d)
               /\ Idling(c) /\ c.mode = "on" => Idling(d) /\ d.sram = c.sram /\ d.taken = c.taken
<1> DEFINE d == SendAll(c, <<XFER_DONE, NOOP, CONFIG_DISABLE, NOOP>>)
           Like(x) == x.sram = c.sram /\ x.taken = c.taken
<1>1. Clocked(c, d)
  BY CodeTypes, SendAllType
<1>2. ASSUME Idling(c), c.mode = "on"
      PROVE  Idling(d) /\ Like(d)
  <2> DEFINE c1 == SendCommand(c, XFER_DONE)
             c2 == SendCommand(c1, NOOP)
             c3 == SendCommand(c2, CONFIG_DISABLE)
             c4 == SendCommand(c3, NOOP)
  <2>1. Idling(c1) /\ c1.mode = "on" /\ Like(c1)
    <3>1. c1 = Loaded(c, XFER_DONE)
      BY <1>2, CommandStays
    <3> HIDE DEF c1
    <3> QED BY <1>2, <3>1, CodeTypes, LoadedType
  <2> HIDE DEF c1
  <2>2. Idling(c2) /\ c2.mode = "on" /\ Like(c2)
    <3>1. c2 = Loaded(c1, NOOP)
      BY <2>1, CommandStays
    <3> HIDE DEF c2
    <3> QED BY <2>1, <3>1, CodeTypes, LoadedType
  <2> HIDE DEF c2
  <2>3. Idling(c3) /\ c3.mode = "off" /\ Like(c3)
    <3> DEFINE l == Loaded(c2, CONFIG_DISABLE)
    <3>1. c3 = [l EXCEPT !.mode = "off", !.addr = FALSE]
      BY <2>2, CommandDisables
    <3>2. Idling(l) /\ Like(l)
      BY <2>2, CodeTypes, LoadedType
    <3> HIDE DEF c3, l
    <3> QED BY <3>1, <3>2 DEF Idling, Sane, Chips
  <2> HIDE DEF c3
  <2>4. Idling(c4) /\ Like(c4)
    <3>1. c4 = Loaded(c3, NOOP)
      BY <2>3, CommandStays
    <3> HIDE DEF c4
    <3> QED BY <2>3, <3>1, CodeTypes, LoadedType
  <2>5. d = c4
    BY CodeTypes, SendAll4 DEF c1, c2, c3
  <2> QED BY <2>4, <2>5
<1> QED BY <1>1, <1>2

LEMMA StartTransferIs ==
    ASSUME NEW c \in Sane
    PROVE  LET e == RunIdle(SendCommand(c, CONFIG_ENABLE))
               d == ClockTms(SendAll(e, <<INIT_ADDR, XFER_WRITE>>), <<1, 0>>)
           IN  /\ Clocked(c, d)
               /\ Idling(c) /\ c.sram = "erased" /\ c.taken = <<>> => Streamed(d, 0)
<1> DEFINE e == RunIdle(SendCommand(c, CONFIG_ENABLE))
           w == SendAll(e, <<INIT_ADDR, XFER_WRITE>>)
           d == ClockTms(w, <<1, 0>>)
<1>1. Clocked(c, e) /\ (Idling(c) => Idling(e) /\ e.mode = "on" /\ Alike(c, e))
  BY EnterConfigIs
<1> HIDE DEF e
<1>2. Clocked(e, w)
  BY <1>1, CodeTypes, SendAllType DEF Clocked
<1>3. ASSUME Idling(e), e.mode = "on", e.sram = "erased", e.taken = <<>>
      PROVE  /\ Idling(w) /\ w.ir = XFER_WRITE /\ w.mode = "on" /\ w.addr
             /\ w.sram = "erased" /\ w.taken = <<>>
  <2> DEFINE c1 == SendCommand(e, INIT_ADDR)
             l  == Loaded(e, INIT_ADDR)
  <2>1. c1 = [l EXCEPT !.addr = TRUE]
    BY <1>3, CommandAddresses
  <2>2. Idling(l) /\ l.mode = "on" /\ l.sram = "erased" /\ l.taken = <<>>
    BY <1>3, CodeTypes, LoadedType
  <2>3. Idling(c1) /\ c1.mode = "on" /\ c1.addr /\ c1.sram = "erased" /\ c1.taken = <<>>
    <3> HIDE DEF c1, l
    <3>1. c1 \in Chips /\ c1.tap = l.tap /\ c1.responds = l.responds /\ c1.mode = l.mode /\ c1.addr
          /\ c1.sram = l.sram /\ c1.taken = l.taken /\ c1.shift = l.shift
      BY <2>1, <2>2 DEF Idling, Sane, Chips
    <3> QED BY <2>2, <3>1 DEF Idling, Sane
  <2> HIDE DEF c1
  <2>4. SendCommand(c1, XFER_WRITE) = Loaded(c1, XFER_WRITE)
    BY <2>3, CommandStays
  <2>5. w = Loaded(c1, XFER_WRITE)
    BY <1>3, <2>4, CodeTypes, SendAll2 DEF c1, Idling
  <2> QED BY <2>3, <2>5, CodeTypes, LoadedType
<1> HIDE DEF w
<1>4. Clocked(w, d)
  BY <1>2, ShortType DEF Clocked
<1>5. ASSUME Idling(c), c.sram = "erased", c.taken = <<>>
      PROVE  Streamed(d, 0)
  <2>1. /\ Idling(w) /\ w.ir = XFER_WRITE /\ w.mode = "on" /\ w.addr
        /\ w.sram = "erased" /\ w.taken = <<>>
    BY <1>1, <1>3, <1>5 DEF Alike
  <2>2. d = [w EXCEPT !.tap = "CaptureDR"] /\ d \in Sane
    BY <2>1, SelectDr
  <2> HIDE DEF d
  <2>3. /\ d.responds = w.responds /\ d.ir = w.ir /\ d.mode = w.mode /\ d.addr = w.addr
        /\ d.sram = w.sram /\ d.taken = w.taken /\ d.tap = "CaptureDR"
    BY <2>1, <2>2 DEF Idling, Sane, Chips
  <2> QED BY <2>1, <2>2, <2>3, BitstreamIs DEF Streamed, Idling
<1>6. Clocked(c, d)
  BY <1>1, <1>2, <1>4 DEF Clocked
<1> QED BY <1>5, <1>6 DEF e, w

LEMMA FinishIs ==
    ASSUME NEW c \in Sane
    PROVE  LET d == GotoReset(RunIdle(SendAll(c, <<CONFIG_DISABLE, NOOP>>)))
           IN  /\ Clocked(c, d)
               /\ Idling(c) => d.tap = "Reset" /\ d.mode = "off"
<1> DEFINE e == SendAll(c, <<CONFIG_DISABLE, NOOP>>)
           r == RunIdle(e)
           d == GotoReset(r)
<1>1. Clocked(c, e)
  BY CodeTypes, SendAllType
<1>2. ASSUME Idling(c) PROVE Idling(e) /\ e.mode = "off"
  <2> DEFINE c1 == SendCommand(c, CONFIG_DISABLE)
             l  == Loaded(c, CONFIG_DISABLE)
  <2>1. c1 = [l EXCEPT !.mode = "off", !.addr = FALSE]
    BY <1>2, CommandDisables
  <2>2. Idling(l)
    BY <1>2, CodeTypes, LoadedType
  <2>3. Idling(c1) /\ c1.mode = "off"
    <3> HIDE DEF c1, l
    <3> QED BY <2>1, <2>2 DEF Idling, Sane, Chips
  <2> HIDE DEF c1
  <2>4. SendCommand(c1, NOOP) = Loaded(c1, NOOP)
    BY <2>3, CommandStays
  <2>5. e = Loaded(c1, NOOP)
    BY <2>4, CodeTypes, SendAll2 DEF c1
  <2> QED BY <2>3, <2>5, CodeTypes, LoadedType
<1> HIDE DEF e
<1>3. Clocked(e, r) /\ (Idling(e) /\ e.mode = "off" => r = e)
  BY <1>1, RunIdleType, RunIdleIs DEF Clocked
<1> HIDE DEF r
<1>4. Clocked(r, d)
  BY <1>3, GotoType DEF Clocked
<1>5. ASSUME Idling(c) PROVE d.tap = "Reset" /\ d.mode = "off"
  <2>1. Idling(r) /\ r.mode = "off"
    BY <1>2, <1>3, <1>5
  <2>2. d = [r EXCEPT !.tap = "Reset", !.ir = READ_IDCODE]
    BY <2>1, ResetFromIdle
  <2> HIDE DEF d
  <2> QED BY <2>1, <2>2 DEF Idling, Sane, Chips
<1>6. Clocked(c, d)
  BY <1>1, <1>3, <1>4 DEF Clocked
<1> QED BY <1>5, <1>6 DEF e, r

LEMMA LeaveShiftType ==
    ASSUME NEW c \in Sane, NEW open \in BOOLEAN
    PROVE  RunIdle(IF open THEN ClockTms(c, <<1, 1, 0>>) ELSE c) \in Sane
<1>1. ClockTms(c, <<1, 1, 0>>) \in Sane
  BY ShortType DEF Clocked
<1> QED BY <1>1, RunIdleType DEF Clocked

-----------------------------------------------------------------------------
(* The sessions. *)

\* What write() relies on: the flag is only set where a stream may be open, and
\* no session starts without the call that brings the TAP to its place.
FlagInv ==
    /\ session.pc # "closed" => session.ready
    /\ streaming => session.ready /\ session.pc \in {"closed", "pulse", "identify", "write", "end"}
    /\ session.pc \in {"write", "end"} => streaming
    /\ session.pc \in {"pulse", "identify", "enable", "erase", "poll", "disable", "transfer"} =>
         session.sent = 0

\* How far an undisturbed session has brought the FPGA.
PlaceInv ==
    /\ session.pc \in {"enable", "erase", "poll", "disable", "transfer", "verify", "finish"} => Idling(chip)
    /\ session.pc \in {"erase", "poll", "disable", "verify"} => chip.mode = "on"
    /\ session.pc = "poll" => chip.sram \in {"erasing", "erased"}
    /\ session.pc \in {"disable", "transfer"} => chip.sram = "erased"
    /\ session.pc \in {"poll", "disable", "transfer"} => chip.taken = <<>>
    /\ session.pc \in {"write", "end"} => Streamed(chip, 8 * session.sent)
    /\ session.pc = "verify" => /\ IsPrefix(Stream(session.sent), chip.taken)
                                /\ Len(chip.taken) <= 8 * session.sent

\* The inductive invariant.
IInv ==
    /\ TypeOK /\ chip \in Sane
    /\ FlagInv
    /\ ~ session.disturbed => PlaceInv
    /\ StreamingIsShifting
    /\ EndLeavesReset

\* It is more than the properties.
LEMMA IInvImplies ==
    IInv => TypeOK /\ StreamIntact /\ StreamingIsShifting /\ EndLeavesReset
<1> SUFFICES ASSUME IInv PROVE StreamIntact
  BY DEF IInv
<1> SUFFICES ASSUME session.pc \in {"write", "end", "verify"}, ~ session.disturbed
             PROVE  /\ IsPrefix(Stream(session.sent), chip.taken)
                    /\ Len(chip.taken) <= 8 * session.sent
  BY DEF StreamIntact
<1>1. PlaceInv /\ session.sent \in Nat
  BY DEF IInv, TypeOK
<1>2. CASE session.pc \in {"write", "end"}
  <2>1. chip.taken = Stream(session.sent)
    BY <1>1, <1>2, BitstreamIs DEF PlaceInv, Streamed
  <2> QED BY <1>1, <2>1, StreamPrefix
<1>3. CASE session.pc = "verify"
  BY <1>1, <1>3 DEF PlaceInv
<1> QED BY <1>2, <1>3

LEMMA InitIInv == Init => IInv
<1> SUFFICES ASSUME Init PROVE IInv
  OBVIOUS
<1>1. chip \in Chips
  <2>1. "Reset" \in TapStates /\ READ_IDCODE \in SUBSET (0..7)
    BY CodeTypes DEF TapStates
  <2> DEFINE w == 0
             t == <<>>
             s == {}
  <2>2. w \in 0..2 /\ t \in Seq(0..8 * Bytes) /\ s \in SUBSET (0..31)
    OBVIOUS
  <2>3. chip \in [tap : {"Reset"}, ir : {READ_IDCODE}, shift : {s}, responds : BOOLEAN,
                  mode : {"off"}, warm : {w}, addr : {FALSE}, crc : {FALSE}, sram : {"design"}, taken : {t}]
    BY DEF Init
  <2> HIDE DEF w, t, s
  <2> QED BY <2>1, <2>2, <2>3 DEF Chips
<1>2. chip.tap = "Reset" /\ streaming = FALSE /\ session.pc = "closed" /\ session.verdict = "none"
  BY DEF Init
<1>3. TypeOK
  <2> DEFINE one == 1
             nil == 0
  <2>1. one \in 1..Attempts /\ nil \in 0..Bytes
    BY AttemptsAssumption, BytesAssumption
  <2>2. session \in [caller : Callers, pc : {"closed"}, attempt : {one}, sent : {nil},
                     verdict : {"none"}, disturbed : {FALSE}, ready : {FALSE}]
    BY DEF Init
  <2> HIDE DEF one, nil
  <2> QED BY <1>1, <1>2, <2>1, <2>2 DEF TypeOK, Places
<1>4. chip \in Sane
  BY <1>1, <1>2 DEF Sane
<1>5. FlagInv /\ PlaceInv /\ StreamingIsShifting /\ EndLeavesReset
  BY <1>2 DEF FlagInv, PlaceInv, StreamingIsShifting, EndLeavesReset
<1> QED BY <1>3, <1>4, <1>5 DEF IInv

\* A pulse of RECONFIG_N leaves the TAP where it is.
LEMMA PulsedIs ==
    ASSUME IInv, chip' \in Pulsed
    PROVE  chip' \in Sane /\ chip'.tap = chip.tap /\ chip'.ir = chip.ir
<1>1. PICK r \in BOOLEAN : chip' = [chip EXCEPT !.responds = r, !.mode = "off", !.addr = FALSE,
                                                !.crc = FALSE, !.sram = "design", !.taken = <<>>]
  BY DEF Pulsed
<1> DEFINE t == <<>>
<1>2. t \in Seq(0..8 * Bytes)
  OBVIOUS
<1>3. chip' = [chip EXCEPT !.responds = r, !.mode = "off", !.addr = FALSE,
                                                !.crc = FALSE, !.sram = "design", !.taken = t]
  BY <1>1
<1> HIDE DEF t
<1>4. chip' \in Chips /\ chip'.tap = chip.tap /\ chip'.ir = chip.ir /\ chip'.shift = chip.shift
  BY <1>2, <1>3 DEF IInv, Sane, Chips
<1> QED BY <1>4 DEF IInv, Sane

LEMMA StutterIInv ==
    ASSUME IInv, UNCHANGED vars PROVE IInv'
BY DEF IInv, vars, TypeOK, FlagInv, PlaceInv, StreamingIsShifting, EndLeavesReset

LEMMA OpenIInv ==
    ASSUME IInv, NEW k \in Callers, Open(k) PROVE IInv'
<1>1. /\ session' = [session EXCEPT !.caller = k, !.pc = "pulse", !.attempt = 1, !.sent = 0,
                                    !.verdict = "none", !.ready = TRUE]
      /\ streaming' = streaming /\ session.pc = "closed"
  BY DEF Open, At
<1>2. /\ session'.pc = "pulse" /\ session'.sent = 0 /\ session'.verdict = "none" /\ session'.ready
      /\ session'.disturbed = session.disturbed
  BY <1>1 DEF IInv, TypeOK
<1>3. session' \in [caller : Callers, pc : Places, attempt : 1..Attempts, sent : 0..Bytes,
                    verdict : {"none", "absent", "abandoned", "done", "crc", "undone"},
                    disturbed : BOOLEAN, ready : BOOLEAN]
  <2> DEFINE one == 1
             nil == 0
  <2>1. one \in 1..Attempts /\ nil \in 0..Bytes
    BY AttemptsAssumption, BytesAssumption
  <2>2. session' = [session EXCEPT !.caller = k, !.pc = "pulse", !.attempt = one, !.sent = nil,
                                   !.verdict = "none", !.ready = TRUE]
    BY <1>1
  <2> HIDE DEF one, nil
  <2> QED BY <2>1, <2>2 DEF IInv, TypeOK, Places
<1>4. chip' \in Sane /\ (session.ready => chip' = chip)
  <2> DEFINE r == GotoReset(chip)
             c == GotoIdle(r)
  <2>1. r \in Sane
    BY GotoType DEF IInv, Clocked
  <2> HIDE DEF r
  <2>2. c \in Sane
    BY <2>1, GotoType DEF Clocked
  <2>3. chip' = IF session.ready THEN chip ELSE c
    BY DEF Open, r
  <2> QED BY <2>2, <2>3 DEF IInv
<1>5. FlagInv'
  BY <1>1, <1>2 DEF IInv, FlagInv
<1>6. PlaceInv' /\ EndLeavesReset'
  BY <1>2 DEF PlaceInv, EndLeavesReset
<1>7. StreamingIsShifting'
  BY <1>1, <1>2, <1>4 DEF IInv, FlagInv, StreamingIsShifting
<1>8. TypeOK'
  BY <1>1, <1>3, <1>4 DEF IInv, TypeOK, Sane
<1> QED BY <1>4, <1>5, <1>6, <1>7, <1>8 DEF IInv

Sessions == [caller : Callers, pc : Places, attempt : 1..Attempts, sent : 0..Bytes,
             verdict : {"none", "absent", "abandoned", "done", "crc", "undone"},
             disturbed : BOOLEAN, ready : BOOLEAN]

LEMMA GotoIs ==
    ASSUME IInv, NEW l \in Places, Goto(l)
    PROVE  /\ session' \in Sessions /\ session'.pc = l
           /\ session'.caller = session.caller /\ session'.sent = session.sent
           /\ session'.verdict = session.verdict
           /\ session'.disturbed = session.disturbed /\ session'.ready = session.ready
<1>1. session \in Sessions
  BY DEF IInv, TypeOK, Sessions
<1> QED BY <1>1 DEF Goto, Sessions

LEMMA RetryIs ==
    ASSUME IInv, Retry
    PROVE  /\ session' \in Sessions
           /\ \/ session'.pc = "pulse"
              \/ session'.pc = "closed" /\ session'.verdict = "absent"
           /\ session'.sent = session.sent /\ session'.disturbed = session.disturbed
           /\ session'.ready = session.ready
<1>1. session \in Sessions
  BY DEF IInv, TypeOK, Sessions
<1>2. "pulse" \in Places /\ "closed" \in Places
  BY DEF Places
<1>3. CASE session.attempt < Attempts
  <2> DEFINE a == session.attempt + 1
  <2>1. a \in 1..Attempts
    BY <1>1, <1>3, AttemptsAssumption DEF Sessions
  <2>2. session' = [session EXCEPT !.pc = "pulse", !.attempt = a]
    BY <1>1, <1>3 DEF Retry, Sessions
  <2> HIDE DEF a
  <2> QED BY <1>1, <1>2, <2>1, <2>2 DEF Sessions
<1>4. CASE ~ (session.attempt < Attempts)
  BY <1>1, <1>2, <1>4 DEF Retry, Sessions
<1> QED BY <1>3, <1>4

LEMMA PulseIInv == ASSUME IInv, Pulse PROVE IInv'
<1>1. session.pc = "pulse" /\ streaming' = streaming
  BY DEF Pulse, At
<1>2. /\ session' \in Sessions /\ session'.pc = "identify" /\ session'.sent = session.sent
      /\ session'.disturbed = session.disturbed /\ session'.ready = session.ready
  BY GotoIs DEF Pulse, Places
<1>3. chip' \in Sane /\ chip'.tap = chip.tap /\ chip'.ir = chip.ir
  BY PulsedIs DEF Pulse
<1>4. TypeOK'
  BY <1>1, <1>2, <1>3 DEF IInv, TypeOK, Sessions, Sane
<1>5. FlagInv' /\ StreamingIsShifting'
  BY <1>1, <1>2, <1>3 DEF IInv, FlagInv, StreamingIsShifting
<1>6. PlaceInv' /\ EndLeavesReset'
  BY <1>2 DEF PlaceInv, EndLeavesReset
<1> QED BY <1>3, <1>4, <1>5, <1>6 DEF IInv

LEMMA IdentifyIInv == ASSUME IInv, Identify PROVE IInv'
<1> DEFINE idcode == ReadIdcode(GotoIdle(chip))
           listens == Manufacturer(idcode.ones) = Manufacturer(IDCODE)
<1>1. /\ session.pc = "identify" /\ streaming' = FALSE /\ chip' = idcode.chip
      /\ IF listens THEN session' = [session EXCEPT !.pc = "enable", !.disturbed = FALSE] ELSE Retry
  BY DEF Identify, At
<1>2. /\ idcode.chip \in Sane /\ (chip.responds => Idling(idcode.chip)) /\ (listens <=> chip.responds)
  BY IdcodeIs DEF IInv
<1> HIDE DEF idcode, listens
<1>3. CASE listens
  <2>1. session \in Sessions /\ session' = [session EXCEPT !.pc = "enable", !.disturbed = FALSE]
    BY <1>1, <1>3 DEF IInv, TypeOK, Sessions
  <2>2. /\ session' \in Sessions /\ session'.pc = "enable" /\ session'.sent = session.sent
        /\ session'.ready = session.ready
    BY <2>1 DEF Sessions, Places
  <2>3. Idling(chip') /\ chip' \in Sane
    BY <1>1, <1>2, <1>3
  <2>4. TypeOK'
    BY <1>1, <2>2, <2>3 DEF TypeOK, Sessions, Sane
  <2>5. FlagInv' /\ StreamingIsShifting'
    BY <1>1, <2>2 DEF IInv, FlagInv, StreamingIsShifting
  <2>6. PlaceInv' /\ EndLeavesReset'
    BY <2>2, <2>3 DEF PlaceInv, EndLeavesReset
  <2> QED BY <2>3, <2>4, <2>5, <2>6 DEF IInv
<1>4. CASE ~ listens
  <2>1. /\ session' \in Sessions
        /\ \/ session'.pc = "pulse"
           \/ session'.pc = "closed" /\ session'.verdict = "absent"
        /\ session'.sent = session.sent /\ session'.ready = session.ready
    BY <1>1, <1>4, RetryIs
  <2>2. chip' \in Sane
    BY <1>1, <1>2
  <2>3. TypeOK'
    BY <1>1, <2>1, <2>2 DEF TypeOK, Sessions, Sane
  <2>4. FlagInv' /\ StreamingIsShifting'
    BY <1>1, <2>1 DEF IInv, FlagInv, StreamingIsShifting
  <2>5. PlaceInv' /\ EndLeavesReset'
    BY <2>1 DEF PlaceInv, EndLeavesReset
  <2> QED BY <2>2, <2>3, <2>4, <2>5 DEF IInv
<1> QED BY <1>3, <1>4

LEMMA EnterConfigIInv == ASSUME IInv, EnterConfig PROVE IInv'
<1> DEFINE d == RunIdle(SendCommand(chip, CONFIG_ENABLE))
<1>1. session.pc = "enable" /\ streaming' = streaming /\ chip' = d
  BY DEF EnterConfig, At
<1>2. /\ session' \in Sessions /\ session'.pc = "erase" /\ session'.sent = session.sent
      /\ session'.disturbed = session.disturbed /\ session'.ready = session.ready
  BY GotoIs DEF EnterConfig, Places
<1>3. d \in Sane /\ (Idling(chip) => Idling(d) /\ d.mode = "on")
  BY EnterConfigIs DEF IInv, Clocked
<1> HIDE DEF d
<1>4. TypeOK'
  BY <1>1, <1>2, <1>3 DEF IInv, TypeOK, Sessions, Sane
<1>5. FlagInv' /\ StreamingIsShifting'
  BY <1>1, <1>2 DEF IInv, FlagInv, StreamingIsShifting
<1>6. ~ session'.disturbed => PlaceInv'
  BY <1>1, <1>2, <1>3 DEF IInv, PlaceInv
<1>7. EndLeavesReset'
  BY <1>2 DEF EndLeavesReset
<1> QED BY <1>1, <1>3, <1>4, <1>5, <1>6, <1>7 DEF IInv

LEMMA StartEraseIInv == ASSUME IInv, StartErase PROVE IInv'
<1> DEFINE d == RunIdle(SendAll(chip, <<ERASE_SRAM, NOOP>>))
<1>1. session.pc = "erase" /\ streaming' = streaming /\ chip' = d
  BY DEF StartErase, At
<1>2. /\ session' \in Sessions /\ session'.pc = "poll" /\ session'.sent = session.sent
      /\ session'.disturbed = session.disturbed /\ session'.ready = session.ready
  BY GotoIs DEF StartErase, Places
<1>3. d \in Sane /\ (Idling(chip) /\ chip.mode = "on" =>
                       Idling(d) /\ d.mode = "on" /\ d.sram = "erasing" /\ d.taken = <<>>)
  BY StartEraseIs DEF IInv, Clocked
<1> HIDE DEF d
<1>4. TypeOK'
  BY <1>1, <1>2, <1>3 DEF IInv, TypeOK, Sessions, Sane
<1>5. FlagInv' /\ StreamingIsShifting'
  BY <1>1, <1>2 DEF IInv, FlagInv, StreamingIsShifting
<1>6. ~ session'.disturbed => PlaceInv'
  BY <1>1, <1>2, <1>3 DEF IInv, PlaceInv
<1>7. EndLeavesReset'
  BY <1>2 DEF EndLeavesReset
<1> QED BY <1>1, <1>3, <1>4, <1>5, <1>6, <1>7 DEF IInv

LEMMA PollEraseIInv == ASSUME IInv, PollErase PROVE IInv'
<1> DEFINE status == ReadReg32(chip, STATUS_REG)
           d == status.chip
           e == IF MEMORY_ERASE \in status.ones THEN d ELSE RunIdle(d)
<1>1. /\ session.pc = "poll" /\ streaming' = streaming /\ chip' = e
      /\ IF MEMORY_ERASE \in status.ones THEN Goto("disable") ELSE session' = session
  BY DEF PollErase, At
<1>2. /\ session' \in Sessions /\ session'.sent = session.sent
      /\ session'.disturbed = session.disturbed /\ session'.ready = session.ready
      /\ session'.pc = IF MEMORY_ERASE \in status.ones THEN "disable" ELSE "poll"
  <2>1. CASE MEMORY_ERASE \in status.ones
    <3>1. Goto("disable") /\ "disable" \in Places
      BY <1>1, <2>1 DEF Places
    <3> HIDE DEF status
    <3> QED BY <2>1, <3>1, GotoIs
  <2>2. CASE MEMORY_ERASE \notin status.ones
    <3> HIDE DEF status
    <3> QED BY <1>1, <2>2 DEF IInv, TypeOK, Sessions
  <2> QED BY <2>1, <2>2
<1>3. e \in Sane
  <2>1. d \in Sane
    BY StatusType DEF IInv, Clocked
  <2> HIDE DEF d
  <2>2. RunIdle(d) \in Sane
    BY <2>1, RunIdleType DEF Clocked
  <2> QED BY <2>1, <2>2
<1>4. ASSUME ~ session.disturbed
      PROVE  /\ Idling(e) /\ e.mode = "on" /\ e.sram = chip.sram /\ e.taken = chip.taken
             /\ MEMORY_ERASE \in status.ones <=> chip.sram = "erased"
  <2>1. Idling(chip) /\ chip.mode = "on"
    BY <1>1, <1>4 DEF IInv, PlaceInv
  <2>2. /\ Idling(d) /\ d.mode = "on" /\ Alike(chip, d)
        /\ MEMORY_ERASE \in status.ones <=> chip.sram = "erased"
    BY <2>1, StatusIs
  <2> HIDE DEF status, d
  <2>3. RunIdle(d) = d
    BY <2>2, RunIdleIs
  <2> QED BY <2>2, <2>3 DEF Alike
<1> HIDE DEF e, status
<1>5. TypeOK'
  BY <1>1, <1>2, <1>3 DEF IInv, TypeOK, Sessions, Sane
<1>6. FlagInv' /\ StreamingIsShifting'
  BY <1>1, <1>2 DEF IInv, FlagInv, StreamingIsShifting
<1>7. ~ session'.disturbed => PlaceInv'
  BY <1>1, <1>2, <1>4 DEF IInv, PlaceInv
<1>8. EndLeavesReset'
  BY <1>2 DEF EndLeavesReset
<1> QED BY <1>1, <1>3, <1>5, <1>6, <1>7, <1>8 DEF IInv

LEMMA PollTimeoutIInv == ASSUME IInv, PollTimeout PROVE IInv'
<1>1. session.pc = "poll" /\ streaming' = streaming /\ chip' = chip
  BY DEF PollTimeout, At
<1>2. /\ session' \in Sessions
      /\ \/ session'.pc = "pulse"
         \/ session'.pc = "closed" /\ session'.verdict = "absent"
      /\ session'.sent = session.sent /\ session'.ready = session.ready
  BY RetryIs DEF PollTimeout
<1>3. TypeOK'
  BY <1>1, <1>2 DEF IInv, TypeOK, Sessions
<1>4. FlagInv' /\ StreamingIsShifting'
  BY <1>1, <1>2 DEF IInv, FlagInv, StreamingIsShifting
<1>5. PlaceInv' /\ EndLeavesReset'
  BY <1>2 DEF PlaceInv, EndLeavesReset
<1> QED BY <1>1, <1>3, <1>4, <1>5 DEF IInv

LEMMA LeaveConfigIInv == ASSUME IInv, LeaveConfig PROVE IInv'
<1> DEFINE d == SendAll(chip, <<XFER_DONE, NOOP, CONFIG_DISABLE, NOOP>>)
<1>1. session.pc = "disable" /\ streaming' = streaming /\ chip' = d
  BY DEF LeaveConfig, At
<1>2. /\ session' \in Sessions /\ session'.pc = "transfer" /\ session'.sent = session.sent
      /\ session'.disturbed = session.disturbed /\ session'.ready = session.ready
  BY GotoIs DEF LeaveConfig, Places
<1>3. d \in Sane /\ (Idling(chip) /\ chip.mode = "on" =>
                       Idling(d) /\ d.sram = chip.sram /\ d.taken = chip.taken)
  BY LeaveConfigIs DEF IInv, Clocked
<1> HIDE DEF d
<1>4. TypeOK'
  BY <1>1, <1>2, <1>3 DEF IInv, TypeOK, Sessions, Sane
<1>5. FlagInv' /\ StreamingIsShifting'
  BY <1>1, <1>2 DEF IInv, FlagInv, StreamingIsShifting
<1>6. ~ session'.disturbed => PlaceInv'
  BY <1>1, <1>2, <1>3 DEF IInv, PlaceInv
<1>7. EndLeavesReset'
  BY <1>2 DEF EndLeavesReset
<1> QED BY <1>1, <1>3, <1>4, <1>5, <1>6, <1>7 DEF IInv

LEMMA StartTransferIInv == ASSUME IInv, StartTransfer PROVE IInv'
<1> DEFINE e == RunIdle(SendCommand(chip, CONFIG_ENABLE))
           d == ClockTms(SendAll(e, <<INIT_ADDR, XFER_WRITE>>), <<1, 0>>)
<1>1. session.pc = "transfer" /\ streaming' = TRUE /\ chip' = d
  BY DEF StartTransfer, At
<1>2. /\ session' \in Sessions /\ session'.pc = "write" /\ session'.sent = session.sent
      /\ session'.disturbed = session.disturbed /\ session'.ready = session.ready
  BY GotoIs DEF StartTransfer, Places
<1>3. d \in Sane /\ (Idling(chip) /\ chip.sram = "erased" /\ chip.taken = <<>> => Streamed(d, 0))
  BY StartTransferIs DEF IInv, Clocked
<1> HIDE DEF d
<1>4. session'.sent = 0 /\ 8 * session'.sent = 0
  BY <1>1, <1>2 DEF IInv, FlagInv
<1>5. session'.ready
  BY <1>1, <1>2 DEF IInv, FlagInv
<1>6. TypeOK'
  BY <1>1, <1>2, <1>3 DEF IInv, TypeOK, Sessions, Sane
<1>7. FlagInv'
  BY <1>1, <1>2, <1>4, <1>5 DEF FlagInv
<1>8. ~ session'.disturbed => Streamed(chip', 0)
  BY <1>1, <1>2, <1>3 DEF IInv, PlaceInv
<1>9. ~ session'.disturbed => PlaceInv'
  BY <1>2, <1>4, <1>8 DEF PlaceInv
<1>10. StreamingIsShifting'
  BY <1>8 DEF StreamingIsShifting, Streamed
<1>11. EndLeavesReset'
  BY <1>2 DEF EndLeavesReset
<1> QED BY <1>1, <1>3, <1>6, <1>7, <1>9, <1>10, <1>11 DEF IInv


LEMMA WriteIInv == ASSUME IInv, Write PROVE IInv'
<1> DEFINE m == session.sent
           d == Clocks(chip, Octet(m))
<1>1. session.pc = "write" /\ streaming' = streaming /\ m < Bytes /\ chip' = d
  BY DEF Write, At, Octet
<1>2. session \in Sessions /\ m \in Nat /\ m + 1 \in 0..Bytes
  <2>1. session \in Sessions
    BY DEF IInv, TypeOK, Sessions
  <2> QED BY <1>1, <2>1, BytesAssumption DEF Sessions
<1>3. /\ session' \in Sessions /\ session'.pc \in {"write", "end"} /\ session'.sent = m + 1
      /\ session'.disturbed = session.disturbed /\ session'.ready = session.ready
  <2> DEFINE l == IF m + 1 = Bytes THEN "end" ELSE "write"
             n == m + 1
  <2>1. l \in Places /\ l \in {"write", "end"} /\ n \in 0..Bytes
    BY <1>2 DEF Places
  <2>2. session' = [session EXCEPT !.pc = l, !.sent = n]
    BY <1>2 DEF Write, Sessions
  <2> HIDE DEF l, n
  <2>3. /\ session' \in Sessions /\ session'.pc = l /\ session'.sent = n
        /\ session'.disturbed = session.disturbed /\ session'.ready = session.ready
    BY <1>2, <2>1, <2>2 DEF Sessions
  <2> QED BY <2>1, <2>3 DEF n
<1>4. d \in Sane
  <2>1. Octet(m) \in Seq(Bits)
    BY <1>1, <1>2, OctetType
  <2> QED BY <2>1, ClocksType DEF IInv
<1>5. ASSUME ~ session.disturbed PROVE Streamed(d, 8 * (m + 1))
  <2>1. Streamed(chip, 8 * m)
    BY <1>1, <1>5 DEF IInv, PlaceInv
  <2> QED BY <1>1, <1>2, <2>1, WriteIs
<1> HIDE DEF d, m
<1>6. TypeOK'
  BY <1>1, <1>3, <1>4 DEF IInv, TypeOK, Sessions, Sane
<1>7. FlagInv'
  BY <1>1, <1>3 DEF IInv, FlagInv
<1>8. ~ session'.disturbed => Streamed(chip', 8 * session'.sent)
  BY <1>1, <1>3, <1>5
<1>9. ~ session'.disturbed => PlaceInv'
  BY <1>3, <1>8 DEF PlaceInv
<1>10. StreamingIsShifting'
  BY <1>8 DEF StreamingIsShifting, Streamed
<1>11. EndLeavesReset'
  BY <1>3 DEF EndLeavesReset
<1> QED BY <1>1, <1>4, <1>6, <1>7, <1>9, <1>10, <1>11 DEF IInv

LEMMA AbandonIInv == ASSUME IInv, Abandon PROVE IInv'
<1>1. session.pc = "write" /\ streaming' = streaming /\ chip' = chip /\ session \in Sessions
  BY DEF Abandon, At, IInv, TypeOK, Sessions
<1>2. /\ session' \in Sessions /\ session'.sent = session.sent /\ session'.caller = session.caller
      /\ session'.disturbed = session.disturbed /\ session'.ready = session.ready
      /\ session'.verdict = "abandoned"
      /\ session'.pc = IF session.caller = "serial" THEN "end" ELSE "closed"
  BY <1>1 DEF Abandon, Sessions, Places
<1>3. TypeOK'
  BY <1>1, <1>2 DEF IInv, TypeOK, Sessions
<1>4. FlagInv'
  BY <1>1, <1>2 DEF IInv, FlagInv
<1>5. ~ session'.disturbed => PlaceInv'
  BY <1>1, <1>2 DEF IInv, PlaceInv
<1>6. StreamingIsShifting' /\ EndLeavesReset'
  BY <1>1, <1>2 DEF IInv, StreamingIsShifting, EndLeavesReset
<1> QED BY <1>1, <1>3, <1>4, <1>5, <1>6 DEF IInv

LEMMA LeaveShiftIInv == ASSUME IInv, LeaveShift PROVE IInv'
<1> DEFINE x == IF streaming THEN ClockTms(chip, <<1, 1, 0>>) ELSE chip
           d == RunIdle(x)
           m == session.sent
<1>1. session.pc = "end" /\ streaming' = FALSE /\ chip' = d
  BY DEF LeaveShift, At
<1>2. /\ session' \in Sessions /\ session'.pc = "verify" /\ session'.sent = m
      /\ session'.disturbed = session.disturbed /\ session'.ready = session.ready
  BY GotoIs DEF LeaveShift, Places
<1>3. d \in Sane
  BY LeaveShiftType DEF IInv, TypeOK
<1>4. ASSUME ~ session.disturbed
      PROVE  /\ Idling(d) /\ d.mode = "on"
             /\ IsPrefix(Stream(m), d.taken) /\ Len(d.taken) <= 8 * m
  <2>1. Streamed(chip, 8 * m) /\ streaming /\ m \in Nat
    BY <1>1, <1>4 DEF IInv, PlaceInv, FlagInv, TypeOK
  <2>2. /\ Idling(x) /\ x.mode = "on"
        /\ \/ x.taken = Stream(m)
           \/ m # 0 /\ x.taken = Append(Stream(m), 0)
    BY <2>1, LeaveShiftIs
  <2> HIDE DEF x
  <2>3. d = x
    BY <2>2, RunIdleIs
  <2>4. IsPrefix(Stream(m), x.taken) /\ Len(x.taken) <= 8 * m
    BY <2>1, <2>2, StreamPrefix
  <2> QED BY <2>2, <2>3, <2>4
<1> HIDE DEF d, m
<1>5. TypeOK'
  BY <1>1, <1>2, <1>3 DEF TypeOK, Sessions, Sane
<1>6. FlagInv' /\ StreamingIsShifting'
  BY <1>1, <1>2 DEF IInv, FlagInv, StreamingIsShifting
<1>7. ~ session'.disturbed => PlaceInv'
  BY <1>1, <1>2, <1>4 DEF PlaceInv
<1>8. EndLeavesReset'
  BY <1>2 DEF EndLeavesReset
<1> QED BY <1>1, <1>3, <1>5, <1>6, <1>7, <1>8 DEF IInv


LEMMA VerifyIInv == ASSUME IInv, Verify PROVE IInv'
<1> DEFINE status == ReadReg32(chip, STATUS_REG)
           d == status.chip
           r == RunIdle(d)
<1>1. session.pc = "verify" /\ streaming' = streaming
  BY DEF Verify, At
<1>2. session \in Sessions
  BY DEF IInv, TypeOK, Sessions
<1>3. \/ chip' = d /\ \E v \in {"done", "crc"} : Conclude(v)
      \/ chip' = r /\ session' = session
  <2> HIDE DEF status
  <2>1. CASE DONE_FINAL \in status.ones
    BY <2>1 DEF Verify, status
  <2>2. CASE DONE_FINAL \notin status.ones /\ CRC_ERROR \in status.ones
    BY <2>2 DEF Verify, status
  <2>3. CASE DONE_FINAL \notin status.ones /\ CRC_ERROR \notin status.ones
    BY <2>3 DEF Verify, status
  <2> QED BY <2>1, <2>2, <2>3
<1>4. d \in Sane /\ r \in Sane
  <2>1. d \in Sane
    BY StatusType DEF IInv, Clocked
  <2> HIDE DEF d
  <2> QED BY <2>1, RunIdleType DEF Clocked
<1>5. ASSUME ~ session.disturbed
      PROVE  Idling(d) /\ d.mode = "on" /\ d.taken = chip.taken /\ r = d
  <2>1. Idling(chip) /\ chip.mode = "on"
    BY <1>1, <1>5 DEF IInv, PlaceInv
  <2>2. Idling(d) /\ d.mode = "on" /\ Alike(chip, d)
    BY <2>1, StatusIs
  <2> HIDE DEF d
  <2> QED BY <2>2, RunIdleIs DEF Alike
<1> HIDE DEF d, r
<1>6. /\ session' \in Sessions /\ session'.sent = session.sent
      /\ session'.disturbed = session.disturbed /\ session'.ready = session.ready
      /\ session'.pc \in {"verify", "finish"}
  BY <1>1, <1>2, <1>3 DEF Conclude, Sessions, Places
<1>7. chip' \in Sane /\ (~ session.disturbed => chip' = d)
  BY <1>3, <1>4, <1>5
<1>8. TypeOK'
  BY <1>1, <1>6, <1>7 DEF IInv, TypeOK, Sessions, Sane
<1>9. FlagInv' /\ StreamingIsShifting'
  BY <1>1, <1>6 DEF IInv, FlagInv, StreamingIsShifting
<1>10. ~ session'.disturbed => PlaceInv'
  BY <1>1, <1>5, <1>6, <1>7 DEF IInv, PlaceInv
<1>11. EndLeavesReset'
  BY <1>6 DEF EndLeavesReset
<1> QED BY <1>7, <1>8, <1>9, <1>10, <1>11 DEF IInv

LEMMA VerifyTimeoutIInv == ASSUME IInv, VerifyTimeout PROVE IInv'
<1>1. session.pc = "verify" /\ streaming' = streaming /\ chip' = chip /\ session \in Sessions
  BY DEF VerifyTimeout, At, IInv, TypeOK, Sessions
<1>2. /\ session' \in Sessions /\ session'.pc = "finish" /\ session'.sent = session.sent
      /\ session'.disturbed = session.disturbed /\ session'.ready = session.ready
  BY <1>1 DEF VerifyTimeout, Conclude, Sessions, Places
<1>3. TypeOK'
  BY <1>1, <1>2 DEF IInv, TypeOK, Sessions
<1>4. FlagInv' /\ StreamingIsShifting'
  BY <1>1, <1>2 DEF IInv, FlagInv, StreamingIsShifting
<1>5. ~ session'.disturbed => PlaceInv'
  BY <1>1, <1>2 DEF IInv, PlaceInv
<1>6. EndLeavesReset'
  BY <1>2 DEF EndLeavesReset
<1> QED BY <1>1, <1>3, <1>4, <1>5, <1>6 DEF IInv

LEMMA FinishIInv == ASSUME IInv, Finish PROVE IInv'
<1> DEFINE d == GotoReset(RunIdle(SendAll(chip, <<CONFIG_DISABLE, NOOP>>)))
<1>1. session.pc = "finish" /\ streaming' = streaming /\ chip' = d
  BY DEF Finish, At
<1>2. /\ session' \in Sessions /\ session'.pc = "closed" /\ session'.sent = session.sent
      /\ session'.disturbed = session.disturbed /\ session'.ready = session.ready
  BY GotoIs DEF Finish, Places
<1>3. d \in Sane /\ (Idling(chip) => d.tap = "Reset" /\ d.mode = "off")
  BY FinishIs DEF IInv, Clocked
<1> HIDE DEF d
<1>4. TypeOK'
  BY <1>1, <1>2, <1>3 DEF IInv, TypeOK, Sessions, Sane
<1>5. FlagInv' /\ StreamingIsShifting'
  BY <1>1, <1>2 DEF IInv, FlagInv, StreamingIsShifting
<1>6. PlaceInv'
  BY <1>2 DEF PlaceInv
<1>7. EndLeavesReset'
  BY <1>1, <1>2, <1>3 DEF IInv, PlaceInv, EndLeavesReset
<1> QED BY <1>1, <1>3, <1>4, <1>5, <1>6, <1>7 DEF IInv

LEMMA EraseEndsIInv == ASSUME IInv, EraseEnds PROVE IInv'
<1>1. /\ chip.sram = "erasing" /\ chip' = [chip EXCEPT !.sram = "erased"]
      /\ streaming' = streaming /\ session' = session
  BY DEF EraseEnds
<1>2. /\ chip' \in Sane /\ chip'.tap = chip.tap /\ chip'.ir = chip.ir /\ chip'.responds = chip.responds
      /\ chip'.mode = chip.mode /\ chip'.addr = chip.addr /\ chip'.taken = chip.taken
      /\ chip'.sram = "erased"
  BY <1>1 DEF IInv, Sane, Chips
<1>3. TypeOK' /\ FlagInv'
  BY <1>1, <1>2 DEF IInv, TypeOK, FlagInv, Sane
<1>4. StreamingIsShifting' /\ EndLeavesReset'
  BY <1>1, <1>2 DEF IInv, StreamingIsShifting, EndLeavesReset
<1>5. ~ session'.disturbed => PlaceInv'
  BY <1>1, <1>2 DEF IInv, PlaceInv, Idling, Streamed
<1> QED BY <1>2, <1>3, <1>4, <1>5 DEF IInv

LEMMA StartUpIInv == ASSUME IInv, StartUp PROVE IInv'
<1>1. /\ chip.tap = "Idle" /\ chip.sram = "erased" /\ chip.taken # <<>>
      /\ streaming' = streaming /\ session' = session
      /\ chip' = [chip EXCEPT !.sram = "running"] \/ chip' = [chip EXCEPT !.crc = TRUE]
  BY DEF StartUp
<1>2. /\ chip' \in Sane /\ chip'.tap = chip.tap /\ chip'.ir = chip.ir /\ chip'.responds = chip.responds
      /\ chip'.mode = chip.mode /\ chip'.addr = chip.addr /\ chip'.taken = chip.taken
      /\ chip'.sram \in {"running", "erased"}
  BY <1>1 DEF IInv, Sane, Chips
<1>3. TypeOK' /\ FlagInv'
  BY <1>1, <1>2 DEF IInv, TypeOK, FlagInv, Sane
<1>4. StreamingIsShifting' /\ EndLeavesReset'
  BY <1>1, <1>2 DEF IInv, StreamingIsShifting, EndLeavesReset
<1>5. ASSUME ~ session'.disturbed PROVE PlaceInv'
  <2>1. PlaceInv
    BY <1>1, <1>5 DEF IInv
  <2>2. session.pc \notin {"poll", "disable", "transfer"}
    BY <1>1, <2>1 DEF PlaceInv
  <2>3. session.pc \notin {"write", "end"}
    BY <1>1, <2>1 DEF PlaceInv, Streamed
  <2> QED BY <1>1, <1>2, <2>1, <2>2, <2>3 DEF PlaceInv, Idling
<1> QED BY <1>2, <1>3, <1>4, <1>5 DEF IInv

LEMMA IntrudeIInv == ASSUME IInv, Intrude PROVE IInv'
<1>1. /\ session \in Sessions /\ session' = [session EXCEPT !.disturbed = TRUE]
      /\ streaming' = streaming
  BY DEF Intrude, IInv, TypeOK, Sessions
<1>2. /\ session' \in Sessions /\ session'.pc = session.pc /\ session'.sent = session.sent
      /\ session'.ready = session.ready /\ session'.disturbed
  BY <1>1 DEF Sessions
<1>3. chip' \in Sane
  BY PulsedIs DEF Intrude
<1>4. TypeOK'
  BY <1>1, <1>2, <1>3 DEF IInv, TypeOK, Sessions, Sane
<1>5. FlagInv'
  BY <1>1, <1>2 DEF IInv, FlagInv
<1>6. StreamingIsShifting' /\ EndLeavesReset'
  BY <1>2 DEF StreamingIsShifting, EndLeavesReset
<1> QED BY <1>2, <1>3, <1>4, <1>5, <1>6 DEF IInv

LEMMA RestartIInv == ASSUME IInv, Restart PROVE IInv'
<1>1. /\ session \in Sessions /\ streaming' = FALSE /\ chip' = chip
      /\ session' = [session EXCEPT !.pc = "closed", !.verdict = "none", !.ready = FALSE]
  BY DEF Restart, IInv, TypeOK, Sessions
<1>2. session' \in Sessions /\ session'.pc = "closed" /\ session'.verdict = "none"
  BY <1>1 DEF Sessions, Places
<1>3. TypeOK'
  BY <1>1, <1>2 DEF IInv, TypeOK, Sessions
<1>4. FlagInv' /\ PlaceInv' /\ StreamingIsShifting' /\ EndLeavesReset'
  BY <1>1, <1>2 DEF FlagInv, PlaceInv, StreamingIsShifting, EndLeavesReset
<1> QED BY <1>1, <1>3, <1>4 DEF IInv

\* IInv holds before and after every step.
LEMMA NextIInv == IInv /\ [Next]_vars => IInv'
<1> SUFFICES ASSUME IInv, [Next]_vars PROVE IInv'
  OBVIOUS
<1>1. CASE Call
  BY <1>1, PulseIInv, IdentifyIInv, EnterConfigIInv, StartEraseIInv, PollEraseIInv, PollTimeoutIInv,
     LeaveConfigIInv, StartTransferIInv, LeaveShiftIInv, VerifyIInv, VerifyTimeoutIInv, FinishIInv DEF Call
<1>2. CASE Client
  BY <1>2, OpenIInv, WriteIInv, AbandonIInv DEF Client
<1>3. CASE EraseEnds \/ StartUp \/ Intrude \/ Restart
  BY <1>3, EraseEndsIInv, StartUpIInv, IntrudeIInv, RestartIInv
<1>4. CASE UNCHANGED vars
  BY <1>4, StutterIInv
<1> QED BY <1>1, <1>2, <1>3, <1>4 DEF Next

\* The inductive invariant holds of every reachable state: each call finds the TAP
\* where the one before it left it, unless another task has pulsed RECONFIG_N.
THEOREM Invariance == Spec => []IInv
<1>1. Init => IInv
  BY InitIInv
<1>2. IInv /\ [Next]_vars => IInv'
  BY NextIInv
<1> QED BY <1>1, <1>2, PTL DEF Spec

\* The flag, the session and the FPGA keep their types; attempts never exceed
\* MAX_JTAG_BEGIN_ATTEMPTS, and no more bytes are clocked than the bitstream has.
THEOREM TypeCorrect == Spec => []TypeOK
BY Invariance, IInvImplies, PTL

\* Whatever sessions were finished, failed, abandoned or cut off by a restart
\* before: the FPGA takes the bits that jtag_gowin_program_sram_write clocks, all
\* but the first, in their order, and no others before or among them.
THEOREM StreamIsIntact == Spec => []StreamIntact
BY Invariance, IInvImplies, PTL

\* g_streaming_dr does not outlive the state of the TAP that it stands for.
THEOREM StreamingMeansShifting == Spec => []StreamingIsShifting
BY Invariance, IInvImplies, PTL

\* Every session that comes to its end leaves the TAP in reset, and the
\* configuration mode off.
THEOREM EndIsReset == Spec => []EndLeavesReset
BY Invariance, IInvImplies, PTL

\* The flags the code acts on are those the FPGA had, and a GW2A is recognized
\* if and only if it listens, wherever its TAP was left.
THEOREM ReadingsTrue == Spec => ReadingsAreTrue
<1> DEFINE Faithful ==
      /\ Identify => (session'.pc = "enable" <=> chip.responds)
      /\ chip.responds /\ ~ session.disturbed =>
         /\ PollErase => (session'.pc = "disable" <=> chip.sram = "erased")
         /\ Verify /\ session.verdict = "none" =>
              session'.verdict = CASE chip.sram = "running"              -> "done"
                                   [] chip.sram # "running" /\ chip.crc -> "crc"
                                   [] OTHER                              -> "none"
<1>1. ASSUME IInv, [Next]_vars PROVE [Faithful]_vars
  <2>1. ASSUME Identify PROVE session'.pc = "enable" <=> chip.responds
    <3> DEFINE idcode == ReadIdcode(GotoIdle(chip))
               listens == Manufacturer(idcode.ones) = Manufacturer(IDCODE)
    <3>1. IF listens THEN session' = [session EXCEPT !.pc = "enable", !.disturbed = FALSE] ELSE Retry
      BY <2>1 DEF Identify
    <3>2. listens <=> chip.responds
      BY <1>1, IdcodeIs DEF IInv
    <3> HIDE DEF listens
    <3>3. listens => session'.pc = "enable"
      BY <1>1, <3>1 DEF IInv, TypeOK
    <3>4. ~ listens => session'.pc \in {"pulse", "closed"}
      BY <1>1, <3>1, RetryIs
    <3> QED BY <3>2, <3>3, <3>4
  <2> DEFINE status == ReadReg32(chip, STATUS_REG)
  <2>2. ASSUME PollErase, ~ session.disturbed
        PROVE  session'.pc = "disable" <=> chip.sram = "erased"
    <3>1. session.pc = "poll" /\ Idling(chip) /\ chip.mode = "on"
      BY <1>1, <2>2 DEF PollErase, At, IInv, PlaceInv
    <3>2. MEMORY_ERASE \in status.ones <=> chip.sram = "erased"
      BY <3>1, StatusIs
    <3>3. IF MEMORY_ERASE \in status.ones THEN Goto("disable") ELSE session' = session
      BY <2>2 DEF PollErase
    <3>4. Goto("disable") => session'.pc = "disable"
      BY <1>1, GotoIs DEF Places
    <3> QED BY <3>1, <3>2, <3>3, <3>4
  <2>3. ASSUME Verify, session.verdict = "none", ~ session.disturbed
        PROVE  session'.verdict = CASE chip.sram = "running"              -> "done"
                                    [] chip.sram # "running" /\ chip.crc -> "crc"
                                    [] OTHER                              -> "none"
    <3>1. session.pc = "verify" /\ Idling(chip) /\ chip.mode = "on" /\ session \in Sessions
      BY <1>1, <2>3 DEF Verify, At, IInv, PlaceInv, TypeOK, Sessions
    <3>2. /\ DONE_FINAL \in status.ones <=> chip.sram = "running"
          /\ CRC_ERROR \in status.ones <=> chip.crc
      BY <3>1, StatusIs
    <3> HIDE DEF status
    <3>3. ASSUME NEW v, Conclude(v) PROVE session'.verdict = v
      BY <2>3, <3>1, <3>3 DEF Conclude, Sessions
    <3>4. CASE chip.sram = "running"
      <4>1. Conclude("done")
        BY <2>3, <3>2, <3>4 DEF Verify, status
      <4> QED BY <3>3, <3>4, <4>1
    <3>5. CASE chip.sram # "running" /\ chip.crc
      <4>1. Conclude("crc")
        BY <2>3, <3>2, <3>5 DEF Verify, status
      <4> QED BY <3>3, <3>5, <4>1
    <3>6. CASE chip.sram # "running" /\ ~ chip.crc
      <4>1. session' = session
        BY <2>3, <3>2, <3>6 DEF Verify, status
      <4> QED BY <2>3, <3>6, <4>1
    <3> QED BY <3>4, <3>5, <3>6
  <2> QED BY <2>1, <2>2, <2>3
<1>2. IInv /\ [Next]_vars => [Faithful]_vars
  BY <1>1
<1> QED BY <1>2, Invariance, PTL DEF Spec, ReadingsAreTrue

===============================================================================
