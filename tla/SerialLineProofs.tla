--------------------------- MODULE SerialLineProofs ---------------------------
(***************************************************************************)
(* Proofs about SerialLine: which items are where, for payloads and        *)
(* buffers of any size and any number of commands.                         *)
(***************************************************************************)
EXTENDS SerialLine, SequenceTheorems, TLAPS

\* A transfer is under way; before, and after, lines are read.
InTransfer == device.pc \in {"begin", "drain", "start", "recv", "end"}

Final == {"ok", "error"}

\* A command is on its way.
Asking == device.pc = "line" /\ host.pc = "asked" /\ replies = <<>>

\* How far the host is and how far the device: answers say by how much they differ.
ProtocolInv ==
    /\ host.pc # "idle" => host.command # 0
    /\ device.pc = "ready" =>
         host.pc = "asked" /\ replies = <<>> /\ wire = <<>> /\ file = <<>>
    /\ InTransfer =>
         \/ host.pc = "asked" /\ replies = <<"ready">>
         \/ host.pc \in {"sending", "sent"} /\ replies = <<>>
    /\ device.pc # "line" => host.command = device.command
    /\ device.pc = "line" =>
         \/ host.pc \in {"idle", "asked"} /\ replies = <<>>
         \/ host.pc = "asked" /\ \E a \in Final : replies = <<a>> \/ replies = <<"ready", a>>
         \/ host.pc \in {"sending", "sent"} /\ \E a \in Final : replies = <<a>>

\* A command that has not been read is the last thing that was sent.
CommandInv ==
    /\ \A i \in 1..Len(wire) : wire[i].place = 0 =>
         Asking /\ i = Len(wire) /\ wire[i].command = host.command
    /\ \A i \in 1..Len(file) : file[i].place = 0 =>
         Asking /\ i = Len(file) /\ wire = <<>> /\ file[i].command = host.command

\* Items of the payload in transfer, as they were sent, in order; none of them is
\* beyond what the host has sent.
Own(s) ==
    /\ \A i \in 1..Len(s) :
         /\ s[i].command = host.command
         /\ s[i].place # 0
         /\ ~ s[i].changed
         /\ host.pc # "asked"
         /\ host.pc = "sending" => s[i].place < host.next
    /\ \A i, j \in 1..Len(s) : i < j => s[i].place < s[j].place

Before(s, t) == \A i \in 1..Len(s), j \in 1..Len(t) : s[i].place < t[j].place

\* Places rise by one at least.
Spaced(s) ==
    /\ \A i \in 1..Len(s) : i <= s[i].place
    /\ \A i, j \in 1..Len(s) : i <= j => s[i].place + (j - i) <= s[j].place

\* The four buffers in a transfer.  With the driver, what is left in file is not read.
BufferInv ==
    /\ driver => device.pc \in {"start", "recv", "end"}
    /\ ~ driver => ring = <<>>
    /\ \A i \in 1..Len(wire) : ~ wire[i].changed
    /\ InTransfer => Own(wire) /\ Own(file) /\ Before(file, wire)
    /\ device.pc = "begin" => file = <<>>
    /\ InTransfer /\ device.pc # "begin" =>
         /\ mode = "LF"
         /\ Own(got) /\ Own(prefix) /\ Own(ring)
         /\ Before(got, prefix) /\ Before(got, ring) /\ Before(got, wire)
         /\ ~ driver => Before(got, file)
         /\ Before(prefix, ring) /\ Before(prefix, file) /\ Before(prefix, wire)
         /\ Before(ring, wire)
         /\ Spaced(got)
    /\ device.pc = "drain" => got = <<>>
    /\ device.pc \in {"start", "recv"} => Len(got) < Size
    /\ device.pc = "end" /\ device.ok => Len(got) = Size

\* Once a command is lost, nothing is left over that could spoil another one.
LostInv ==
    lost # 0 =>
        /\ lost = 1
        /\ device.pc = "line" /\ ~ dirty
        /\ host.pc \in {"idle", "asked"} /\ replies = <<>>
        /\ \A i \in 1..Len(wire) : wire[i].place = 0
        /\ \A i \in 1..Len(file) : file[i].place = 0

IInv == TypeOK /\ ProtocolInv /\ CommandInv /\ BufferInv /\ LostInv

-----------------------------------------------------------------------------
(* Sequences of items. *)

LEMMA TailItems ==
    ASSUME NEW s \in Seq(Items), s # <<>>
    PROVE  /\ Len(s) \in Nat \ {0}
           /\ Head(s) \in Items /\ Head(s) = s[1]
           /\ Tail(s) \in Seq(Items) /\ Len(Tail(s)) = Len(s) - 1
           /\ \A i \in 1..Len(Tail(s)) : i + 1 \in 1..Len(s) /\ Tail(s)[i] = s[i + 1]
<1>1. Len(s) \in Nat \ {0}
  BY EmptySeq
<1>2. /\ Head(s) \in Items
      /\ Tail(s) \in Seq(Items)
      /\ Len(Tail(s)) = Len(s) - 1
      /\ \A i \in 1..Len(Tail(s)) : Tail(s)[i] = s[i + 1]
  BY HeadTailProperties
<1>3. Head(s) = s[1]
  BY <1>1
<1>4. \A i \in 1..Len(Tail(s)) : i + 1 \in 1..Len(s)
  BY <1>1, <1>2
<1> QED BY <1>1, <1>2, <1>3, <1>4

LEMMA AppendItems ==
    ASSUME NEW s \in Seq(Items), NEW e \in Items
    PROVE  /\ Len(s) \in Nat
           /\ Append(s, e) \in Seq(Items) /\ Len(Append(s, e)) = Len(s) + 1
           /\ Append(s, e) # <<>>
           /\ \A i \in 1..Len(s) : Append(s, e)[i] = s[i]
           /\ Append(s, e)[Len(s) + 1] = e
BY AppendProperties, LenProperties

LEMMA LenItems ==
    ASSUME NEW s \in Seq(Items)
    PROVE  /\ Len(s) \in Nat
           /\ s # <<>> <=> Len(s) # 0
           /\ \A i \in 1..Len(s) : s[i] \in Items
<1>1. Len(s) \in Nat /\ \A i \in 1..Len(s) : s[i] \in Items
  BY LenProperties, ElementOfSeq
<1>2. s # <<>> => Len(s) # 0
  BY EmptySeq
<1>3. s = <<>> => Len(s) = 0
  BY EmptySeq
<1> QED BY <1>1, <1>2, <1>3

LEMMA ConvertedItem ==
    ASSUME NEW item \in Items
    PROVE  /\ Converted(item) \in Items
           /\ Converted(item).command = item.command
           /\ Converted(item).place = item.place
           /\ mode = "LF" => Converted(item) = item
BY DEF Converted, Items

\* What is fetched, and what is not.
LEMMA FetchItems ==
    ASSUME TypeOK, NEW n \in 1..Len(wire),
           file' = [i \in 1..n |-> Converted(wire[i])],
           wire' = SubSeq(wire, n + 1, Len(wire))
    PROVE  /\ file' \in Seq(Items) /\ Len(file') = n
           /\ \A i \in 1..n :
                /\ i \in 1..Len(wire)
                /\ file'[i] \in Items
                /\ file'[i].command = wire[i].command /\ file'[i].place = wire[i].place
                /\ mode = "LF" => file'[i] = wire[i]
           /\ wire' \in Seq(Items) /\ Len(wire') = Len(wire) - n
           /\ \A i \in 1..Len(wire') : n + i \in 1..Len(wire) /\ wire'[i] = wire[n + i]
<1>1. wire \in Seq(Items)
  BY DEF TypeOK
<1>2. /\ Len(wire) \in Nat
      /\ \A i \in 1..Len(wire) : wire[i] \in Items
  BY <1>1, LenItems
<1>3. n \in Nat \ {0} /\ n <= Len(wire)
  BY <1>2
<1>4. \A i \in 1..n : /\ i \in 1..Len(wire)
                      /\ Converted(wire[i]) \in Items
                      /\ Converted(wire[i]).command = wire[i].command
                      /\ Converted(wire[i]).place = wire[i].place
                      /\ mode = "LF" => Converted(wire[i]) = wire[i]
  <2> TAKE i \in 1..n
  <2>1. i \in 1..Len(wire) /\ wire[i] \in Items
    BY <1>2, <1>3
  <2> QED BY <2>1, ConvertedItem
<1>5. file' \in [1..n -> Items]
  BY <1>4
<1>6. file' \in Seq(Items)
  BY <1>3, <1>5, SeqDef
<1>7. Len(file') = n
  <2>1. DOMAIN file' = 1..n /\ DOMAIN file' = 1..Len(file') /\ Len(file') \in Nat
    BY <1>5, <1>6, LenProperties
  <2> QED BY <1>3, <2>1
<1>8. /\ wire' \in Seq(Items)
      /\ Len(wire') = IF n + 1 <= Len(wire) THEN Len(wire) - (n + 1) + 1 ELSE 0
      /\ \A i \in 1..Len(wire) - (n + 1) + 1 : wire'[i] = wire[n + 1 + i - 1]
  <2>1. \A i \in n + 1..Len(wire) : wire[i] \in Items
    BY <1>2, <1>3
  <2>2. n + 1 \in Int /\ Len(wire) \in Int
    BY <1>2, <1>3
  <2> QED BY <2>1, <2>2, SubSeqProperties
<1>9. Len(wire') = Len(wire) - n
  BY <1>2, <1>3, <1>8
<1>10. \A i \in 1..Len(wire') : n + i \in 1..Len(wire) /\ wire'[i] = wire[n + i]
  BY <1>2, <1>3, <1>8, <1>9
<1> QED BY <1>4, <1>6, <1>7, <1>8, <1>9, <1>10

-----------------------------------------------------------------------------
(* The answers on their way. *)

Answers == {"ready", "ok", "error"}

LEMMA Answered ==
    ASSUME NEW a \in Answers
    PROVE  /\ <<>> \in Seq(Answers) /\ <<a>> \in Seq(Answers) /\ <<"ready", a>> \in Seq(Answers)
           /\ Append(<<>>, a) = <<a>> /\ Append(<<"ready">>, a) = <<"ready", a>>
           /\ Head(<<a>>) = a /\ Tail(<<a>>) = <<>>
           /\ Head(<<"ready", a>>) = "ready" /\ Tail(<<"ready", a>>) = <<a>>
           /\ <<a>> # <<>> /\ <<"ready", a>> # <<>>
<1>1. <<>> \in Seq(Answers) /\ <<a>> \in Seq(Answers) /\ <<"ready", a>> \in Seq(Answers)
  BY DEF Answers
<1>2. Append(<<>>, a) = <<a>>
  OBVIOUS
<1>3. Append(<<"ready">>, a) = <<"ready", a>>
  <2> DEFINE s == Append(<<"ready">>, a)
             t == <<"ready", a>>
  <2>1. <<"ready">> \in Seq(Answers) /\ Len(<<"ready">>) = 1
    BY DEF Answers
  <2>2. s \in Seq(Answers) /\ Len(s) = 2 /\ s[1] = "ready" /\ s[2] = a
    BY <2>1, AppendProperties
  <2>3. t \in Seq(Answers) /\ Len(t) = 2 /\ t[1] = "ready" /\ t[2] = a
    BY <1>1
  <2> HIDE DEF s, t
  <2>4. s = t
    BY <2>2, <2>3, SeqEqual
  <2> QED BY <2>4 DEF s, t
<1>4. Head(<<a>>) = a /\ Head(<<"ready", a>>) = "ready"
  OBVIOUS
<1>5. Tail(<<a>>) = <<>>
  OBVIOUS
<1>6. Tail(<<"ready", a>>) = <<a>>
  OBVIOUS
<1>7. <<a>> # <<>> /\ <<"ready", a>> # <<>>
  OBVIOUS
<1> QED BY <1>1, <1>2, <1>3, <1>4, <1>5, <1>6, <1>7

LEMMA NoItems == <<>> \in Seq(Items) /\ Len(<<>>) = 0
BY EmptySeq

LEMMA HostGivesUpStep == ASSUME IInv, HostGivesUp PROVE IInv'
<1>1. TypeOK'
  BY  DEF IInv, TypeOK, HostGivesUp, At, Goto, hostVars, bufferVars, modeVars
<1>2. ProtocolInv'
  BY  DEF IInv, ProtocolInv, HostGivesUp, At, Goto, hostVars, bufferVars, modeVars, InTransfer, Final, TypeOK
<1>3. CommandInv'
  BY DEF IInv, ProtocolInv, CommandInv, HostGivesUp, At, Goto, hostVars, bufferVars, modeVars, InTransfer, Asking, TypeOK
<1>4. BufferInv'
  BY  DEF IInv, ProtocolInv, BufferInv, HostGivesUp, At, Goto, hostVars, bufferVars, modeVars, InTransfer, Own, Before, Spaced, TypeOK
<1>5. LostInv'
  BY DEF IInv, LostInv, HostGivesUp, At, Goto, hostVars, bufferVars, modeVars
<1> QED BY <1>1, <1>2, <1>3, <1>4, <1>5 DEF IInv

LEMMA RefuseStep == ASSUME IInv, Refuse PROVE IInv'
<1>1. TypeOK'
  <2>1. replies = <<>> \/ replies = <<"ready">>
    BY DEF IInv, ProtocolInv, Refuse, At, InTransfer
  <2>2. replies' \in Seq(Answers)
    BY <2>1, Answered DEF Refuse, Answers
  <2>3. ring' \in Seq(Items)
    BY NoItems DEF IInv, TypeOK, Refuse, At, Goto, hostVars, bufferVars, modeVars
  <2> QED BY <2>2, <2>3 DEF IInv, TypeOK, Refuse, Answers, At, Goto, hostVars, bufferVars, modeVars
<1>2. ProtocolInv'
  BY  DEF IInv, ProtocolInv, Refuse, At, Goto, hostVars, bufferVars, modeVars, InTransfer, Final, TypeOK
<1>3. CommandInv'
  BY DEF IInv, ProtocolInv, CommandInv, Refuse, At, Goto, hostVars, bufferVars, modeVars, InTransfer, Asking, TypeOK
<1>4. BufferInv'
  BY  DEF IInv, ProtocolInv, BufferInv, Refuse, At, Goto, hostVars, bufferVars, modeVars, InTransfer, Own, Before, Spaced, TypeOK
<1>5. LostInv'
  BY DEF IInv, LostInv, Refuse, At, Goto, hostVars, bufferVars, modeVars
<1> QED BY <1>1, <1>2, <1>3, <1>4, <1>5 DEF IInv

LEMMA ReadyStep == ASSUME IInv, Ready PROVE IInv'
<1>1. TypeOK'
  <2>1. replies = <<>> \/ replies = <<"ready">>
    BY DEF IInv, ProtocolInv, Ready, At, InTransfer
  <2>2. replies' \in Seq(Answers)
    BY <2>1, Answered DEF Ready, Answers
  <2>3. ring' \in Seq(Items)
    BY NoItems DEF IInv, TypeOK, Ready, At, Goto, hostVars, bufferVars, modeVars
  <2> QED BY <2>2, <2>3 DEF IInv, TypeOK, Ready, Answers, At, Goto, hostVars, bufferVars, modeVars
<1>2. ProtocolInv'
  BY  DEF IInv, ProtocolInv, Ready, At, Goto, hostVars, bufferVars, modeVars, InTransfer, Final, TypeOK
<1>3. CommandInv'
  BY DEF IInv, ProtocolInv, CommandInv, Ready, At, Goto, hostVars, bufferVars, modeVars, InTransfer, Asking, TypeOK
<1>4. BufferInv'
  BY  DEF IInv, ProtocolInv, BufferInv, Ready, At, Goto, hostVars, bufferVars, modeVars, InTransfer, Own, Before, Spaced, TypeOK
<1>5. LostInv'
  BY DEF IInv, LostInv, Ready, At, Goto, hostVars, bufferVars, modeVars
<1> QED BY <1>1, <1>2, <1>3, <1>4, <1>5 DEF IInv

LEMMA BeginStep == ASSUME IInv, Begin PROVE IInv'
<1>1. TypeOK'
  <2>1. /\ prefix' \in Seq(Items) /\ Len(prefix') <= Room
        /\ got' \in Seq(Items) /\ Len(got') <= Size
    BY NoItems, RoomAssumption, SizeAssumption DEF Begin
  <2> QED BY <2>1 DEF IInv, TypeOK, Begin, At, Goto, hostVars, bufferVars, modeVars
<1>2. ProtocolInv'
  BY  DEF IInv, ProtocolInv, Begin, At, Goto, hostVars, bufferVars, modeVars, InTransfer, Final, TypeOK
<1>3. CommandInv'
  BY DEF IInv, ProtocolInv, CommandInv, Begin, At, Goto, hostVars, bufferVars, modeVars, InTransfer, Asking, TypeOK
<1>4. BufferInv'
  BY  DEF IInv, ProtocolInv, BufferInv, Begin, At, Goto, hostVars, bufferVars, modeVars, InTransfer, Own, Before, Spaced, TypeOK
<1>5. LostInv'
  BY DEF IInv, LostInv, Begin, At, Goto, hostVars, bufferVars, modeVars
<1> QED BY <1>1, <1>2, <1>3, <1>4, <1>5 DEF IInv

LEMMA InstallStep == ASSUME IInv, Install PROVE IInv'
<1>1. TypeOK'
  BY  DEF IInv, TypeOK, Install, At, Goto, hostVars, bufferVars, modeVars
<1>2. ProtocolInv'
  BY  DEF IInv, ProtocolInv, Install, At, Goto, hostVars, bufferVars, modeVars, InTransfer, Final, TypeOK
<1>3. CommandInv'
  BY DEF IInv, ProtocolInv, CommandInv, Install, At, Goto, hostVars, bufferVars, modeVars, InTransfer, Asking, TypeOK
<1>4. BufferInv'
  <2>1. InTransfer' /\ InTransfer /\ device'.pc = "start" /\ device.pc = "drain" /\ mode = "LF"
        /\ mode' = mode /\ got = <<>> /\ got' = got /\ ring = <<>> /\ ring' = ring
    BY DEF IInv, BufferInv, Install, At, Goto, hostVars, bufferVars, modeVars, InTransfer, TypeOK
  <2>2. Len(got) < Size
    BY <2>1, SizeAssumption
  <2>3. Before(got, file)
    BY <2>1 DEF Before
  <2> QED BY <2>1, <2>2, <2>3 DEF IInv, BufferInv, Install, At, Goto, hostVars, bufferVars, modeVars, InTransfer, Own, Before, Spaced, TypeOK
<1>5. LostInv'
  BY DEF IInv, LostInv, Install, At, Goto, hostVars, bufferVars, modeVars
<1> QED BY <1>1, <1>2, <1>3, <1>4, <1>5 DEF IInv

LEMMA StartStep == ASSUME IInv, Start PROVE IInv'
<1>1. TypeOK'
  BY  DEF IInv, TypeOK, Start, At, Goto, hostVars, bufferVars, modeVars
<1>2. ProtocolInv'
  BY  DEF IInv, ProtocolInv, Start, At, Goto, hostVars, bufferVars, modeVars, InTransfer, Final, TypeOK
<1>3. CommandInv'
  BY DEF IInv, ProtocolInv, CommandInv, Start, At, Goto, hostVars, bufferVars, modeVars, InTransfer, Asking, TypeOK
<1>4. BufferInv'
  BY  DEF IInv, ProtocolInv, BufferInv, Start, At, Goto, hostVars, bufferVars, modeVars, InTransfer, Own, Before, Spaced, TypeOK
<1>5. LostInv'
  BY DEF IInv, LostInv, Start, At, Goto, hostVars, bufferVars, modeVars
<1> QED BY <1>1, <1>2, <1>3, <1>4, <1>5 DEF IInv

LEMMA FailStep == ASSUME IInv, Fail PROVE IInv'
<1>1. TypeOK'
  BY  DEF IInv, TypeOK, Fail, At, Goto, hostVars, bufferVars, modeVars
<1>2. ProtocolInv'
  BY  DEF IInv, ProtocolInv, Fail, At, Goto, hostVars, bufferVars, modeVars, InTransfer, Final, TypeOK
<1>3. CommandInv'
  BY DEF IInv, ProtocolInv, CommandInv, Fail, At, Goto, hostVars, bufferVars, modeVars, InTransfer, Asking, TypeOK
<1>4. BufferInv'
  <2>1. /\ device'.pc = "end" /\ ~ device'.ok /\ InTransfer /\ InTransfer'
        /\ device.pc # "begin"
    BY DEF IInv, Fail, InTransfer, TypeOK
  <2> QED BY <2>1 DEF IInv, BufferInv, Fail, At, Goto, hostVars, bufferVars, modeVars, Own, Before, Spaced
<1>5. LostInv'
  BY DEF IInv, LostInv, Fail, At, Goto, hostVars, bufferVars, modeVars
<1> QED BY <1>1, <1>2, <1>3, <1>4, <1>5 DEF IInv

LEMMA StallStep == ASSUME IInv, Stall PROVE IInv'
<1>1. TypeOK'
  BY  DEF IInv, TypeOK, Stall, At, Goto, hostVars, bufferVars, modeVars
<1>2. ProtocolInv'
  BY  DEF IInv, ProtocolInv, Stall, At, Goto, hostVars, bufferVars, modeVars, InTransfer, Final, TypeOK
<1>3. CommandInv'
  BY DEF IInv, ProtocolInv, CommandInv, Stall, At, Goto, hostVars, bufferVars, modeVars, InTransfer, Asking, TypeOK
<1>4. BufferInv'
  BY  DEF IInv, ProtocolInv, BufferInv, Stall, At, Goto, hostVars, bufferVars, modeVars, InTransfer, Own, Before, Spaced, TypeOK
<1>5. LostInv'
  BY DEF IInv, LostInv, Stall, At, Goto, hostVars, bufferVars, modeVars
<1> QED BY <1>1, <1>2, <1>3, <1>4, <1>5 DEF IInv

LEMMA EndStep == ASSUME IInv, End PROVE IInv'
<1>1. TypeOK'
  <2>1. replies = <<>> \/ replies = <<"ready">>
    BY DEF IInv, ProtocolInv, End, At, InTransfer
  <2>2. replies' \in Seq(Answers)
    BY <2>1, Answered DEF End, Answers
  <2>3. ring' \in Seq(Items)
    BY NoItems DEF IInv, TypeOK, End, At, Goto, hostVars, bufferVars, modeVars
  <2> QED BY <2>2, <2>3 DEF IInv, TypeOK, End, Answers, At, Goto, hostVars, bufferVars, modeVars
<1>2. ProtocolInv'
  <2> DEFINE a == IF device.ok THEN "ok" ELSE "error"
  <2>1. a \in Final /\ a \in Answers /\ device'.pc = "line" /\ UNCHANGED host
    BY DEF IInv, TypeOK, End, Goto, Final, Answers
  <2>2. CASE host.pc = "asked" /\ replies = <<"ready">>
    <3>1. replies' = <<"ready", a>>
      BY <2>1, <2>2, Answered DEF End
    <3> QED BY <2>1, <2>2, <3>1 DEF IInv, ProtocolInv, InTransfer
  <2>3. CASE host.pc \in {"sending", "sent"} /\ replies = <<>>
    <3>1. replies' = <<a>>
      BY <2>1, <2>3, Answered DEF End
    <3> QED BY <2>1, <2>3, <3>1 DEF IInv, ProtocolInv, InTransfer
  <2> QED BY <2>2, <2>3 DEF IInv, ProtocolInv, End, At, InTransfer
<1>3. CommandInv'
  BY DEF IInv, ProtocolInv, CommandInv, End, At, Goto, hostVars, bufferVars, modeVars, InTransfer, Asking, TypeOK
<1>4. BufferInv'
  BY  DEF IInv, ProtocolInv, BufferInv, End, At, Goto, hostVars, bufferVars, modeVars, InTransfer, Own, Before, Spaced, TypeOK
<1>5. LostInv'
  BY DEF IInv, LostInv, End, At, Goto, hostVars, bufferVars, modeVars
<1> QED BY <1>1, <1>2, <1>3, <1>4, <1>5 DEF IInv

-----------------------------------------------------------------------------
(* The host. *)

\* Which answer the host reads.
LEMMA AnswerRead ==
    ASSUME IInv, HostRead
    PROVE  /\ host.pc \in {"asked", "sending", "sent"}
           /\ \/ replies = <<"ready">> /\ host.pc = "asked" /\ InTransfer
                 /\ Head(replies) = "ready" /\ replies' = <<>>
              \/ \E a \in Final : /\ replies = <<"ready", a>> /\ host.pc = "asked" /\ device.pc = "line"
                                /\ Head(replies) = "ready" /\ replies' = <<a>>
              \/ \E a \in Final : /\ replies = <<a>> /\ device.pc = "line"
                                /\ Head(replies) # "ready" /\ replies' = <<>>
<1>1. device.pc \in {"line", "ready"} \/ InTransfer
  BY DEF IInv, TypeOK, InTransfer
<1>2. "ready" \in Answers /\ (\A a \in Final : a \in Answers /\ a # "ready")
  BY DEF Answers, Final
<1>3. CASE replies = <<"ready">> /\ host.pc = "asked" /\ InTransfer
  BY <1>2, <1>3, Answered DEF HostRead
<1>4. ASSUME NEW a \in Final, replies = <<"ready", a>>, host.pc = "asked", device.pc = "line"
      PROVE  Head(replies) = "ready" /\ replies' = <<a>>
  BY <1>2, <1>4, Answered DEF HostRead
<1>5. ASSUME NEW a \in Final, replies = <<a>>, device.pc = "line"
      PROVE  Head(replies) # "ready" /\ replies' = <<>>
  BY <1>2, <1>5, Answered DEF HostRead
<1> QED BY <1>1, <1>3, <1>4, <1>5 DEF IInv, ProtocolInv, HostRead


LEMMA HostReadStep == ASSUME IInv, HostRead PROVE IInv'
<1>1. TypeOK'
  <2>1. replies' \in Seq(Answers)
    BY AnswerRead, Answered DEF Answers, Final
  <2>2. 1 \in 1..Size
    BY SizeAssumption
  <2>3. host' \in [pc : {"idle", "asked", "sending", "sent"}, command : 0..Commands, next : 1..Size]
    BY <2>2 DEF IInv, TypeOK, HostRead
  <2> QED BY <2>1, <2>3 DEF IInv, TypeOK, HostRead, Answers, bufferVars, modeVars
<1>2. ProtocolInv'
  <2> USE DEF HostRead, bufferVars, modeVars
  <2>1. CASE replies = <<"ready">> /\ host.pc = "asked" /\ InTransfer
             /\ Head(replies) = "ready" /\ replies' = <<>>
    BY <2>1 DEF IInv, TypeOK, ProtocolInv, InTransfer
  <2>2. ASSUME NEW a \in Final, host.pc = "asked", device.pc = "line",
               Head(replies) = "ready", replies' = <<a>>
        PROVE  ProtocolInv'
    BY <2>2 DEF IInv, TypeOK, ProtocolInv, InTransfer
  <2>3. CASE device.pc = "line" /\ Head(replies) # "ready" /\ replies' = <<>>
    BY <2>3 DEF IInv, TypeOK, ProtocolInv, InTransfer
  <2> QED BY <2>1, <2>2, <2>3, AnswerRead
<1>3. CommandInv'
  BY DEF IInv, CommandInv, HostRead, Asking, bufferVars
<1>4. BufferInv'
  <2>1. CASE ~ InTransfer
    BY <2>1 DEF IInv, BufferInv, HostRead, bufferVars, modeVars, InTransfer
  <2>2. CASE InTransfer
    <3>1. host.pc = "asked" /\ host' = [host EXCEPT !.pc = "sending", !.next = 1]
      BY <2>2, AnswerRead DEF HostRead, InTransfer
    <3>2. host'.command = host.command /\ host'.pc # "asked"
      BY <3>1 DEF IInv, TypeOK
    <3> QED BY <2>2, <3>1, <3>2 DEF IInv, BufferInv, HostRead, bufferVars, modeVars, InTransfer, Own, Before, Spaced
  <2> QED BY <2>1, <2>2
<1>5. LostInv'
  BY DEF IInv, LostInv, HostRead, At, Goto, hostVars, bufferVars, modeVars
<1> QED BY <1>1, <1>2, <1>3, <1>4, <1>5 DEF IInv

LEMMA Placed ==
    ASSUME NEW s \in Seq(Items)
    PROVE  \A i \in 1..Len(s) : s[i].place \in Nat /\ s[i].command \in Nat
<1>1. \A i \in 1..Len(s) : s[i] \in Items
  BY LenItems
<1> QED BY <1>1, SizeAssumption, CommandsAssumption DEF Items

LEMMA CommandAppended ==
    ASSUME IInv, HostCommand
    PROVE  /\ device.pc = "line" /\ device'.pc = "line" /\ host'.pc = "asked"
           /\ replies = <<>> /\ replies' = <<>>
           /\ host'.command = host.command + 1 /\ host'.command \in 1..Commands
           /\ host' \in [pc : {"idle", "asked", "sending", "sent"}, command : 0..Commands, next : 1..Size]
           /\ Len(wire) \in Nat /\ wire' \in Seq(Items) /\ Len(wire') = Len(wire) + 1
           /\ \A i \in 1..Len(wire) : wire'[i] = wire[i] /\ wire[i].place # 0
           /\ wire'[Len(wire) + 1] = Item(host'.command, 0)
           /\ \A i \in 1..Len(file) : file[i].place # 0
<1>1. /\ host' \in [pc : {"idle", "asked", "sending", "sent"}, command : 0..Commands, next : 1..Size]
      /\ host'.pc = "asked" /\ host'.command = host.command + 1 /\ host'.command \in 1..Commands
  <2>1. host.command \in Nat /\ host.command < Commands /\ Commands \in Nat
    BY CommandsAssumption DEF IInv, TypeOK, HostCommand
  <2>2. host.command + 1 \in 1..Commands
    BY <2>1
  <2>3. /\ host' = [host EXCEPT !.pc = "asked", !.command = host.command + 1]
        /\ host \in [pc : {"idle", "asked", "sending", "sent"}, command : 0..Commands, next : 1..Size]
        /\ host.command + 1 \in 0..Commands
    BY <2>1 DEF IInv, TypeOK, HostCommand
  <2> QED BY <2>2, <2>3
<1>2. Item(host'.command, 0) \in Items
  BY <1>1, SizeAssumption DEF Item, Items
<1>3. wire \in Seq(Items) /\ wire' = Append(wire, Item(host'.command, 0))
  BY <1>1 DEF IInv, TypeOK, HostCommand
<1>4. device.pc = "line" /\ replies = <<>>
  BY DEF IInv, TypeOK, ProtocolInv, HostCommand, InTransfer
<1>5. /\ \A i \in 1..Len(wire) : wire[i].place # 0
      /\ \A i \in 1..Len(file) : file[i].place # 0
  BY DEF IInv, CommandInv, HostCommand, Asking
<1> QED BY <1>1, <1>2, <1>3, <1>4, <1>5, AppendItems DEF HostCommand

LEMMA HostCommandStep == ASSUME IInv, HostCommand PROVE IInv'
<1>1. TypeOK'
  BY CommandAppended DEF HostCommand, bufferVars, modeVars, IInv, TypeOK
<1>2. ProtocolInv'
  BY CommandAppended DEF HostCommand, bufferVars, modeVars, IInv, ProtocolInv, InTransfer
<1>3. CommandInv'
  BY CommandAppended DEF HostCommand, bufferVars, modeVars, IInv, CommandInv, Asking, Item
<1>4. BufferInv'
  BY CommandAppended DEF HostCommand, bufferVars, modeVars, IInv, BufferInv, InTransfer, Item
<1>5. LostInv'
  BY CommandAppended DEF HostCommand, bufferVars, modeVars, IInv, LostInv, Item
<1> QED BY <1>1, <1>2, <1>3, <1>4, <1>5 DEF IInv

LEMMA PayloadAppended ==
    ASSUME IInv, HostSend
    PROVE  /\ host.pc = "sending" /\ host'.pc \in {"sending", "sent"}
           /\ host'.command = host.command
           /\ host.next \in 1..Size /\ (host'.pc = "sending" => host'.next = host.next + 1)
           /\ host' \in [pc : {"idle", "asked", "sending", "sent"}, command : 0..Commands, next : 1..Size]
           /\ Len(wire) \in Nat /\ wire' \in Seq(Items) /\ Len(wire') = Len(wire) + 1
           /\ \A i \in 1..Len(wire) : wire'[i] = wire[i]
           /\ wire'[Len(wire) + 1] = Item(host.command, host.next)
<1>1. /\ host.next \in 1..Size /\ host.command \in 1..Commands
  BY CommandsAssumption DEF IInv, TypeOK, ProtocolInv, HostSend
<1>2. /\ host' \in [pc : {"idle", "asked", "sending", "sent"}, command : 0..Commands, next : 1..Size]
      /\ host'.pc \in {"sending", "sent"} /\ host'.command = host.command
      /\ host'.pc = "sending" => host'.next = host.next + 1
  <2>1. CASE host.next = Size
    BY <2>1 DEF IInv, TypeOK, HostSend
  <2>2. CASE host.next # Size
    <3>1. host.next + 1 \in 1..Size
      BY <1>1, <2>2, SizeAssumption
    <3> QED BY <2>2, <3>1 DEF IInv, TypeOK, HostSend
  <2> QED BY <2>1, <2>2
<1>3. Item(host.command, host.next) \in Items
  BY <1>1, SizeAssumption DEF Item, Items
<1>4. wire \in Seq(Items) /\ wire' = Append(wire, Item(host.command, host.next))
  BY DEF IInv, TypeOK, HostSend
<1> QED BY <1>1, <1>2, <1>3, <1>4, AppendItems DEF HostSend

LEMMA HostSendStep == ASSUME IInv, HostSend PROVE IInv'
<1>1. TypeOK'
  BY PayloadAppended DEF HostSend, bufferVars, modeVars, IInv, TypeOK
<1>2. ProtocolInv'
  BY PayloadAppended DEF HostSend, bufferVars, modeVars, IInv, ProtocolInv, InTransfer
<1>3. CommandInv'
  BY PayloadAppended DEF HostSend, bufferVars, modeVars, IInv, CommandInv, Asking, Item
<1>4. BufferInv'
  <2> USE PayloadAppended DEF HostSend, bufferVars, modeVars
  <2>1. CASE ~ InTransfer
    BY <2>1 DEF IInv, BufferInv, InTransfer, Item
  <2>2. CASE InTransfer
    <3>1. /\ \A i \in 1..Len(file) : file[i].place \in Nat
          /\ \A i \in 1..Len(wire) : wire[i].place \in Nat
          /\ \A i \in 1..Len(prefix) : prefix[i].place \in Nat
          /\ \A i \in 1..Len(ring) : ring[i].place \in Nat
          /\ \A i \in 1..Len(got) : got[i].place \in Nat
      BY Placed DEF IInv, TypeOK
    <3>2. Own(wire)' /\ Own(file)' /\ Before(file, wire)'
      BY <2>2, <3>1 DEF IInv, BufferInv, Item, Own, Before
    <3>3. CASE device.pc = "begin"
      BY <2>2, <3>2, <3>3 DEF IInv, BufferInv, InTransfer, Item
    <3>4. CASE device.pc # "begin"
      <4>1. Own(got)' /\ Own(prefix)' /\ Own(ring)'
        BY <2>2, <3>1, <3>4 DEF IInv, BufferInv, Own
      <4>2. Before(got, wire)' /\ Before(prefix, wire)' /\ Before(ring, wire)'
        BY <2>2, <3>1, <3>4 DEF IInv, BufferInv, Item, Own, Before
      <4> QED BY <2>2, <3>2, <3>4, <4>1, <4>2 DEF IInv, BufferInv, InTransfer, Item, Before, Spaced
    <3> QED BY <3>3, <3>4
  <2> QED BY <2>1, <2>2
<1>5. LostInv'
  BY PayloadAppended DEF HostSend, bufferVars, modeVars, IInv, LostInv, Item
<1> QED BY <1>1, <1>2, <1>3, <1>4, <1>5 DEF IInv

-----------------------------------------------------------------------------
(* The buffers. *)

LEMMA FetchStep ==
    ASSUME IInv, Fetch, device.pc \in {"line", "drain", "recv"}
    PROVE  IInv'
<1>1. PICK n \in 1..Len(wire) :
        /\ n <= Burst
        /\ file' = [i \in 1..n |-> Converted(wire[i])]
        /\ wire' = SubSeq(wire, n + 1, Len(wire))
  BY DEF Fetch
<1> USE DEF Fetch, hostVars, modeVars
<1>2. /\ Len(wire) \in Nat /\ n \in Nat
      /\ file' \in Seq(Items) /\ Len(file') = n
      /\ \A i \in 1..n :
           /\ i \in 1..Len(wire)
           /\ file'[i].command = wire[i].command /\ file'[i].place = wire[i].place
           /\ mode = "LF" => file'[i] = wire[i]
      /\ wire' \in Seq(Items) /\ Len(wire') = Len(wire) - n
      /\ \A i \in 1..Len(wire') : n + i \in 1..Len(wire) /\ wire'[i] = wire[n + i]
  <2>1. TypeOK /\ Len(wire) \in Nat
    BY LenItems DEF IInv, TypeOK
  <2>2. n \in Nat
    BY <2>1
  <2>3. /\ file' = [i \in 1..n |-> Converted(wire[i])]
        /\ wire' = SubSeq(wire, n + 1, Len(wire))
    BY <1>1
  <2>4. /\ file' \in Seq(Items) /\ Len(file') = n
        /\ \A i \in 1..n :
             /\ i \in 1..Len(wire)
             /\ file'[i] \in Items
             /\ file'[i].command = wire[i].command /\ file'[i].place = wire[i].place
             /\ mode = "LF" => file'[i] = wire[i]
        /\ wire' \in Seq(Items) /\ Len(wire') = Len(wire) - n
        /\ \A i \in 1..Len(wire') : n + i \in 1..Len(wire) /\ wire'[i] = wire[n + i]
    BY <2>1, <2>3, FetchItems
  <2> QED BY <2>1, <2>2, <2>4
<1>3. TypeOK'
  BY <1>1, <1>2 DEF IInv, TypeOK
<1>4. ProtocolInv'
  <2>1. device.pc # "ready"
    OBVIOUS
  <2> QED BY <2>1 DEF IInv, ProtocolInv, InTransfer
<1>5. CommandInv'
  <2>1. Asking' <=> Asking
    BY DEF Asking
  <2>2. \A i \in 1..Len(wire') : wire'[i].place = 0 =>
          Asking /\ i = Len(wire') /\ wire'[i].command = host.command
    BY <1>2 DEF IInv, CommandInv
  <2>3. ASSUME NEW i \in 1..Len(file'), file'[i].place = 0
        PROVE  Asking /\ i = Len(file') /\ wire' = <<>> /\ file'[i].command = host.command
    <3>1. Asking /\ i = Len(wire) /\ wire[i].command = host.command
      BY <1>2, <2>3 DEF IInv, CommandInv
    <3>2. n = Len(wire) /\ Len(wire') = 0
      BY <1>2, <3>1
    <3> QED BY <1>2, <3>1, <3>2, LenItems
  <2> QED BY <2>1, <2>2, <2>3 DEF CommandInv
<1>6. BufferInv'
  <2>1. \A i \in 1..Len(wire') : ~ wire'[i].changed
    BY <1>2 DEF IInv, BufferInv
  <2>2. CASE device.pc = "line"
    BY <2>1, <2>2 DEF IInv, BufferInv, InTransfer
  <2>3. CASE device.pc \in {"drain", "recv"}
    <3>1. mode = "LF" /\ Own(wire)
      BY <2>3 DEF IInv, BufferInv, InTransfer
    <3>2. \A i \in 1..Len(wire) : wire[i].place \in Nat
      BY Placed DEF IInv, TypeOK
    <3>3. Own(wire)' /\ Own(file)' /\ Before(file, wire)'
      <4>1. Own(wire)'
        BY <1>2, <3>1, <3>2 DEF Own
      <4>2. Own(file)'
        BY <1>2, <3>1, <3>2 DEF Own
      <4>3. Before(file, wire)'
        <5> SUFFICES ASSUME NEW i \in 1..Len(file'), NEW j \in 1..Len(wire')
                     PROVE  file'[i].place < wire'[j].place
          BY DEF Before
        <5>1. Len(file') = n /\ n \in Nat /\ Len(wire') = Len(wire) - n /\ Len(wire) \in Nat
          BY <1>2
        <5>2. i \in 1..n /\ j \in Nat /\ i < n + j
          BY <5>1
        <5>3. file'[i].place = wire[i].place /\ i \in 1..Len(wire)
          BY <1>2, <5>2
        <5>4. wire'[j] = wire[n + j] /\ n + j \in 1..Len(wire)
          BY <1>2
        <5> QED BY <3>1, <5>2, <5>3, <5>4 DEF Own
      <4> QED BY <4>1, <4>2, <4>3
    <3>4. Before(got, file)' /\ Before(prefix, file)'
      BY <1>2, <2>3 DEF IInv, BufferInv, InTransfer, Before
    <3>5. Before(got, wire)' /\ Before(prefix, wire)' /\ Before(ring, wire)'
      BY <1>2, <2>3 DEF IInv, BufferInv, InTransfer, Before
    <3>6. /\ Own(got)' /\ Own(prefix)' /\ Own(ring)' /\ Spaced(got)'
          /\ Before(got, prefix)' /\ Before(got, ring)' /\ Before(prefix, ring)'
      BY <2>3 DEF IInv, BufferInv, InTransfer, Own, Before, Spaced
    <3> QED BY <2>1, <2>3, <3>3, <3>4, <3>5, <3>6 DEF IInv, BufferInv, InTransfer
  <2> QED BY <2>2, <2>3
<1>7. LostInv'
  <2> SUFFICES ASSUME lost # 0 PROVE LostInv'
    BY DEF LostInv
  <2>1. \A i \in 1..Len(wire) : wire[i].place = 0
    BY DEF IInv, LostInv
  <2>2. \A i \in 1..Len(wire') : wire'[i].place = 0
    BY <1>2, <2>1
  <2>3. \A i \in 1..Len(file') : file'[i].place = 0
    BY <1>2, <2>1
  <2> QED BY <2>2, <2>3 DEF IInv, LostInv
<1> QED BY <1>3, <1>4, <1>5, <1>6, <1>7 DEF IInv

LEMMA ReadLineStep == ASSUME IInv, ReadLine PROVE IInv'
<1> DEFINE item == Head(file)
<1> USE DEF ReadLine, At, hostVars, modeVars
<1>1. /\ Len(file) \in Nat \ {0}
      /\ item \in Items /\ item = file[1]
      /\ file' \in Seq(Items) /\ Len(file') = Len(file) - 1
      /\ \A i \in 1..Len(file') : i + 1 \in 1..Len(file) /\ file'[i] = file[i + 1]
  BY TailItems DEF IInv, TypeOK
<1>2. ASSUME item.place = 0
      PROVE  /\ Asking /\ file' = <<>> /\ wire = <<>> /\ Len(file) = 1
             /\ item.command = host.command /\ host.command # 0 /\ Commands # 0
  <2>1. Asking /\ 1 = Len(file) /\ wire = <<>> /\ item.command = host.command
    BY <1>1, <1>2 DEF IInv, CommandInv
  <2>2. file' = <<>>
    BY <1>1, <2>1, LenItems
  <2>3. item.command \in 1..Commands
    BY <1>1 DEF Items
  <2> QED BY <2>1, <2>2, <2>3, CommandsAssumption
<1>3. lost' \in {0, 1, lost} /\ (lost' = 1 => lost = 1 \/ Commands # 0)
  <2>1. CASE item.place = 0
    <3>1. dirty => lost = 0
      BY DEF IInv, LostInv
    <3> QED BY <1>2, <2>1, <3>1
  <2>2. CASE item.place # 0
    BY <2>2
  <2> QED BY <2>1, <2>2
<1>4. TypeOK'
  <2>1. lost' \in 0..Commands
    BY <1>3, CommandsAssumption DEF IInv, TypeOK
  <2>2. device' \in [pc : {"line", "ready", "begin", "drain", "start", "recv", "end"},
                    command : 0..Commands, ok : BOOLEAN]
    <3>1. item.command \in 0..Commands
      BY <1>1, CommandsAssumption DEF Items
    <3> QED BY <3>1 DEF IInv, TypeOK
  <2>3. dirty' \in BOOLEAN
    <3>1. dirty' = FALSE \/ dirty' = (item.place \notin Newlines \cup {p \in Returns : item.changed})
      OBVIOUS
    <3> QED BY <3>1
  <2>4. Len(file') <= Burst
    <3>1. Len(file) <= Burst
      BY DEF IInv, TypeOK
    <3> QED BY <1>1, <3>1, RoomAssumption
  <2> QED BY <1>1, <2>1, <2>2, <2>3, <2>4 DEF IInv, TypeOK
<1>5. CASE device' = device
  <2>1. ProtocolInv'
    BY <1>5 DEF IInv, ProtocolInv, InTransfer
  <2>2. CommandInv'
    BY <1>1, <1>5 DEF IInv, CommandInv, Asking
  <2>3. BufferInv'
    BY <1>5 DEF IInv, BufferInv, InTransfer
  <2>4. LostInv'
    <3>1. CASE item.place = 0
      <4>1. dirty => lost = 0
        BY DEF IInv, LostInv
      <4>2. lost' # 0 => lost' = 1 /\ ~ dirty'
        BY <3>1, <4>1
      <4>3. Len(wire') = 0 /\ Len(file') = 0
        BY <1>2, <3>1, LenItems, NoItems
      <4> QED BY <1>2, <1>5, <3>1, <4>2, <4>3 DEF LostInv, Asking
    <3>2. CASE item.place # 0
      <4>1. lost = 0
        BY <1>1, <3>2 DEF IInv, LostInv
      <4> QED BY <3>2, <4>1 DEF LostInv
    <3> QED BY <3>1, <3>2
  <2> QED BY <1>4, <2>1, <2>2, <2>3, <2>4 DEF IInv
<1>6. CASE item.place = 0 /\ ~ dirty
  <2>1. /\ device'.pc = "ready" /\ device'.command = host.command /\ lost' = 0
        /\ file' = <<>> /\ wire' = <<>> /\ Len(file') = 0 /\ Len(wire') = 0
        /\ host.pc = "asked" /\ replies = <<>>
    BY <1>2, <1>6, NoItems DEF IInv, TypeOK, Asking
  <2>2. ProtocolInv'
    BY <1>2, <1>6, <2>1 DEF ProtocolInv, InTransfer
  <2>3. CommandInv'
    BY <2>1 DEF CommandInv
  <2>4. BufferInv'
    BY <2>1 DEF IInv, BufferInv, InTransfer
  <2>5. LostInv'
    BY <2>1 DEF LostInv
  <2> QED BY <1>4, <2>2, <2>3, <2>4, <2>5 DEF IInv
<1> QED BY <1>5, <1>6

\* The first item of from goes to the end of to: what this does to order.
LEMMA MoveHead ==
    ASSUME NEW from \in Seq(Items), NEW to \in Seq(Items), from # <<>>,
           Own(from), Own(to), Before(to, from)
    PROVE  /\ Append(to, Head(from)) \in Seq(Items) /\ Tail(from) \in Seq(Items)
           /\ Len(Append(to, Head(from))) = Len(to) + 1
           /\ Len(Tail(from)) = Len(from) - 1
           /\ Own(Append(to, Head(from))) /\ Own(Tail(from))
           /\ Before(Append(to, Head(from)), Tail(from))
           /\ Spaced(to) => Spaced(Append(to, Head(from)))
           /\ \A s \in Seq(Items) :
                /\ Before(s, from) => Before(s, Tail(from))
                /\ Before(from, s) => Before(Tail(from), s)
                /\ Before(s, to) /\ Before(s, from) => Before(s, Append(to, Head(from)))
                /\ Before(to, s) /\ Before(from, s) => Before(Append(to, Head(from)), s)
<1> DEFINE e == Head(from)
           t == Append(to, e)
           f == Tail(from)
<1>1. /\ Len(from) \in Nat \ {0}
      /\ e \in Items /\ e = from[1]
      /\ f \in Seq(Items) /\ Len(f) = Len(from) - 1
      /\ \A i \in 1..Len(f) : i + 1 \in 1..Len(from) /\ f[i] = from[i + 1]
  BY TailItems
<1>2. /\ Len(to) \in Nat
      /\ t \in Seq(Items) /\ Len(t) = Len(to) + 1
      /\ \A i \in 1..Len(to) : t[i] = to[i]
      /\ t[Len(to) + 1] = e
  BY <1>1, AppendItems
<1>3. /\ \A i \in 1..Len(from) : from[i].place \in Nat
      /\ \A i \in 1..Len(to) : to[i].place \in Nat
  BY Placed
<1>4. 1 \in 1..Len(from) /\ e.place \in Nat
  BY <1>1, <1>3
<1> HIDE DEF e, t, f
<1>5. Own(t)
  <2>1. \A i \in 1..Len(t) : \/ i \in 1..Len(to) /\ t[i] = to[i]
                             \/ i = Len(to) + 1 /\ t[i] = from[1]
    BY <1>1, <1>2
  <2>2. ASSUME NEW i \in 1..Len(t), NEW j \in 1..Len(t), i < j
        PROVE  t[i].place < t[j].place
    <3>1. i \in 1..Len(to) /\ t[i] = to[i]
      BY <1>2, <2>2
    <3> QED BY <1>4, <2>1, <2>2, <3>1 DEF Own, Before
  <2>3. ASSUME NEW i \in 1..Len(t)
        PROVE  /\ t[i].command = host.command /\ t[i].place # 0 /\ ~ t[i].changed
               /\ host.pc # "asked" /\ (host.pc = "sending" => t[i].place < host.next)
    BY <1>4, <2>1 DEF Own
  <2> QED BY <2>2, <2>3 DEF Own
<1>6. Own(f)
  <2>1. ASSUME NEW i \in 1..Len(f), NEW j \in 1..Len(f), i < j
        PROVE  f[i].place < f[j].place
    <3>1. i + 1 < j + 1 /\ i + 1 \in 1..Len(from) /\ j + 1 \in 1..Len(from)
      BY <1>1, <2>1
    <3>2. from[i + 1].place < from[j + 1].place
      BY <3>1 DEF Own
    <3> QED BY <1>1, <3>2
  <2>2. ASSUME NEW i \in 1..Len(f)
        PROVE  /\ f[i].command = host.command /\ f[i].place # 0 /\ ~ f[i].changed
               /\ host.pc # "asked" /\ (host.pc = "sending" => f[i].place < host.next)
    BY <1>1 DEF Own
  <2> QED BY <2>1, <2>2 DEF Own
<1>7. Before(t, f)
  <2> SUFFICES ASSUME NEW i \in 1..Len(t), NEW j \in 1..Len(f)
               PROVE  t[i].place < f[j].place
    BY DEF Before
  <2>1. f[j] = from[j + 1] /\ j + 1 \in 1..Len(from) /\ 1 < j + 1
    BY <1>1
  <2>2. e.place < f[j].place
    BY <1>1, <1>4, <2>1 DEF Own
  <2>3. CASE i \in 1..Len(to)
    BY <1>2, <2>1, <2>3 DEF Before
  <2>4. CASE i = Len(to) + 1
    BY <1>2, <2>2, <2>4
  <2> QED BY <1>2, <2>3, <2>4
<1>8. Spaced(to) => Spaced(t)
  <2> SUFFICES ASSUME Spaced(to) PROVE Spaced(t)
    OBVIOUS
  <2>1. e.place # 0 /\ \A i \in 1..Len(to) : to[i].place < e.place
    BY <1>1, <1>4 DEF Own, Before
  <2>2. ASSUME NEW i \in 1..Len(to)
        PROVE  i <= to[i].place /\ to[i].place + (Len(to) + 1 - i) <= e.place
    <3>1. Len(to) \in 1..Len(to) /\ i \in Nat /\ i <= Len(to)
      BY <1>2
    <3>2. i <= to[i].place /\ to[i].place + (Len(to) - i) <= to[Len(to)].place
      BY <3>1 DEF Spaced
    <3>3. /\ to[i].place \in Nat /\ to[Len(to)].place \in Nat
          /\ to[Len(to)].place < e.place
      BY <1>3, <2>1, <3>1
    <3>4. to[i].place + (Len(to) - i) + 1 <= e.place
      <4>1. to[Len(to)].place + 1 <= e.place
        BY <1>4, <3>3
      <4> QED BY <1>2, <1>4, <3>1, <3>2, <3>3, <4>1
    <3> QED BY <1>2, <1>4, <3>1, <3>2, <3>3, <3>4
  <2>3. Len(to) + 1 <= e.place
    <3>1. CASE Len(to) = 0
      BY <1>4, <2>1, <3>1
    <3>2. CASE Len(to) # 0
      <4>1. Len(to) \in 1..Len(to)
        BY <1>2, <3>2
      <4> QED BY <1>2, <1>3, <1>4, <2>2, <4>1
    <3> QED BY <3>1, <3>2
  <2>4. \A i \in 1..Len(t) : \/ i \in 1..Len(to) /\ t[i] = to[i]
                             \/ i = Len(to) + 1 /\ t[i] = e
    BY <1>2
  <2>5. \A i \in 1..Len(t) : i <= t[i].place
    BY <1>2, <2>2, <2>3, <2>4
  <2>6. ASSUME NEW i \in 1..Len(t), NEW j \in 1..Len(t), i <= j
        PROVE  t[i].place + (j - i) <= t[j].place
    <3>1. CASE i \in 1..Len(to) /\ j \in 1..Len(to)
      BY <2>4, <2>6, <3>1, <1>2 DEF Spaced
    <3>2. CASE i \in 1..Len(to) /\ j = Len(to) + 1
      BY <1>2, <2>2, <3>2
    <3>3. CASE i = Len(to) + 1 /\ j = Len(to) + 1
      BY <1>2, <1>4, <3>3
    <3> QED BY <1>2, <2>6, <3>1, <3>2, <3>3
  <2> QED BY <2>5, <2>6 DEF Spaced
<1>9. \A i \in 1..Len(t) : \/ i \in 1..Len(to) /\ t[i] = to[i]
                           \/ 1 \in 1..Len(from) /\ t[i] = from[1]
  BY <1>1, <1>2, <1>4
<1>10. ASSUME NEW s \in Seq(Items)
      PROVE  /\ Before(s, from) => Before(s, f)
             /\ Before(from, s) => Before(f, s)
             /\ Before(s, to) /\ Before(s, from) => Before(s, t)
             /\ Before(to, s) /\ Before(from, s) => Before(t, s)
  <2>1. Before(s, from) => Before(s, f)
    BY <1>1 DEF Before
  <2>2. Before(from, s) => Before(f, s)
    BY <1>1 DEF Before
  <2>3. Before(s, to) /\ Before(s, from) => Before(s, t)
    BY <1>9 DEF Before
  <2>4. Before(to, s) /\ Before(from, s) => Before(t, s)
    BY <1>9 DEF Before
  <2> QED BY <2>1, <2>2, <2>3, <2>4
<1> QED BY <1>1, <1>2, <1>5, <1>6, <1>7, <1>8, <1>10 DEF e, t, f

LEMMA DrainStep == ASSUME IInv, Drain PROVE IInv'
<1> USE DEF Drain, At, hostVars, modeVars
<1>1. /\ InTransfer /\ device.pc = "drain" /\ mode = "LF" /\ ~ driver
      /\ ring = <<>> /\ got = <<>> /\ lost = 0
  BY DEF IInv, TypeOK, BufferInv, LostInv, InTransfer
<1>2. /\ file \in Seq(Items) /\ prefix \in Seq(Items) /\ wire \in Seq(Items)
      /\ Own(file) /\ Own(prefix) /\ Own(wire)
      /\ Before(prefix, file) /\ Before(file, wire) /\ Before(prefix, wire)
  BY <1>1 DEF IInv, TypeOK, BufferInv
<1>3. /\ prefix' \in Seq(Items) /\ file' \in Seq(Items)
      /\ Len(prefix') = Len(prefix) + 1 /\ Len(file') = Len(file) - 1
      /\ Own(prefix') /\ Own(file')
      /\ Before(prefix', file') /\ Before(prefix', wire) /\ Before(file', wire)
  BY <1>2, MoveHead
<1>4. TypeOK'
  <2>1. Len(prefix) \in Nat /\ Len(file) \in Nat
    BY <1>2, LenItems
  <2>2. Len(prefix') <= Room /\ Len(file') <= Burst
    BY <1>3, <2>1, RoomAssumption DEF IInv, TypeOK
  <2> QED BY <1>3, <2>2 DEF IInv, TypeOK
<1>5. ProtocolInv'
  BY <1>1 DEF IInv, ProtocolInv, InTransfer
<1>6. CommandInv'
  BY <1>1, <1>2, <1>3 DEF CommandInv, Own
<1>7. BufferInv'
  <2>1. Len(got) = 0 /\ Len(ring) = 0
    BY <1>1, NoItems
  <2> QED BY <1>1, <1>2, <1>3, <2>1 DEF IInv, BufferInv, InTransfer, Own, Before, Spaced
<1>8. LostInv'
  BY <1>1 DEF LostInv
<1> QED BY <1>4, <1>5, <1>6, <1>7, <1>8 DEF IInv

LEMMA InterruptStep == ASSUME IInv, Interrupt PROVE IInv'
<1> USE DEF Interrupt, hostVars, modeVars
<1>1. /\ InTransfer /\ device.pc \in {"start", "recv", "end"} /\ lost = 0
  BY DEF IInv, BufferInv, LostInv, InTransfer
<1>2. /\ wire \in Seq(Items) /\ ring \in Seq(Items) /\ prefix \in Seq(Items)
      /\ got \in Seq(Items) /\ file \in Seq(Items)
      /\ Own(wire) /\ Own(ring)
      /\ Before(ring, wire) /\ Before(prefix, wire) /\ Before(prefix, ring)
      /\ Before(got, ring) /\ Before(got, wire) /\ Before(file, wire)
  BY <1>1 DEF IInv, TypeOK, BufferInv
<1>3. /\ ring' \in Seq(Items) /\ wire' \in Seq(Items)
      /\ Own(ring') /\ Own(wire')
      /\ Before(ring', wire') /\ Before(prefix, wire') /\ Before(prefix, ring')
      /\ Before(got, ring') /\ Before(got, wire') /\ Before(file, wire')
  BY <1>2, MoveHead
<1>4. TypeOK'
  BY <1>3 DEF IInv, TypeOK
<1>5. ProtocolInv'
  BY <1>1 DEF IInv, ProtocolInv, InTransfer
<1>6. CommandInv'
  BY <1>1, <1>3 DEF IInv, CommandInv, Own, Asking
<1>7. BufferInv'
  <2>1. driver /\ device' = device
    BY DEF IInv, TypeOK
  <2>2. /\ Own(ring)' /\ Own(wire)' /\ Before(ring, wire)' /\ Before(prefix, wire)'
        /\ Before(prefix, ring)' /\ Before(got, ring)' /\ Before(got, wire)' /\ Before(file, wire)'
    BY <1>3 DEF Own, Before
  <2>3. /\ Own(file)' /\ Own(got)' /\ Own(prefix)' /\ Before(got, prefix)' /\ Before(prefix, file)'
        /\ Spaced(got)'
    BY <1>1 DEF IInv, BufferInv, Own, Before, Spaced
  <2>4. \A i \in 1..Len(wire') : ~ wire'[i].changed
    BY <1>3 DEF Own
  <2> QED BY <1>1, <2>1, <2>2, <2>3, <2>4 DEF IInv, BufferInv, InTransfer
<1>8. LostInv'
  BY <1>1 DEF LostInv
<1> QED BY <1>4, <1>5, <1>6, <1>7, <1>8 DEF IInv

\* Whichever buffer the transfer reads from.
LEMMA ReceiveStep ==
    ASSUME IInv, At("recv"), NEW item \in Items, Receive(item),
           got' \in Seq(Items), prefix' \in Seq(Items), ring' \in Seq(Items), file' \in Seq(Items),
           Len(got') = Len(got) + 1, Len(prefix') <= Room, Len(file') <= Burst,
           Own(got'), Own(prefix'), Own(ring'), Own(file'), Spaced(got'),
           Before(got', prefix'), Before(got', ring'), Before(got', wire),
           ~ driver => Before(got', file') /\ ring' = <<>>,
           Before(prefix', ring'), Before(prefix', file'), Before(prefix', wire),
           Before(ring', wire), Before(file', wire)
    PROVE  IInv'
<1> USE DEF At, Receive, hostVars, modeVars
<1>1. /\ InTransfer /\ lost = 0 /\ lost' = 0 /\ mode = "LF" /\ Own(wire)
      /\ Len(got) \in Nat /\ Len(got) < Size
  BY LenItems DEF IInv, TypeOK, BufferInv, LostInv, InTransfer
<1>2. /\ InTransfer' /\ device'.command = device.command
      /\ \/ device'.pc = "recv" /\ Len(got') < Size
         \/ device'.pc = "end" /\ Len(got') = Size
  BY <1>1, SizeAssumption DEF IInv, TypeOK, InTransfer
<1>3. TypeOK'
  <2>1. device' \in [pc : {"line", "ready", "begin", "drain", "start", "recv", "end"},
                    command : 0..Commands, ok : BOOLEAN]
    BY DEF IInv, TypeOK
  <2>2. Len(got') <= Size
    BY <1>1, SizeAssumption
  <2> QED BY <2>1, <2>2 DEF IInv, TypeOK
<1>4. ProtocolInv'
  BY <1>1, <1>2 DEF IInv, ProtocolInv, InTransfer
<1>5. CommandInv'
  BY <1>1 DEF CommandInv, Own
<1>6. BufferInv'
  <2>1. /\ Own(got)' /\ Own(prefix)' /\ Own(ring)' /\ Own(file)' /\ Own(wire)' /\ Spaced(got)'
    BY <1>1 DEF Own, Spaced
  <2>2. /\ Before(got, prefix)' /\ Before(got, ring)' /\ Before(got, wire)'
        /\ (~ driver => Before(got, file)')
        /\ Before(prefix, ring)' /\ Before(prefix, file)' /\ Before(prefix, wire)'
        /\ Before(ring, wire)' /\ Before(file, wire)'
    BY DEF Before
  <2> QED BY <1>1, <1>2, <2>1, <2>2 DEF IInv, BufferInv, InTransfer
<1>7. LostInv'
  BY <1>1 DEF LostInv
<1> QED BY <1>3, <1>4, <1>5, <1>6, <1>7 DEF IInv

LEMMA ReadRawStep == ASSUME IInv, ReadRaw PROVE IInv'
<1> USE DEF At
<1>1. /\ device.pc = "recv" /\ InTransfer
      /\ got \in Seq(Items) /\ prefix \in Seq(Items) /\ ring \in Seq(Items)
      /\ file \in Seq(Items) /\ wire \in Seq(Items)
      /\ Own(got) /\ Own(prefix) /\ Own(ring) /\ Own(file) /\ Spaced(got)
      /\ Len(prefix) <= Room /\ Len(file) <= Burst
  BY DEF IInv, TypeOK, BufferInv, InTransfer, ReadRaw
<1>2. /\ Before(got, prefix) /\ Before(got, ring) /\ Before(got, wire)
      /\ (~ driver => Before(got, file) /\ ring = <<>>)
      /\ Before(prefix, ring) /\ Before(prefix, file) /\ Before(prefix, wire)
      /\ Before(ring, wire) /\ Before(file, wire)
  BY <1>1 DEF IInv, BufferInv, InTransfer
<1>3. Len(prefix) \in Nat /\ Len(file) \in Nat
  BY <1>1, LenItems
<1>4. \A s : Before(<<>>, s) /\ Before(s, <<>>)
  BY NoItems DEF Before
<1>5. CASE /\ prefix # <<>>
           /\ Receive(Head(prefix)) /\ prefix' = Tail(prefix) /\ UNCHANGED <<file, ring>>
  <2>1. got' = Append(got, Head(prefix)) /\ Head(prefix) \in Items
    BY <1>1, <1>5, TailItems DEF Receive
  <2>2. /\ got' \in Seq(Items) /\ prefix' \in Seq(Items)
        /\ Len(got') = Len(got) + 1 /\ Len(prefix') = Len(prefix) - 1
        /\ Own(got') /\ Own(prefix') /\ Spaced(got')
        /\ Before(got', prefix') /\ Before(got', ring) /\ Before(got', wire)
        /\ (~ driver => Before(got', file))
        /\ Before(prefix', ring) /\ Before(prefix', file) /\ Before(prefix', wire)
    BY <1>1, <1>2, <1>5, <2>1, MoveHead
  <2>3. Len(prefix') <= Room
    BY <1>1, <1>3, <2>2, RoomAssumption
  <2> QED BY <1>1, <1>2, <1>5, <2>1, <2>2, <2>3, ReceiveStep
<1>6. CASE /\ prefix = <<>> /\ driver /\ ring # <<>>
           /\ Receive(Head(ring)) /\ ring' = Tail(ring) /\ UNCHANGED <<file, prefix>>
  <2>1. got' = Append(got, Head(ring)) /\ Head(ring) \in Items
    BY <1>1, <1>6, TailItems DEF Receive
  <2>2. /\ got' \in Seq(Items) /\ ring' \in Seq(Items)
        /\ Len(got') = Len(got) + 1
        /\ Own(got') /\ Own(ring') /\ Spaced(got')
        /\ Before(got', ring') /\ Before(got', wire) /\ Before(ring', wire)
    BY <1>1, <1>2, <1>6, <2>1, MoveHead
  <2>3. /\ Before(got', prefix') /\ Before(prefix', ring') /\ Before(prefix', file')
        /\ Before(prefix', wire)
    BY <1>4, <1>6
  <2> QED BY <1>1, <1>2, <1>6, <2>1, <2>2, <2>3, ReceiveStep
<1>7. CASE /\ prefix = <<>> /\ ~ driver /\ file # <<>>
           /\ Receive(Head(file)) /\ file' = Tail(file) /\ UNCHANGED <<prefix, ring>>
  <2>1. got' = Append(got, Head(file)) /\ Head(file) \in Items
    BY <1>1, <1>7, TailItems DEF Receive
  <2>2. /\ got' \in Seq(Items) /\ file' \in Seq(Items)
        /\ Len(got') = Len(got) + 1 /\ Len(file') = Len(file) - 1
        /\ Own(got') /\ Own(file') /\ Spaced(got')
        /\ Before(got', file') /\ Before(got', wire) /\ Before(file', wire)
    BY <1>1, <1>2, <1>7, <2>1, MoveHead
  <2>3. ring = <<>>
    BY <1>2, <1>7
  <2>4. /\ Before(got', prefix') /\ Before(got', ring') /\ Before(prefix', ring')
        /\ Before(prefix', file') /\ Before(prefix', wire)
    BY <1>4, <1>7, <2>3
  <2>5. Len(file') <= Burst
    BY <1>1, <1>3, <2>2, RoomAssumption
  <2> QED BY <1>1, <1>2, <1>7, <2>1, <2>2, <2>3, <2>4, <2>5, ReceiveStep
<1> QED BY <1>5, <1>6, <1>7 DEF ReadRaw

-----------------------------------------------------------------------------
(* All of it. *)

LEMMA InitIInv == Init => IInv
<1> SUFFICES ASSUME Init PROVE IInv
  OBVIOUS
<1> USE DEF Init
<1>1. TypeOK
  <2>1. /\ \A items \in {wire, file, prefix, ring, got} : items \in Seq(Items)
        /\ Len(prefix) <= Room /\ Len(file) <= Burst /\ Len(got) <= Size
    BY NoItems, SizeAssumption, RoomAssumption
  <2>2. replies \in Seq({"ready", "ok", "error"})
    OBVIOUS
  <2>3. 0 \in 0..Commands /\ 1 \in 1..Size
    BY SizeAssumption, CommandsAssumption
  <2> QED BY <2>1, <2>2, <2>3 DEF TypeOK
<1>2. ProtocolInv /\ LostInv
  BY DEF ProtocolInv, LostInv, InTransfer
<1>3. CommandInv /\ BufferInv
  BY NoItems DEF CommandInv, BufferInv, InTransfer
<1> QED BY <1>1, <1>2, <1>3 DEF IInv

LEMMA NextIInv == ASSUME IInv, [Next]_vars PROVE IInv'
<1>1. CASE Device
  BY <1>1, FetchStep, ReadLineStep, ReadyStep, BeginStep, DrainStep, InstallStep, StartStep,
     ReadRawStep, StallStep, EndStep
     DEF Device, FetchForLine, FetchForDrain, FetchForRaw, At
<1>2. CASE Host
  BY <1>2, HostCommandStep, HostSendStep, HostReadStep, HostGivesUpStep DEF Host
<1>3. CASE Refuse \/ Fail \/ Interrupt
  BY <1>3, RefuseStep, FailStep, InterruptStep
<1>4. CASE UNCHANGED vars
  BY <1>4 DEF vars, IInv, TypeOK, ProtocolInv, CommandInv, BufferInv, LostInv, InTransfer, Asking,
              Own, Before, Spaced
<1> QED BY <1>1, <1>2, <1>3, <1>4 DEF Next

LEMMA InvAlways == Spec => []IInv
BY InitIInv, NextIInv, PTL DEF Spec

\* The buffers keep to their sizes, for any payload and any number of commands.
THEOREM TypeCorrect == Spec => []TypeOK
<1>1. IInv => TypeOK
  BY DEF IInv
<1> QED BY <1>1, InvAlways, PTL

LEMMA OwnIsRight == IInv => PayloadIsOwn
<1> SUFFICES ASSUME IInv, device.pc \in {"recv", "end"} PROVE PayloadIsOwn
  BY DEF PayloadIsOwn
<1>1. /\ Own(got) /\ Spaced(got) /\ host.command = device.command
      /\ got \in Seq(Items)
  BY DEF IInv, TypeOK, ProtocolInv, BufferInv, InTransfer
<1>2. ASSUME At("end"), device.ok
      PROVE  got = Payload(device.command)
  <2>1. Len(got) = Size /\ Size \in Nat
    BY <1>2, SizeAssumption DEF IInv, BufferInv, At
  <2>2. ASSUME NEW p \in 1..Size
        PROVE  got[p] = Item(device.command, p)
    <3>1. /\ got[p] \in Items /\ got[Size] \in Items
          /\ p \in Nat /\ Size \in 1..Size /\ p <= Size
      BY <1>1, <2>1, LenItems
    <3>2. /\ p <= got[p].place /\ got[p].place + (Size - p) <= got[Size].place
          /\ got[Size].place \in 0..Size /\ got[p].place \in 0..Size
      BY <1>1, <2>1, <3>1 DEF Spaced, Items
    <3>3. got[p].place = p
      BY <2>1, <3>1, <3>2
    <3>4. got[p].command = device.command /\ got[p].changed = FALSE
      BY <1>1, <2>1, <3>1 DEF Own, Items
    <3> QED BY <3>1, <3>3, <3>4 DEF Items, Item
  <2>3. got \in [1..Size -> Items]
    BY <1>1, <2>1, LenProperties
  <2> QED BY <2>2, <2>3 DEF Payload
<1> QED BY <1>1, <1>2 DEF PayloadIsOwn, Own, At

\* A transfer receives its own payload, in order and as it was sent, and all of it when
\* it ends well: for any payload, any sizes of s_prefix_buf and stdio's buffer, and
\* whatever earlier transfers left behind (io_begin, read_raw_bytes, io_end).
THEOREM TransfersAreOwn == Spec => []PayloadIsOwn
BY OwnIsRight, InvAlways, PTL

\* Whatever an aborted transfer leaves on the line, never two commands in a row are
\* lost to it (read_line and serial_console_task).
THEOREM LineRecovers == Spec => []OneCommandLost
<1>1. IInv => OneCommandLost
  BY DEF IInv, LostInv, OneCommandLost, TypeOK
<1> QED BY <1>1, InvAlways, PTL
===============================================================================
