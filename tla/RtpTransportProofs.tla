------------------------- MODULE RtpTransportProofs -------------------------
(***************************************************************************)
(* That whatever a network loses, duplicates, reorders or brings in, no    *)
(* NALU is delivered whose start is missing; that without such faults the  *)
(* buffer of the receiver holds no more than one NALU, and the ends are a  *)
(* queue of NALUs; and that with losses and restarts only, bytes are       *)
(* delivered in the order of sending: for packets, NALUs and behaviours of *)
(* any length.                                                             *)
(***************************************************************************)
EXTENDS RtpTransport, SequenceTheorems, FiniteSetTheorems, TLAPS

\* What may be in flight, given what has been sent.
Datagrams ==
  Foreign
  \cup {Single(n, packed[n]) : n \in {m \in DOMAIN packed : packed[m] <= FragmentSize}}
  \cup {Fragment(q[1], packed[q[1]], q[2]) :
          q \in {m \in DOMAIN packed : packed[m] > FragmentSize} \X Nat}

\* The bytes of a NALU up to the end of its first packet.
FirstPart(n) ==
  Bytes(n, 0, Least(packed[n] - 1, IF packed[n] <= FragmentSize THEN packed[n] ELSE FragmentSize))

\* Bytes that start with the first packet of a NALU and have no second header.
Started(n) ==
  {b \in Seq(AnyByte) :
     /\ Len(FirstPart(n)) <= Len(b)
     /\ \A k \in 1..Len(FirstPart(n)) : b[k] = <<n, k - 1>>
     /\ \A k \in 2..Len(b) : b[k][2] # 0}
AnyStarted == UNION {Started(n) : n \in DOMAIN packed}

\* Only a NALU longer than a packet is sent in fragments.
FragmentsLong == fragment # -1 => packed # <<>> /\ Last(packed) > FragmentSize

RtpInv ==
  /\ TypeOK
  /\ FragmentsLong
  /\ net \in Seq(Datagrams)
  /\ assembly = <<>> \/ assembly \in AnyStarted
  /\ delivered \in Seq(AnyStarted)
-----------------------------------------------------------------------------
(* Bytes and lengths.                                                      *)

LEMMA BytesProperties ==
  ASSUME NEW n \in 0..MaxNalus, NEW first \in Nat, NEW last \in Int
  PROVE  /\ Bytes(n, first, last) \in Seq(AnyByte)
         /\ last - first + 1 >= 0 => Len(Bytes(n, first, last)) = last - first + 1
         /\ DOMAIN Bytes(n, first, last) = 1..(last - first + 1)
         /\ \A k \in 1..(last - first + 1) :
              Bytes(n, first, last)[k] = <<n, first + k - 1>>
<1>1. ASSUME NEW k \in 1..(last - first + 1) PROVE <<n, first + k - 1>> \in AnyByte
  BY <1>1, RtpAssumption DEF AnyByte
<1>2. CASE last - first + 1 >= 0
  BY <1>1, <1>2 DEF Bytes
<1>3. CASE last - first + 1 < 0
  <2>1. 1..(last - first + 1) = 1..0
    BY <1>3
  <2>2. Bytes(n, first, last) = [k \in 1..0 |-> <<n, first + k - 1>>]
    BY <2>1 DEF Bytes
  <2>3. [k \in 1..0 |-> <<n, first + k - 1>>] \in Seq(AnyByte)
    OBVIOUS
  <2> QED
    BY <2>1, <2>2, <2>3, <1>3 DEF Bytes
<1> QED
  BY <1>2, <1>3

\* A NALU longer than a packet has a fragment at least.
LEMMA CountProperties ==
  ASSUME NEW len \in Nat \ {0}
  PROVE  /\ Count(len) \in Nat
         /\ len > FragmentSize => Count(len) >= 1
<1>1. FragmentSize \in Nat \ {0}
  BY RtpAssumption
<1>2. len - 1 + FragmentSize - 1 \in Nat
  BY <1>1
<1>3. ASSUME NEW a \in Nat PROVE a \div FragmentSize \in Nat
  BY <1>1
<1>4. ASSUME NEW a \in Nat, a >= FragmentSize PROVE a \div FragmentSize >= 1
  BY <1>1, <1>4
<1> QED
  BY <1>1, <1>2, <1>3, <1>4 DEF Count

LEMMA LeastProperties ==
  ASSUME NEW a \in Int, NEW b \in Int
  PROVE  Least(a, b) \in Int /\ Least(a, b) <= a /\ Least(a, b) <= b
                             /\ Least(a, b) \in {a, b}
BY DEF Least
-----------------------------------------------------------------------------
(* Packets, and what can be made of them.                                  *)

LEMMA NumbersSent ==
  ASSUME TypeOK, NEW n \in DOMAIN packed
  PROVE  n \in 1..MaxNalus /\ n \in 0..MaxNalus /\ packed[n] \in Nat \ {0}
<1>1. packed \in Seq(Lengths) /\ Len(packed) <= MaxNalus
  BY DEF TypeOK
<1>2. n \in 1..Len(packed) /\ packed[n] \in Lengths /\ Len(packed) \in Nat
  BY <1>1
<1>3. MaxNalus \in Nat /\ Lengths \subseteq Nat \ {0}
  BY RtpAssumption
<1>4. n \in 1..MaxNalus /\ n \in 0..MaxNalus
  <2>1. Len(packed) <= MaxNalus
    BY <1>1
  <2> QED
    BY <1>2, <1>3, <2>1
<1>5. packed[n] \in Nat \ {0}
  BY <1>2, <1>3, Zenon
<1> QED
  BY <1>4, <1>5

LEMMA FirstPartProperties ==
  ASSUME TypeOK, NEW n \in DOMAIN packed
  PROVE  /\ FirstPart(n) \in Seq(AnyByte)
         /\ Len(FirstPart(n)) = IF packed[n] <= FragmentSize THEN packed[n] ELSE FragmentSize + 1
         /\ \A k \in 1..Len(FirstPart(n)) : FirstPart(n)[k] = <<n, k - 1>>
<1> DEFINE last == Least(packed[n] - 1,
                         IF packed[n] <= FragmentSize THEN packed[n] ELSE FragmentSize)
<1>1. packed[n] \in Nat \ {0} /\ FragmentSize \in Nat \ {0} /\ n \in 0..MaxNalus
  BY NumbersSent, RtpAssumption
<1>2. last = IF packed[n] <= FragmentSize THEN packed[n] - 1 ELSE FragmentSize
  BY <1>1 DEF Least
<1>3. last \in Nat /\ last - 0 + 1 >= 0
  BY <1>1, <1>2
<1> HIDE DEF last
<1>4. /\ Bytes(n, 0, last) \in Seq(AnyByte)
      /\ Len(Bytes(n, 0, last)) = last - 0 + 1
      /\ \A k \in 1..(last - 0 + 1) : Bytes(n, 0, last)[k] = <<n, 0 + k - 1>>
  <2>1. 0 \in Nat /\ last \in Int
    BY <1>3
  <2> QED
    BY <1>1, <1>3, <2>1, BytesProperties, Zenon
<1>5. last - 0 + 1 = IF packed[n] <= FragmentSize THEN packed[n] ELSE FragmentSize + 1
  BY <1>1, <1>2
<1>6. \A k \in 1..(last - 0 + 1) : 0 + k - 1 = k - 1
  BY <1>3
<1> QED
  BY <1>3, <1>4, <1>5, <1>6 DEF FirstPart, last

\* A NALU in a packet of its own is whole.
LEMMA SingleStarts ==
  ASSUME TypeOK, NEW n \in DOMAIN packed, packed[n] <= FragmentSize
  PROVE  Single(n, packed[n]).body \in Started(n)
<1> DEFINE b == Bytes(n, 0, packed[n] - 1)
<1>1. packed[n] \in Nat \ {0} /\ n \in 0..MaxNalus
  BY NumbersSent
<1>2. /\ b \in Seq(AnyByte) /\ Len(b) = packed[n]
      /\ \A k \in 1..packed[n] : b[k] = <<n, k - 1>>
  <2> DEFINE last == packed[n] - 1
  <2>1. 0 \in Nat /\ last \in Int /\ last - 0 + 1 >= 0
    BY <1>1
  <2>2. /\ Bytes(n, 0, last) \in Seq(AnyByte)
        /\ Len(Bytes(n, 0, last)) = last - 0 + 1
        /\ \A k \in 1..(last - 0 + 1) : Bytes(n, 0, last)[k] = <<n, 0 + k - 1>>
    BY <1>1, <2>1, BytesProperties, Zenon
  <2>3. last - 0 + 1 = packed[n] /\ \A k \in 1..packed[n] : 0 + k - 1 = k - 1
    BY <1>1
  <2> HIDE DEF last
  <2> QED
    BY <2>2, <2>3 DEF last
<1>3. Len(FirstPart(n)) = packed[n]
  BY FirstPartProperties
<1>4. Single(n, packed[n]).body = b
  BY DEF Single
<1> HIDE DEF b
<1>5. \A k \in 2..Len(b) : b[k][2] # 0
  BY <1>1, <1>2
<1> QED
  BY <1>1, <1>2, <1>3, <1>4, <1>5 DEF Started

\* A fragment carries no header.
LEMMA FragmentHasNoHeader ==
  ASSUME TypeOK, NEW n \in DOMAIN packed, NEW i \in Nat
  PROVE  /\ Fragment(n, packed[n], i).body \in Seq(AnyByte)
         /\ \A k \in 1..Len(Fragment(n, packed[n], i).body) :
              Fragment(n, packed[n], i).body[k][2] # 0
<1> DEFINE first == i * FragmentSize + 1
           last == Least((i + 1) * FragmentSize, packed[n] - 1)
           b == Bytes(n, first, last)
<1>1. packed[n] \in Nat \ {0} /\ n \in 0..MaxNalus /\ FragmentSize \in Nat \ {0}
  BY NumbersSent, RtpAssumption
<1>2. i * FragmentSize \in Nat /\ (i + 1) * FragmentSize \in Int /\ packed[n] - 1 \in Int
  BY <1>1
<1>3. first \in Nat /\ first >= 1 /\ last \in Int
  <2>1. last \in Int
    BY <1>2, LeastProperties, Zenon
  <2> QED
    BY <1>2, <2>1
<1>4. Fragment(n, packed[n], i).body = b
  BY DEF Fragment
<1> HIDE DEF first, last
<1>5. /\ b \in Seq(AnyByte)
      /\ DOMAIN b = 1..(last - first + 1)
      /\ \A k \in 1..(last - first + 1) : b[k] = <<n, first + k - 1>>
  BY <1>1, <1>3, BytesProperties
<1> HIDE DEF b
<1>6. \A k \in 1..Len(b) : b[k][2] # 0
  <2>1. DOMAIN b = 1..Len(b)
    BY <1>5
  <2>2. \A k \in DOMAIN b : b[k][2] = first + k - 1 /\ k \in Int /\ k >= 1
    BY <1>5, <1>3
  <2> QED
    BY <2>1, <2>2, <1>3
<1> QED
  BY <1>4, <1>5, <1>6

\* The first fragment, with the header before it, is the first part of its NALU.
LEMMA FirstFragmentStarts ==
  ASSUME TypeOK, NEW n \in DOMAIN packed, packed[n] > FragmentSize
  PROVE  <<<<n, 0>>>> \o Fragment(n, packed[n], 0).body \in Started(n)
<1> DEFINE body == Fragment(n, packed[n], 0).body
           h == <<<<n, 0>>>>
<1>1. packed[n] \in Nat \ {0} /\ n \in 0..MaxNalus /\ FragmentSize \in Nat \ {0}
  BY NumbersSent, RtpAssumption
<1>2. body = Bytes(n, 1, FragmentSize)
  <2>1. 0 * FragmentSize + 1 = 1 /\ (0 + 1) * FragmentSize = FragmentSize
    BY <1>1
  <2>2. Least(FragmentSize, packed[n] - 1) = FragmentSize
    BY <1>1 DEF Least
  <2> QED
    BY <2>1, <2>2 DEF Fragment
<1>3. /\ body \in Seq(AnyByte) /\ Len(body) = FragmentSize
      /\ \A k \in 1..FragmentSize : body[k] = <<n, k>>
  <2>1. /\ Bytes(n, 1, FragmentSize) \in Seq(AnyByte)
        /\ Len(Bytes(n, 1, FragmentSize)) = FragmentSize
        /\ \A k \in 1..FragmentSize : Bytes(n, 1, FragmentSize)[k] = <<n, 1 + k - 1>>
    <3>1. 1 \in Nat /\ FragmentSize \in Int /\ FragmentSize - 1 + 1 >= 0
      BY <1>1
    <3>2. /\ Bytes(n, 1, FragmentSize) \in Seq(AnyByte)
          /\ Len(Bytes(n, 1, FragmentSize)) = FragmentSize - 1 + 1
          /\ \A k \in 1..(FragmentSize - 1 + 1) :
               Bytes(n, 1, FragmentSize)[k] = <<n, 1 + k - 1>>
      BY <1>1, <3>1, BytesProperties, Zenon
    <3>3. FragmentSize - 1 + 1 = FragmentSize
      BY <1>1
    <3> QED
      BY <3>2, <3>3
  <2>2. \A k \in 1..FragmentSize : 1 + k - 1 = k
    BY <1>1
  <2> QED
    BY <1>2, <2>1, <2>2
<1>4. h \in Seq(AnyByte) /\ Len(h) = 1 /\ h[1] = <<n, 0>>
  BY <1>1 DEF AnyByte
<1>5. Len(FirstPart(n)) = FragmentSize + 1
  BY <1>1, FirstPartProperties
<1> HIDE DEF body, h
<1>6. /\ h \o body \in Seq(AnyByte)
      /\ Len(h \o body) = 1 + FragmentSize
      /\ \A k \in 1..(1 + FragmentSize) : (h \o body)[k] = IF k <= 1 THEN h[k] ELSE body[k - 1]
  <2>1. /\ h \o body \in Seq(AnyByte)
        /\ Len(h \o body) = Len(h) + Len(body)
        /\ \A k \in 1..(Len(h) + Len(body)) :
             (h \o body)[k] = IF k <= Len(h) THEN h[k] ELSE body[k - Len(h)]
    BY <1>3, <1>4, ConcatProperties, Zenon
  <2> QED
    BY <1>3, <1>4, <2>1
<1>7. \A k \in 1..(FragmentSize + 1) : (h \o body)[k] = <<n, k - 1>>
  BY <1>1, <1>3, <1>4, <1>6
<1>8. \A k \in 2..(FragmentSize + 1) : (h \o body)[k][2] # 0
  <2>1. \A k \in 2..(FragmentSize + 1) : k \in 1..(FragmentSize + 1) /\ k - 1 # 0
    BY <1>1
  <2>2. \A k \in 2..(FragmentSize + 1) : (h \o body)[k] = <<n, k - 1>>
    BY <1>7, <2>1
  <2>3. \A k \in 2..(FragmentSize + 1) : <<n, k - 1>>[2] = k - 1
    OBVIOUS
  <2> HIDE DEF h, body
  <2> QED
    BY <2>1, <2>2, <2>3, Zenon
<1>9. Len(h \o body) = FragmentSize + 1
  BY <1>1, <1>6
<1>10. h \o body \in Started(n)
  <2> DEFINE b == h \o body
  <2> HIDE DEF b
  <2>1. /\ b \in Seq(AnyByte) /\ Len(b) = FragmentSize + 1
        /\ \A k \in 1..(FragmentSize + 1) : b[k] = <<n, k - 1>>
        /\ \A k \in 2..(FragmentSize + 1) : b[k][2] # 0
    BY <1>6, <1>7, <1>8, <1>9 DEF b
  <2>2. b \in Started(n)
    BY <1>1, <1>5, <2>1 DEF Started
  <2> QED
    BY <2>2 DEF b
<1> QED
  BY <1>10 DEF h, body

\* Fragments appended to what starts rightly leave the start as it is.
LEMMA AppendToStarted ==
  ASSUME TypeOK, NEW n \in DOMAIN packed, NEW b \in Started(n), NEW c \in Seq(AnyByte),
         \A k \in 1..Len(c) : c[k][2] # 0
  PROVE  b \o c \in Started(n)
<1>1. /\ b \in Seq(AnyByte) /\ Len(FirstPart(n)) \in Nat /\ Len(FirstPart(n)) >= 1
      /\ Len(FirstPart(n)) <= Len(b)
      /\ \A k \in 1..Len(FirstPart(n)) : b[k] = <<n, k - 1>>
      /\ \A k \in 2..Len(b) : b[k][2] # 0
  BY FirstPartProperties, NumbersSent, RtpAssumption DEF Started
<1>2. /\ b \o c \in Seq(AnyByte)
      /\ Len(b \o c) = Len(b) + Len(c)
      /\ Len(b) \in Nat /\ Len(c) \in Nat
      /\ \A k \in 1..(Len(b) + Len(c)) :
           (b \o c)[k] = IF k <= Len(b) THEN b[k] ELSE c[k - Len(b)]
  BY <1>1, ConcatProperties
<1>3. \A k \in 1..Len(FirstPart(n)) : (b \o c)[k] = <<n, k - 1>>
  BY <1>1, <1>2
<1>4. \A k \in 2..(Len(b) + Len(c)) : (b \o c)[k][2] # 0
  BY <1>1, <1>2
<1> DEFINE bc == b \o c
<1> HIDE DEF bc
<1>5. /\ bc \in Seq(AnyByte) /\ Len(bc) = Len(b) + Len(c)
      /\ \A k \in 1..Len(FirstPart(n)) : bc[k] = <<n, k - 1>>
      /\ \A k \in 2..Len(bc) : bc[k][2] # 0
  BY <1>2, <1>3, <1>4 DEF bc
<1>6. Len(FirstPart(n)) <= Len(bc)
  BY <1>1, <1>2, <1>5
<1>7. bc \in Started(n)
  BY <1>5, <1>6 DEF Started
<1> QED
  BY <1>7 DEF bc

\* What parse can rely on, whoever made the packet.
LEMMA DatagramProperties ==
  ASSUME TypeOK, NEW p \in Datagrams
  PROVE  /\ p.nalu \in 0..MaxNalus /\ p.body \in Seq(AnyByte)
         /\ p.kind = "single" => p.body \in AnyStarted
         /\ p.kind = "FU_A" =>
              /\ p.start /\ ~p.end => <<<<p.nalu, 0>>>> \o p.body \in AnyStarted
              /\ \A k \in 1..Len(p.body) : p.body[k][2] # 0
<1>1. CASE p \in Foreign
  <2>1. CASE p = [kind |-> "STAP_A", nalu |-> 0, body |-> <<>>]
    BY <2>1, RtpAssumption
  <2>2. CASE p = [kind |-> "FU_A", nalu |-> 0, start |-> TRUE, end |-> TRUE,
                  body |-> <<<<0, 1>>>>]
    <3>1. p.kind = "FU_A" /\ p.nalu = 0 /\ p.end /\ p.body = <<<<0, 1>>>>
      BY <2>2
    <3>2. <<0, 1>> \in AnyByte /\ 0 \in 0..MaxNalus
      BY RtpAssumption DEF AnyByte
    <3>3. <<<<0, 1>>>> \in Seq(AnyByte) /\ Len(<<<<0, 1>>>>) = 1
      BY <3>2
    <3>4. \A k \in 1..1 : <<<<0, 1>>>>[k][2] # 0
      OBVIOUS
    <3> QED
      BY <3>1, <3>2, <3>3, <3>4
  <2> QED
    BY <1>1, <2>1, <2>2 DEF Foreign
<1>2. CASE \E n \in DOMAIN packed : packed[n] <= FragmentSize /\ p = Single(n, packed[n])
  <2>1. PICK n \in DOMAIN packed : packed[n] <= FragmentSize /\ p = Single(n, packed[n])
    BY <1>2
  <2>2. p.body \in Started(n) /\ n \in 0..MaxNalus
    BY <2>1, SingleStarts, NumbersSent
  <2>3. p.nalu = n /\ p.kind = "single"
    BY <2>1 DEF Single
  <2> QED
    BY <2>2, <2>3 DEF AnyStarted, Started
<1>3. CASE \E n \in DOMAIN packed : /\ packed[n] > FragmentSize
                                    /\ \E i \in Nat : p = Fragment(n, packed[n], i)
  <2>1. PICK n \in DOMAIN packed, i \in Nat :
          packed[n] > FragmentSize /\ p = Fragment(n, packed[n], i)
    BY <1>3
  <2>2. p.kind = "FU_A" /\ p.nalu = n /\ n \in 0..MaxNalus /\ p.start = (i = 0)
    BY <2>1, NumbersSent DEF Fragment
  <2>3. p.body \in Seq(AnyByte) /\ \A k \in 1..Len(p.body) : p.body[k][2] # 0
    BY <2>1, FragmentHasNoHeader
  <2>4. ASSUME p.start PROVE <<<<p.nalu, 0>>>> \o p.body \in AnyStarted
    <3>1. p = Fragment(n, packed[n], 0)
      BY <2>1, <2>2, <2>4
    <3>2. <<<<n, 0>>>> \o p.body \in Started(n)
      BY <2>1, <3>1, FirstFragmentStarts
    <3> QED
      BY <2>2, <3>2 DEF AnyStarted
  <2> QED
    BY <2>2, <2>3, <2>4
<1> QED
  BY <1>1, <1>2, <1>3 DEF Datagrams

\* Only what starts rightly is kept, and only that is delivered.
LEMMA ParseKeeps ==
  ASSUME RtpInv, NEW p \in Datagrams, Parse(p)
  PROVE  /\ assembly' = <<>> \/ assembly' \in AnyStarted
         /\ delivered' \in Seq(AnyStarted)
<1> USE DEF RtpInv
<1>1. ASSUME NEW bytes \in AnyStarted, Delivers(bytes)
      PROVE  assembly' = <<>> /\ delivered' \in Seq(AnyStarted)
  BY <1>1, AppendProperties DEF Delivers
<1>2. ASSUME NEW bytes, bytes = <<>> \/ bytes \in AnyStarted, Keeps(bytes)
      PROVE  (assembly' = <<>> \/ assembly' \in AnyStarted) /\ delivered' \in Seq(AnyStarted)
  BY <1>2 DEF Keeps
<1>3. ASSUME p.kind = "FU_A", assembly # <<>> PROVE assembly \o p.body \in AnyStarted
  <2>1. PICK n \in DOMAIN packed : assembly \in Started(n)
    BY <1>3 DEF AnyStarted
  <2>2. p.body \in Seq(AnyByte) /\ \A k \in 1..Len(p.body) : p.body[k][2] # 0
    BY <1>3, DatagramProperties
  <2>3. assembly \o p.body \in Started(n)
    BY <2>1, <2>2, AppendToStarted
  <2> QED
    BY <2>3 DEF AnyStarted
<1>4. CASE p.kind = "single" /\ Delivers(p.body)
  BY <1>1, <1>4, DatagramProperties
<1>5. CASE Keeps(assembly)
  BY <1>2, <1>5
<1>6. CASE p.kind = "FU_A" /\ p.start /\ ~p.end /\ Keeps(<<<<p.nalu, 0>>>> \o p.body)
  BY <1>2, <1>6, DatagramProperties
<1>7. CASE p.kind = "FU_A" /\ assembly # <<>> /\ Delivers(assembly \o p.body)
  BY <1>1, <1>3, <1>7
<1>8. CASE p.kind = "FU_A" /\ assembly # <<>> /\ Keeps(assembly \o p.body)
  BY <1>2, <1>3, <1>8
<1> QED
  BY <1>4, <1>5, <1>6, <1>7, <1>8 DEF Parse
-----------------------------------------------------------------------------
(* Sequences of datagrams.                                                 *)

LEMMA PartOf ==
  ASSUME NEW S, NEW s \in Seq(S), NEW m \in 1..(Len(s) + 1), NEW n \in 0..Len(s)
  PROVE  /\ SubSeq(s, m, n) \in Seq(S)
         /\ Len(SubSeq(s, m, n)) = IF m <= n THEN n - m + 1 ELSE 0
OBVIOUS

LEMMA RemoveKeeps ==
  ASSUME NEW S, NEW s \in Seq(S), NEW i \in 1..Len(s)
  PROVE  RemoveAt(s, i) \in Seq(S) /\ Len(RemoveAt(s, i)) = Len(s) - 1
<1> DEFINE before == SubSeq(s, 1, i - 1)
           after == SubSeq(s, i + 1, Len(s))
<1>1. /\ Len(s) \in Nat /\ i \in Int
      /\ 1 \in 1..(Len(s) + 1) /\ i + 1 \in 1..(Len(s) + 1)
      /\ i - 1 \in 0..Len(s) /\ Len(s) \in 0..Len(s)
  OBVIOUS
<1>2. before \in Seq(S) /\ Len(before) = IF 1 <= i - 1 THEN i - 1 - 1 + 1 ELSE 0
  BY <1>1, PartOf, Zenon
<1>3. after \in Seq(S) /\ Len(after) = IF i + 1 <= Len(s) THEN Len(s) - (i + 1) + 1 ELSE 0
  BY <1>1, PartOf, Zenon
<1>4. RemoveAt(s, i) = before \o after
  BY DEF RemoveAt
<1> HIDE DEF before, after
<1>5. before \o after \in Seq(S) /\ Len(before \o after) = Len(before) + Len(after)
  BY <1>2, <1>3, ConcatProperties, Zenon
<1>6. Len(before) + Len(after) = Len(s) - 1
  <2>1. Len(before) = i - 1
    BY <1>1, <1>2
  <2>2. Len(after) = Len(s) - i
    BY <1>1, <1>3
  <2> QED
    BY <1>1, <2>1, <2>2
<1> QED
  BY <1>4, <1>5, <1>6

\* What RemoveAt leaves keeps its order.
LEMMA RemovePlaces ==
  ASSUME NEW S, NEW s \in Seq(S), NEW i \in DOMAIN s
  PROVE  /\ DOMAIN RemoveAt(s, i) = 1..(Len(s) - 1)
         /\ \A k \in 1..(Len(s) - 1) :
              RemoveAt(s, i)[k] = s[IF k < i THEN k ELSE k + 1]
<1> DEFINE before == SubSeq(s, 1, i - 1)
           after == SubSeq(s, i + 1, Len(s))
<1>1. Len(s) \in Nat /\ DOMAIN s = 1..Len(s) /\ i \in 1..Len(s) /\ i \in Nat
  OBVIOUS
<1>2. /\ before \in Seq(S) /\ Len(before) = i - 1
      /\ \A k \in 1..(i - 1) : before[k] = s[k]
  <2>1. 1 \in 1..(Len(s) + 1) /\ i - 1 \in 0..Len(s)
    BY <1>1
  <2>2. before \in Seq(S) /\ Len(before) = IF 1 <= i - 1 THEN i - 1 - 1 + 1 ELSE 0
    BY <2>1, PartOf, Zenon
  <2>3. \A k \in 1..(i - 1) : before[k] = s[k]
    BY <1>1
  <2> QED
    BY <1>1, <2>2, <2>3
<1>3. /\ after \in Seq(S) /\ Len(after) = Len(s) - i
      /\ \A k \in 1..(Len(s) - i) : after[k] = s[i + k]
  <2>1. i + 1 \in 1..(Len(s) + 1) /\ Len(s) \in 0..Len(s)
    BY <1>1
  <2>2. after \in Seq(S) /\ Len(after) = IF i + 1 <= Len(s) THEN Len(s) - (i + 1) + 1 ELSE 0
    BY <2>1, PartOf, Zenon
  <2> DEFINE m == i + 1
             n == Len(s)
  <2>3. m \in Nat \ {0} /\ n \in Nat /\ m = i + 1 /\ m \in 1..(Len(s) + 1)
    BY <1>1
  <2> HIDE DEF m
  <2>4. \A k \in 1..(n - m + 1) : SubSeq(s, m, n)[k] = s[m + k - 1]
    BY <2>3
  <2>5. \A k \in 1..(n - i) : k \in 1..(n - m + 1) /\ m + k - 1 = i + k
    BY <1>1, <2>3
  <2>6. \A k \in 1..(n - i) : SubSeq(s, m, n)[k] = s[i + k]
    BY <2>4, <2>5
  <2>7. Len(after) = Len(s) - i
    BY <1>1, <2>2
  <2> QED
    BY <2>2, <2>6, <2>7 DEF m
<1>4. RemoveAt(s, i) = before \o after
  BY DEF RemoveAt
<1> HIDE DEF before, after
<1> DEFINE rest == before \o after
<1>5. /\ DOMAIN rest = 1..(Len(before) + Len(after))
      /\ \A k \in 1..(Len(before) + Len(after)) :
           rest[k] = IF k <= Len(before) THEN before[k] ELSE after[k - Len(before)]
  BY <1>2, <1>3, ConcatProperties
<1> HIDE DEF rest
<1>6. Len(before) + Len(after) = Len(s) - 1
  BY <1>1, <1>2, <1>3
<1>7. ASSUME NEW k \in 1..(Len(s) - 1) PROVE rest[k] = s[IF k < i THEN k ELSE k + 1]
  <2>1. CASE k < i
    BY <1>1, <1>2, <1>5, <1>6, <2>1
  <2>2. CASE ~(k < i)
    <3>1. k - (i - 1) \in 1..(Len(s) - i) /\ i + (k - (i - 1)) = k + 1 /\ ~(k <= i - 1)
      BY <1>1, <2>2
    <3>2. rest[k] = after[k - (i - 1)]
      BY <1>2, <1>5, <1>6, <3>1
    <3> QED
      BY <1>3, <2>2, <3>1, <3>2
  <2> QED
    BY <2>1, <2>2
<1> QED
  BY <1>4, <1>5, <1>6, <1>7 DEF rest

LEMMA InsertKeeps ==
  ASSUME NEW S, NEW s \in Seq(S), NEW i \in 1..Len(s), NEW e \in S
  PROVE  InsertAt(s, i, e) \in Seq(S) /\ Len(InsertAt(s, i, e)) = Len(s) + 1
<1> DEFINE before == SubSeq(s, 1, i - 1)
           after == SubSeq(s, i, Len(s))
<1>1. /\ Len(s) \in Nat /\ i \in Int
      /\ 1 \in 1..(Len(s) + 1) /\ i \in 1..(Len(s) + 1)
      /\ i - 1 \in 0..Len(s) /\ Len(s) \in 0..Len(s)
  OBVIOUS
<1>2. before \in Seq(S) /\ Len(before) = IF 1 <= i - 1 THEN i - 1 - 1 + 1 ELSE 0
  BY <1>1, PartOf, Zenon
<1>3. after \in Seq(S) /\ Len(after) = IF i <= Len(s) THEN Len(s) - i + 1 ELSE 0
  BY <1>1, PartOf, Zenon
<1>4. InsertAt(s, i, e) = (before \o <<e>>) \o after
  BY DEF InsertAt
<1>5. <<e>> \in Seq(S) /\ Len(<<e>>) = 1
  OBVIOUS
<1> HIDE DEF before, after
<1>6. /\ before \o <<e>> \in Seq(S)
      /\ Len(before \o <<e>>) = Len(before) + Len(<<e>>)
  BY <1>2, <1>5, ConcatProperties, Zenon
<1>7. /\ (before \o <<e>>) \o after \in Seq(S)
      /\ Len((before \o <<e>>) \o after) = Len(before \o <<e>>) + Len(after)
  BY <1>3, <1>6, ConcatProperties, Zenon
<1>8. Len(before) + 1 + Len(after) = Len(s) + 1
  BY <1>1, <1>2, <1>3
<1> QED
  BY <1>4, <1>5, <1>6, <1>7, <1>8
-----------------------------------------------------------------------------
(* The steps.                                                              *)

\* A NALU more leaves what is in flight and what has arrived as good as it was.
LEMMA PackKeeps ==
  ASSUME RtpInv, NEW len \in Lengths, packed' = Append(packed, len)
  PROVE  /\ packed' \in Seq(Lengths)
         /\ Len(packed') = Len(packed) + 1
         /\ Len(packed') \in DOMAIN packed' /\ packed'[Len(packed')] = len
         /\ Datagrams \subseteq Datagrams'
         /\ AnyStarted \subseteq AnyStarted'
<1>1. packed \in Seq(Lengths)
  BY DEF RtpInv, TypeOK
<1>2. /\ packed' \in Seq(Lengths)
      /\ Len(packed') = Len(packed) + 1 /\ Len(packed) \in Nat
      /\ DOMAIN packed = 1..Len(packed) /\ DOMAIN packed' = 1..(Len(packed) + 1)
      /\ packed'[Len(packed) + 1] = len
      /\ \A n \in DOMAIN packed : packed'[n] = packed[n]
  BY <1>1
<1>3. \A n \in DOMAIN packed : n \in DOMAIN packed'
  BY <1>2
<1>4. Datagrams \subseteq Datagrams'
  <2> SUFFICES ASSUME NEW p \in Datagrams PROVE p \in Datagrams'
    OBVIOUS
  <2>1. CASE p \in Foreign
    BY <2>1 DEF Datagrams
  <2>2. CASE \E n \in DOMAIN packed : packed[n] <= FragmentSize /\ p = Single(n, packed[n])
    BY <2>2, <1>2, <1>3 DEF Datagrams
  <2>3. CASE \E q \in {m \in DOMAIN packed : packed[m] > FragmentSize} \X Nat :
               p = Fragment(q[1], packed[q[1]], q[2])
    <3>1. PICK q \in {m \in DOMAIN packed : packed[m] > FragmentSize} \X Nat :
                 p = Fragment(q[1], packed[q[1]], q[2])
      BY <2>3
    <3>2. /\ q \in {m \in DOMAIN packed' : packed'[m] > FragmentSize} \X Nat
          /\ p = Fragment(q[1], packed'[q[1]], q[2])
      BY <3>1, <1>2, <1>3
    <3> QED
      BY <3>2 DEF Datagrams
  <2> QED
    BY <2>1, <2>2, <2>3 DEF Datagrams
<1>5. \A n \in DOMAIN packed : Started(n)' = Started(n)
  BY <1>2 DEF Started, FirstPart
<1>6. AnyStarted \subseteq AnyStarted'
  BY <1>3, <1>5 DEF AnyStarted
<1> QED
  BY <1>2, <1>4, <1>6

\* The types of the receiver's sequences follow from what they hold.
LEMMA StartedIsTyped ==
  ASSUME TypeOK
  PROVE  AnyStarted \subseteq Seq(AnyByte) \ {<<>>}
<1> SUFFICES ASSUME NEW n \in DOMAIN packed, NEW b \in Started(n)
             PROVE  b \in Seq(AnyByte) \ {<<>>}
  BY DEF AnyStarted
<1>1. Len(FirstPart(n)) \in Nat /\ Len(FirstPart(n)) >= 1
  BY FirstPartProperties, NumbersSent, RtpAssumption
<1>2. b \in Seq(AnyByte) /\ Len(FirstPart(n)) <= Len(b)
  BY DEF Started
<1> QED
  BY <1>1, <1>2

LEMMA SentIsTyped ==
  ASSUME NEW n \in 1..MaxNalus, NEW len \in Nat \ {0}, NEW i \in Nat
  PROVE  /\ Single(n, len).nalu \in 0..MaxNalus /\ Single(n, len).body \in Seq(AnyByte)
         /\ Fragment(n, len, i).nalu \in 0..MaxNalus
         /\ Fragment(n, len, i).body \in Seq(AnyByte)
<1>1. n \in 0..MaxNalus /\ len - 1 \in Int /\ FragmentSize \in Nat /\ 0 \in Nat
  BY RtpAssumption
<1>2. i * FragmentSize + 1 \in Nat /\ (i + 1) * FragmentSize \in Int
  BY <1>1
<1>3. Least((i + 1) * FragmentSize, len - 1) \in Int
  BY <1>1, <1>2, LeastProperties, Zenon
<1>4. Bytes(n, 0, len - 1) \in Seq(AnyByte)
  BY <1>1, BytesProperties, Zenon
<1>5. Bytes(n, i * FragmentSize + 1, Least((i + 1) * FragmentSize, len - 1)) \in Seq(AnyByte)
  BY <1>1, <1>2, <1>3, BytesProperties, Zenon
<1> QED
  BY <1>1, <1>4, <1>5 DEF Single, Fragment

\* A datagram handed to the network is in flight or gone.
LEMMA SendToKeeps ==
  ASSUME RtpInv, NEW p, SendTo(p), p \in Datagrams', Datagrams \subseteq Datagrams',
         p.nalu \in 0..MaxNalus, p.body \in Seq(AnyByte)
  PROVE  /\ net' \in Seq(Datagrams') /\ Len(net') <= MaxInFlight
         /\ \A i \in DOMAIN net' : net'[i].nalu \in 0..MaxNalus /\ net'[i].body \in Seq(AnyByte)
<1> DEFINE D == Datagrams'
<1>1. net \in Seq(D)
  BY SeqMonotonic DEF RtpInv
<1>2. /\ Len(net) < MaxInFlight /\ MaxInFlight \in Nat
      /\ net' = IF open THEN Append(net, p) ELSE net
  BY RtpAssumption DEF SendTo
<1>3. \A i \in DOMAIN net : net[i].nalu \in 0..MaxNalus /\ net[i].body \in Seq(AnyByte)
  BY DEF RtpInv, TypeOK
<1>4. p \in D
  OBVIOUS
<1> HIDE DEF D
<1>5. CASE net' = net
  BY <1>1, <1>2, <1>3, <1>5 DEF D
<1>6. CASE net' = Append(net, p)
  <2>1. /\ net' \in Seq(D) /\ Len(net') = Len(net) + 1 /\ Len(net) \in Nat
        /\ DOMAIN net' = 1..(Len(net) + 1) /\ DOMAIN net = 1..Len(net)
        /\ net'[Len(net) + 1] = p
        /\ \A i \in DOMAIN net : net'[i] = net[i]
    BY <1>1, <1>4, <1>6
  <2>2. \A i \in DOMAIN net' : i \in DOMAIN net \/ i = Len(net) + 1
    BY <2>1
  <2>3. \A i \in DOMAIN net' : net'[i].nalu \in 0..MaxNalus /\ net'[i].body \in Seq(AnyByte)
    BY <1>3, <2>1, <2>2
  <2>4. Len(net') <= MaxInFlight
    BY <1>2, <2>1
  <2> QED
    BY <2>1, <2>3, <2>4 DEF D
<1> QED
  BY <1>2, <1>5, <1>6

\* What was in flight, less or more often, is as good.
LEMMA NetKeeps ==
  ASSUME RtpInv, UNCHANGED packed, net' \in Seq(Datagrams), Len(net') <= MaxInFlight
  PROVE  /\ net' \in Seq(Datagrams') /\ Len(net') <= MaxInFlight
         /\ \A i \in DOMAIN net' : net'[i].nalu \in 0..MaxNalus /\ net'[i].body \in Seq(AnyByte)
<1>1. Datagrams' = Datagrams
  BY DEF Datagrams
<1>2. \A i \in DOMAIN net' : net'[i] \in Datagrams
  OBVIOUS
<1>3. \A q \in Datagrams : q.nalu \in 0..MaxNalus /\ q.body \in Seq(AnyByte)
  BY DatagramProperties DEF RtpInv
<1> QED
  BY <1>1, <1>2, <1>3

LEMMA SameStarted == UNCHANGED packed => AnyStarted' = AnyStarted
BY DEF AnyStarted, Started, FirstPart

\* What the steps above leave to show.
LEMMA RtpInvFromParts ==
  ASSUME TypeOK,
         faults' = faults, extra' \in 0..MaxExtra, open' \in BOOLEAN,
         packed' \in Seq(Lengths), Len(packed') <= MaxNalus,
         fragment' \in -1..(IF packed' = <<>> THEN -1 ELSE Count(Last(packed')) - 1),
         FragmentsLong',
         net' \in Seq(Datagrams'), Len(net') <= MaxInFlight,
         \A i \in DOMAIN net' : net'[i].nalu \in 0..MaxNalus /\ net'[i].body \in Seq(AnyByte),
         assembly' = <<>> \/ assembly' \in AnyStarted', delivered' \in Seq(AnyStarted'),
         assembly' \in Seq(AnyByte), delivered' \in Seq(Seq(AnyByte) \ {<<>>})
  PROVE  RtpInv'
<1>1. TypeOK'
  BY DEF TypeOK
<1> QED
  BY <1>1 DEF RtpInv

LEMMA ReceiverUntouched ==
  ASSUME RtpInv, UNCHANGED <<assembly, delivered>>, AnyStarted \subseteq AnyStarted'
  PROVE  /\ assembly' = <<>> \/ assembly' \in AnyStarted'
         /\ delivered' \in Seq(AnyStarted')
         /\ assembly' \in Seq(AnyByte) /\ delivered' \in Seq(Seq(AnyByte) \ {<<>>})
<1>1. delivered \in Seq(AnyStarted')
  BY SeqMonotonic DEF RtpInv
<1> QED
  BY <1>1 DEF RtpInv, TypeOK

LEMMA PackStep ==
  ASSUME RtpInv, NEW len \in Lengths, PackSingle(len) \/ PackFragmented(len)
  PROVE  RtpInv'
<1> DEFINE n == Len(packed')
<1>1. TypeOK /\ packed' = Append(packed, len) /\ Len(packed) < MaxNalus
  BY DEF RtpInv, PackSingle, PackFragmented
<1>2. /\ packed' \in Seq(Lengths) /\ n = Len(packed) + 1
      /\ n \in DOMAIN packed' /\ packed'[n] = len
      /\ Datagrams \subseteq Datagrams' /\ AnyStarted \subseteq AnyStarted'
  BY <1>1, PackKeeps
<1>3. len \in Nat \ {0} /\ MaxNalus \in Nat /\ FragmentSize \in Nat /\ 0 \in Nat
  BY RtpAssumption
<1>4. n \in 1..MaxNalus /\ n <= MaxNalus
  <2>1. Len(packed) \in Nat
    BY <1>1 DEF TypeOK
  <2> QED
    BY <1>1, <1>2, <1>3, <2>1
<1>5. packed' # <<>> /\ Last(packed') = len
  BY <1>1, <1>2 DEF Last, TypeOK
<1>6. UNCHANGED <<faults, extra, open, assembly, delivered>>
  BY DEF PackSingle, PackFragmented
<1>7. extra' \in 0..MaxExtra /\ open' \in BOOLEAN
  BY <1>1, <1>6 DEF TypeOK
<1>8. Count(len) \in Nat /\ (len > FragmentSize => Count(len) >= 1)
  BY <1>3, CountProperties
<1>9. /\ fragment' \in -1..(Count(len) - 1)
      /\ fragment' # -1 => len > FragmentSize
  BY <1>8 DEF PackSingle, PackFragmented
<1>10. /\ net' \in Seq(Datagrams') /\ Len(net') <= MaxInFlight
       /\ \A i \in DOMAIN net' : net'[i].nalu \in 0..MaxNalus /\ net'[i].body \in Seq(AnyByte)
  <2>1. CASE PackSingle(len)
    <3> DEFINE p == Single(n, len)
    <3>1. SendTo(p) /\ len <= FragmentSize
      BY <2>1 DEF PackSingle
    <3>2. p \in Datagrams'
      BY <1>2, <3>1 DEF Datagrams
    <3>3. p.nalu \in 0..MaxNalus /\ p.body \in Seq(AnyByte)
      BY <1>3, <1>4, SentIsTyped
    <3> HIDE DEF p
    <3> QED
      BY <1>2, <3>1, <3>2, <3>3, SendToKeeps
  <2>2. CASE PackFragmented(len)
    <3>1. net' = net
      BY <2>2 DEF PackFragmented
    <3>2. net \in Seq(Datagrams')
      BY <1>2, SeqMonotonic DEF RtpInv
    <3> QED
      BY <3>1, <3>2, <1>1 DEF TypeOK
  <2> QED
    BY <2>1, <2>2
<1>11. /\ assembly' = <<>> \/ assembly' \in AnyStarted'
       /\ delivered' \in Seq(AnyStarted')
       /\ assembly' \in Seq(AnyByte) /\ delivered' \in Seq(Seq(AnyByte) \ {<<>>})
  BY <1>2, <1>6, ReceiverUntouched
<1>12. FragmentsLong'
  BY <1>5, <1>9 DEF FragmentsLong
<1>13. fragment' \in -1..(IF packed' = <<>> THEN -1 ELSE Count(Last(packed')) - 1)
  BY <1>5, <1>9
<1> QED
  BY <1>1, <1>2, <1>4, <1>6, <1>7, <1>10, <1>11, <1>12, <1>13, RtpInvFromParts

LEMMA SendFragmentStep ==
  ASSUME RtpInv, SendFragment
  PROVE  RtpInv'
<1> DEFINE n == Len(packed)
           p == Fragment(n, packed[n], fragment)
<1>1. /\ TypeOK /\ FragmentsLong /\ fragment # -1
      /\ UNCHANGED <<faults, packed, extra, open, assembly, delivered>>
      /\ SendTo(p)
      /\ fragment' = IF fragment = Count(packed[n]) - 1 THEN -1 ELSE fragment + 1
  BY DEF RtpInv, SendFragment
<1>2. packed \in Seq(Lengths) /\ packed # <<>> /\ Len(packed) <= MaxNalus
  BY <1>1 DEF TypeOK, FragmentsLong
<1>3. n \in DOMAIN packed /\ Last(packed) = packed[n] /\ packed[n] > FragmentSize
  BY <1>1, <1>2 DEF FragmentsLong, Last
<1>4. packed[n] \in Nat \ {0} /\ n \in 1..MaxNalus
  BY <1>1, <1>3, NumbersSent
<1>5. Count(packed[n]) \in Nat
  BY <1>4, CountProperties
<1>6. fragment \in -1..(Count(packed[n]) - 1) /\ fragment \in Nat
  BY <1>1, <1>2, <1>3, <1>5 DEF TypeOK
<1>7. fragment' \in -1..(Count(packed[n]) - 1)
  BY <1>1, <1>5, <1>6
<1>8. fragment' \in -1..(IF packed' = <<>> THEN -1 ELSE Count(Last(packed')) - 1)
  BY <1>1, <1>2, <1>3, <1>7
<1>9. Datagrams' = Datagrams /\ AnyStarted' = AnyStarted
  BY <1>1, SameStarted DEF Datagrams
<1>10. p \in Datagrams
  <2> DEFINE q == <<n, fragment>>
  <2>1. q \in {m \in DOMAIN packed : packed[m] > FragmentSize} \X Nat
    BY <1>3, <1>6
  <2>2. p = Fragment(q[1], packed[q[1]], q[2])
    OBVIOUS
  <2> HIDE DEF p, q
  <2> QED
    BY <2>1, <2>2 DEF Datagrams
<1>11. p.nalu \in 0..MaxNalus /\ p.body \in Seq(AnyByte)
  BY <1>4, <1>6, SentIsTyped
<1> HIDE DEF p
<1>12. /\ net' \in Seq(Datagrams') /\ Len(net') <= MaxInFlight
       /\ \A i \in DOMAIN net' : net'[i].nalu \in 0..MaxNalus /\ net'[i].body \in Seq(AnyByte)
  BY <1>1, <1>9, <1>10, <1>11, SendToKeeps
<1>13. /\ assembly' = <<>> \/ assembly' \in AnyStarted'
       /\ delivered' \in Seq(AnyStarted')
       /\ assembly' \in Seq(AnyByte) /\ delivered' \in Seq(Seq(AnyByte) \ {<<>>})
  BY <1>1, <1>9, ReceiverUntouched
<1>14. FragmentsLong'
  BY <1>1, <1>2, <1>3 DEF FragmentsLong
<1>15. extra' \in 0..MaxExtra /\ open' \in BOOLEAN
  BY <1>1 DEF TypeOK
<1> QED
  BY <1>1, <1>2, <1>8, <1>12, <1>13, <1>14, <1>15, RtpInvFromParts

LEMMA NetworkStep ==
  ASSUME RtpInv, Network
  PROVE  RtpInv'
<1>1. /\ UNCHANGED <<faults, packed, fragment, open, assembly, delivered>>
      /\ extra' = extra \/ (extra < MaxExtra /\ extra' = extra + 1)
  BY DEF Network, Lose, Duplicate, ForeignSends, Extra
<1>2. TypeOK /\ net \in Seq(Datagrams) /\ Len(net) <= MaxInFlight /\ MaxInFlight \in Nat
  BY RtpAssumption DEF RtpInv, TypeOK
<1>3. Datagrams' = Datagrams /\ AnyStarted' = AnyStarted
  BY <1>1, SameStarted DEF Datagrams
<1>4. /\ net' \in Seq(Datagrams') /\ Len(net') <= MaxInFlight
      /\ \A i \in DOMAIN net' : net'[i].nalu \in 0..MaxNalus /\ net'[i].body \in Seq(AnyByte)
  <2>1. CASE \E i \in DOMAIN net : Lose(i) \/ Duplicate(i)
    <3>1. PICK i \in 1..Len(net) : Lose(i) \/ Duplicate(i)
      BY <1>2, <2>1
    <3>2. Len(net) \in Nat /\ net[i] \in Datagrams
      BY <1>2, <3>1
    <3>3. /\ RemoveAt(net, i) \in Seq(Datagrams) /\ Len(RemoveAt(net, i)) = Len(net) - 1
          /\ InsertAt(net, i, net[i]) \in Seq(Datagrams)
          /\ Len(InsertAt(net, i, net[i])) = Len(net) + 1
      BY <1>2, <3>2, RemoveKeeps, InsertKeeps
    <3>4. \/ net' = RemoveAt(net, i)
          \/ net' = InsertAt(net, i, net[i]) /\ Len(net) < MaxInFlight
      BY <3>1 DEF Lose, Duplicate
    <3>5. net' \in Seq(Datagrams) /\ Len(net') <= MaxInFlight
      BY <1>2, <3>2, <3>3, <3>4
    <3> QED
      BY <1>1, <3>5, NetKeeps
  <2>2. CASE \E p \in Foreign : ForeignSends(p)
    <3>1. PICK p \in Foreign : ForeignSends(p)
      BY <2>2
    <3>2. SendTo(p) /\ p \in Datagrams
      BY <3>1 DEF ForeignSends, Datagrams
    <3>3. p.nalu \in 0..MaxNalus /\ p.body \in Seq(AnyByte)
      BY <1>2, <3>2, DatagramProperties
    <3> QED
      BY <1>3, <3>2, <3>3, SendToKeeps
  <2> QED
    BY <2>1, <2>2 DEF Network
<1>5. /\ assembly' = <<>> \/ assembly' \in AnyStarted'
      /\ delivered' \in Seq(AnyStarted')
      /\ assembly' \in Seq(AnyByte) /\ delivered' \in Seq(Seq(AnyByte) \ {<<>>})
  BY <1>1, <1>3, ReceiverUntouched
<1>6. extra' \in 0..MaxExtra
  <2>1. extra \in 0..MaxExtra /\ MaxExtra \in Nat
    BY <1>2, RtpAssumption DEF TypeOK
  <2> QED
    BY <1>1, <2>1
<1>7. /\ open' \in BOOLEAN /\ packed' \in Seq(Lengths) /\ Len(packed') <= MaxNalus
      /\ fragment' \in -1..(IF packed' = <<>> THEN -1 ELSE Count(Last(packed')) - 1)
  BY <1>1, <1>2 DEF TypeOK
<1>8. FragmentsLong'
  BY <1>1 DEF RtpInv, FragmentsLong
<1> QED
  BY <1>1, <1>2, <1>4, <1>5, <1>6, <1>7, <1>8, RtpInvFromParts

LEMMA ReceiverStep ==
  ASSUME RtpInv, Receiver
  PROVE  RtpInv'
<1>1. UNCHANGED <<faults, packed, fragment, extra>>
  BY DEF Receiver, Receive, Stop, Start
<1>2. /\ TypeOK /\ net \in Seq(Datagrams) /\ Len(net) <= MaxInFlight /\ MaxInFlight \in Nat
      /\ Len(net) \in Nat
  BY RtpAssumption DEF RtpInv, TypeOK
<1>3. AnyStarted' = AnyStarted /\ AnyStarted \subseteq Seq(AnyByte) \ {<<>>}
  BY <1>1, <1>2, SameStarted, StartedIsTyped
<1>4. /\ net' \in Seq(Datagrams) /\ Len(net') <= MaxInFlight /\ open' \in BOOLEAN
      /\ assembly' = <<>> \/ assembly' \in AnyStarted
      /\ delivered' \in Seq(AnyStarted)
  <2>1. CASE \E i \in DOMAIN net : Receive(i)
    <3>1. PICK i \in 1..Len(net) : Receive(i)
      BY <1>2, <2>1
    <3>2. /\ net[i] \in Datagrams /\ Parse(net[i]) /\ net' = RemoveAt(net, i)
          /\ open' = open
      BY <1>2, <3>1 DEF Receive
    <3>3. RemoveAt(net, i) \in Seq(Datagrams) /\ Len(RemoveAt(net, i)) = Len(net) - 1
      BY <1>2, RemoveKeeps
    <3>4. /\ assembly' = <<>> \/ assembly' \in AnyStarted
          /\ delivered' \in Seq(AnyStarted)
      BY <3>2, ParseKeeps
    <3>5. open' \in BOOLEAN
      BY <1>2, <3>2 DEF TypeOK
    <3> QED
      BY <1>2, <3>2, <3>3, <3>4, <3>5
  <2>2. CASE Stop
    <3>1. UNCHANGED <<assembly, delivered>> /\ net' = <<>> /\ open' \in BOOLEAN
      BY <2>2 DEF Stop
    <3>2. net' \in Seq(Datagrams) /\ Len(net') <= MaxInFlight
      BY <1>2, <3>1
    <3> QED
      BY <3>1, <3>2 DEF RtpInv
  <2>3. CASE Start
    BY <1>2, <2>3 DEF Start, RtpInv
  <2> QED
    BY <2>1, <2>2, <2>3 DEF Receiver
<1>5. /\ net' \in Seq(Datagrams')
      /\ \A i \in DOMAIN net' : net'[i].nalu \in 0..MaxNalus /\ net'[i].body \in Seq(AnyByte)
  BY <1>1, <1>4, NetKeeps
<1>6. /\ assembly' \in Seq(AnyByte) /\ delivered' \in Seq(Seq(AnyByte) \ {<<>>})
      /\ assembly' = <<>> \/ assembly' \in AnyStarted'
      /\ delivered' \in Seq(AnyStarted')
  <2>1. assembly' \in Seq(AnyByte)
    <3>1. <<>> \in Seq(AnyByte)
      OBVIOUS
    <3>2. assembly' \in AnyStarted => assembly' \in Seq(AnyByte)
      BY <1>3, Zenon
    <3> QED
      BY <1>4, <3>1, <3>2, Zenon
  <2>2. delivered' \in Seq(Seq(AnyByte) \ {<<>>})
    BY <1>3, <1>4, SeqMonotonic, Zenon
  <2> QED
    BY <1>3, <1>4, <2>1, <2>2, Zenon
<1>7. /\ extra' \in 0..MaxExtra /\ packed' \in Seq(Lengths) /\ Len(packed') <= MaxNalus
      /\ fragment' \in -1..(IF packed' = <<>> THEN -1 ELSE Count(Last(packed')) - 1)
  BY <1>1, <1>2 DEF TypeOK
<1>8. FragmentsLong'
  BY <1>1 DEF RtpInv, FragmentsLong
<1> QED
  BY <1>1, <1>2, <1>4, <1>5, <1>6, <1>7, <1>8, RtpInvFromParts
-----------------------------------------------------------------------------
LEMMA RtpInit == Init => RtpInv
<1> SUFFICES ASSUME Init PROVE RtpInv
  OBVIOUS
<1>1. RtpAssumption
  BY RtpAssumption
<1>2. /\ MaxInFlight \in Nat /\ 0 \in 0..MaxExtra /\ MaxNalus \in Nat
  BY <1>1
<1>3. /\ packed \in Seq(Lengths) /\ Len(packed) = 0 /\ packed = <<>>
      /\ net \in Seq(Datagrams) /\ Len(net) = 0 /\ DOMAIN net = {}
      /\ assembly = <<>> /\ assembly \in Seq(AnyByte)
      /\ delivered \in Seq(AnyStarted) /\ delivered \in Seq(Seq(AnyByte) \ {<<>>})
  BY DEF Init
<1>4. TypeOK
  BY <1>2, <1>3 DEF Init, TypeOK
<1>5. FragmentsLong
  BY DEF Init, FragmentsLong
<1> QED
  BY <1>3, <1>4, <1>5 DEF RtpInv

\* What arrives starts rightly, whatever the network did to it, in every state.
THEOREM RtpInvariant == Spec => []RtpInv
<1>1. RtpInv /\ [Next]_vars => RtpInv'
  <2> SUFFICES ASSUME RtpInv, [Next]_vars PROVE RtpInv'
    OBVIOUS
  <2>1. CASE Sender
    BY <2>1, PackStep, SendFragmentStep DEF Sender
  <2>2. CASE Network
    BY <2>2, NetworkStep
  <2>3. CASE Receiver
    BY <2>3, ReceiverStep
  <2>4. CASE UNCHANGED vars
    <3>1. UNCHANGED packed
      BY <2>4 DEF vars
    <3>2. AnyStarted' = AnyStarted /\ Datagrams' = Datagrams
      BY <3>1, SameStarted DEF Datagrams
    <3> QED
      BY <2>4, <3>2 DEF vars, RtpInv, TypeOK, FragmentsLong
  <2> QED
    BY <2>1, <2>2, <2>3, <2>4 DEF Next
<1> QED
  BY RtpInit, <1>1, PTL DEF Spec

\* Every variable of the transport keeps its type: the fragment to send next is one
\* the NALU has, and nothing empty is delivered.
THEOREM RtpTypeCorrect == Spec => []TypeOK
BY RtpInvariant, PTL DEF RtpInv

LEMMA PrefixPointwise ==
  ASSUME NEW S, NEW s \in Seq(S), NEW t \in Seq(S), Len(s) <= Len(t),
         \A i \in 1..Len(s) : s[i] = t[i]
  PROVE  IsPrefix(s, t)
<1>1. SubSeq(s, 1, Len(s)) = [i \in 1..Len(s) |-> s[i]]
  OBVIOUS
<1>2. SubSeq(t, 1, Len(s)) = [i \in 1..Len(s) |-> t[i]]
  OBVIOUS
<1> QED
  BY <1>1, <1>2 DEF IsPrefix

\* Whatever a network loses, repeats, moves or makes up, and however often the receiver
\* restarts, rtp_parse delivers no NALU without its header and its first fragment.
THEOREM RtpDeliveredHasItsStart == Spec => []DeliveredHasItsStart
<1>1. RtpInv => DeliveredHasItsStart
  <2> SUFFICES ASSUME RtpInv, NEW d \in DOMAIN delivered
               PROVE  LET nalu == delivered[d]
                      IN /\ IsPrefix(FirstPart(nalu[1][1]), nalu)
                         /\ \A k \in 2..Len(nalu) : nalu[k][2] # 0
    BY DEF DeliveredHasItsStart, FirstPart
  <2> DEFINE nalu == delivered[d]
  <2>1. PICK n \in DOMAIN packed : nalu \in Started(n)
    <3>1. delivered \in Seq(AnyStarted)
      BY DEF RtpInv
    <3>2. nalu \in AnyStarted
      BY <3>1
    <3> QED
      BY <3>2 DEF AnyStarted
  <2> HIDE DEF nalu
  <2>2. /\ FirstPart(n) \in Seq(AnyByte)
        /\ Len(FirstPart(n)) \in Nat /\ Len(FirstPart(n)) >= 1
        /\ \A k \in 1..Len(FirstPart(n)) : FirstPart(n)[k] = <<n, k - 1>>
    BY FirstPartProperties, NumbersSent, RtpAssumption DEF RtpInv
  <2>3. /\ nalu \in Seq(AnyByte) /\ Len(FirstPart(n)) <= Len(nalu)
        /\ \A k \in 1..Len(FirstPart(n)) : nalu[k] = <<n, k - 1>>
        /\ \A k \in 2..Len(nalu) : nalu[k][2] # 0
    BY <2>1 DEF Started
  <2>4. nalu[1][1] = n
    BY <2>2, <2>3
  <2>5. IsPrefix(FirstPart(n), nalu)
    BY <2>2, <2>3, PrefixPointwise
  <2> QED
    BY <2>3, <2>4, <2>5 DEF nalu
<1> QED
  BY RtpInvariant, <1>1, PTL
-----------------------------------------------------------------------------
(* The buffer of the receiver over a network without faults.               *)

\* Fragment i of NALU n, and the bytes that it and those before it carry.
InNalu(n, i) ==
  /\ n \in DOMAIN packed /\ packed[n] > FragmentSize
  /\ i \in Nat /\ i < Count(packed[n])
Piece(n, i) == Fragment(n, packed[n], i)
PieceEnd(n, i) == Least((i + 1) * FragmentSize, packed[n] - 1)
Received(n, i) == Bytes(n, 0, i * FragmentSize)

\* In flight are NALUs and fragments of NALUs.
PiecesInFlight ==
  \A k \in DOMAIN net :
    \/ net[k].kind = "single"
    \/ \E n \in DOMAIN packed, i \in Nat : InNalu(n, i) /\ net[k] = Piece(n, i)

\* The fragment before another is in flight before it, or the last one received.
PiecesInOrder ==
  \A k \in DOMAIN net, n \in DOMAIN packed, i \in Nat :
    InNalu(n, i) /\ i # 0 /\ net[k] = Piece(n, i) =>
      IF k = 1 THEN assembly = Received(n, i) ELSE net[k - 1] = Piece(n, i - 1)

\* So is the one before the next to be sent.
LastPieceSent ==
  fragment > 0 =>
    IF net = <<>> THEN assembly = Received(Len(packed), fragment)
                  ELSE net[Len(net)] = Piece(Len(packed), fragment - 1)

PartHeld ==
  assembly # <<>> =>
    \E n \in DOMAIN packed, m \in Nat : m < packed[n] /\ assembly = Bytes(n, 0, m)

LinkInv == open /\ PiecesInFlight /\ PiecesInOrder /\ LastPieceSent /\ PartHeld

FaultlessInv == RtpInv /\ (faults = {} => LinkInv)
-----------------------------------------------------------------------------
LEMMA TimesMonotonic ==
  ASSUME NEW F \in Nat, NEW a \in Nat, NEW b \in Nat, a <= b
  PROVE  a * F \in Nat /\ b * F \in Nat /\ a * F <= b * F
<1>1. b - a \in Nat /\ (b - a) * F >= 0 /\ (b - a) * F = b * F - a * F
  OBVIOUS
<1>2. a * F \in Nat /\ b * F \in Nat
  OBVIOUS
<1> QED
  BY <1>1, <1>2

\* Where fragment i begins and ends.
LEMMA PieceFits ==
  ASSUME TypeOK, NEW n, NEW i, InNalu(n, i)
  PROVE  /\ i * FragmentSize \in Nat /\ i * FragmentSize + 1 <= PieceEnd(n, i)
         /\ PieceEnd(n, i) \in Nat /\ PieceEnd(n, i) < packed[n]
         /\ i + 1 < Count(packed[n]) => PieceEnd(n, i) = (i + 1) * FragmentSize
         /\ i \in Nat /\ n \in 0..MaxNalus /\ n # 0
<1> DEFINE F == FragmentSize
           len == packed[n]
           c == Count(len)
<1>1. len \in Nat \ {0} /\ n \in 0..MaxNalus /\ n # 0 /\ F \in Nat \ {0} /\ i \in Nat /\ i < c
  BY NumbersSent, RtpAssumption DEF InNalu
<1>2. c \in Nat
  BY <1>1, CountProperties
<1>3. c * F <= len - 1 + F - 1
  <2>1. len - 1 + F - 1 \in Nat
    BY <1>1
  <2>2. \A a \in Nat : (a \div F) * F <= a
    BY <1>1
  <2> QED
    BY <2>1, <2>2 DEF Count
<1>4. ASSUME NEW j \in Nat, j < c
      PROVE  j * F \in Nat /\ (j + 1) * F = j * F + F /\ j * F + 1 <= len - 1
  <2> HIDE DEF c, F, len
  <2>1. j + 1 \in Nat /\ j + 1 <= c
    BY <1>2, <1>4
  <2>2. (j + 1) * F <= c * F /\ (j + 1) * F \in Nat /\ c * F \in Nat
    BY <1>1, <1>2, <2>1, TimesMonotonic
  <2>3. (j + 1) * F = j * F + F /\ j * F \in Nat
    BY <1>1
  <2> QED
    BY <1>1, <1>3, <2>2, <2>3
<1>5. i * F \in Nat /\ (i + 1) * F = i * F + F /\ i * F + 1 <= len - 1
  BY <1>1, <1>4
<1>6. i + 1 < c => (i + 1) * F + 1 <= len - 1
  BY <1>1, <1>4
<1> HIDE DEF c, F, len
<1>7. /\ i * F + 1 <= Least((i + 1) * F, len - 1)
      /\ Least((i + 1) * F, len - 1) \in Nat /\ Least((i + 1) * F, len - 1) < len
      /\ i + 1 < c => Least((i + 1) * F, len - 1) = (i + 1) * F
  BY <1>1, <1>5, <1>6 DEF Least
<1> QED
  BY <1>1, <1>5, <1>7 DEF PieceEnd, F, len, c

\* No two fragments are the same packet.
LEMMA PiecesDiffer ==
  ASSUME TypeOK, NEW n, NEW i, NEW m, NEW j, InNalu(n, i), InNalu(m, j),
         Piece(n, i) = Piece(m, j)
  PROVE  n = m /\ i = j
<1> DEFINE F == FragmentSize
<1>1. /\ i \in Nat /\ i * F \in Nat /\ i * F + 1 <= PieceEnd(n, i) /\ PieceEnd(n, i) \in Nat
      /\ j \in Nat /\ j * F \in Nat /\ j * F + 1 <= PieceEnd(m, j) /\ PieceEnd(m, j) \in Nat
      /\ n \in 0..MaxNalus /\ m \in 0..MaxNalus /\ F \in Nat \ {0}
  BY PieceFits, RtpAssumption
<1>2. n = m
  BY DEF Piece, Fragment
<1>3. Bytes(n, i * F + 1, PieceEnd(n, i)) = Bytes(m, j * F + 1, PieceEnd(m, j))
  BY DEF Piece, Fragment, PieceEnd
<1>4. ASSUME NEW a \in Nat, NEW b \in Nat, a + 1 <= b
      PROVE  Bytes(n, a + 1, b)[1] = <<n, a + 1>>
  BY <1>4 DEF Bytes
<1>5. <<n, i * F + 1>> = <<m, j * F + 1>>
  BY <1>1, <1>2, <1>3, <1>4
<1>6. i * F = j * F
  BY <1>1, <1>5
<1>7. ASSUME NEW a \in Nat, NEW b \in Nat, a < b, a * F = b * F
      PROVE  FALSE
  <2> HIDE DEF F
  <2>1. a + 1 \in Nat /\ a + 1 <= b
    BY <1>7
  <2>2. (a + 1) * F <= b * F
    BY <1>1, <2>1, TimesMonotonic
  <2>3. (a + 1) * F = a * F + F /\ a * F \in Nat
    BY <1>1
  <2> QED
    BY <1>1, <1>7, <2>2, <2>3
<1>8. i = j
  <2>1. i < j \/ j < i \/ i = j
    BY <1>1
  <2> QED
    BY <1>1, <1>6, <1>7, <2>1
<1> QED
  BY <1>2, <1>8

LEMMA BytesJoin ==
  ASSUME NEW n \in 0..MaxNalus, NEW a \in Nat, NEW b \in Nat, a <= b
  PROVE  Bytes(n, 0, a) \o Bytes(n, a + 1, b) = Bytes(n, 0, b)
<1> DEFINE x == Bytes(n, 0, a)
           y == Bytes(n, a + 1, b)
           z == Bytes(n, 0, b)
<1>1. x \in Seq(AnyByte) /\ Len(x) = a + 1 /\ \A k \in 1..(a + 1) : x[k] = <<n, k - 1>>
  <2>1. 0 \in Nat /\ a \in Int
    OBVIOUS
  <2>2. /\ x \in Seq(AnyByte)
        /\ a - (0) + 1 >= 0 => Len(x) = a - (0) + 1
        /\ \A k \in 1..(a - (0) + 1) : x[k] = <<n, 0 + k - 1>>
    BY <2>1, BytesProperties, Zenon
  <2> HIDE DEF x, y, z
  <2>3. a - (0) + 1 = a + 1 /\ a - (0) + 1 >= 0
    OBVIOUS
  <2>4. ASSUME NEW k \in 1..(a + 1) PROVE x[k] = <<n, k - 1>>
    <3>1. k \in 1..(a - (0) + 1)
      BY <2>3
    <3>2. x[k] = <<n, 0 + k - 1>>
      BY <2>2, <3>1, Zenon
    <3>3. 0 + k - 1 = k - 1
      OBVIOUS
    <3> QED
      BY <3>2, <3>3
  <2> QED
    BY <2>2, <2>3, <2>4
<1>2. y \in Seq(AnyByte) /\ Len(y) = b - a /\ \A k \in 1..(b - a) : y[k] = <<n, a + k>>
  <2>1. a + 1 \in Nat /\ b \in Int
    OBVIOUS
  <2>2. /\ y \in Seq(AnyByte)
        /\ b - (a + 1) + 1 >= 0 => Len(y) = b - (a + 1) + 1
        /\ \A k \in 1..(b - (a + 1) + 1) : y[k] = <<n, a + 1 + k - 1>>
    BY <2>1, BytesProperties, Zenon
  <2> HIDE DEF x, y, z
  <2>3. b - (a + 1) + 1 = b - a /\ b - (a + 1) + 1 >= 0
    OBVIOUS
  <2>4. ASSUME NEW k \in 1..(b - a) PROVE y[k] = <<n, a + k>>
    <3>1. k \in 1..(b - (a + 1) + 1)
      BY <2>3
    <3>2. y[k] = <<n, a + 1 + k - 1>>
      BY <2>2, <3>1, Zenon
    <3>3. a + 1 + k - 1 = a + k
      OBVIOUS
    <3> QED
      BY <3>2, <3>3
  <2> QED
    BY <2>2, <2>3, <2>4
<1>3. z \in Seq(AnyByte) /\ Len(z) = b + 1 /\ \A k \in 1..(b + 1) : z[k] = <<n, k - 1>>
  <2>1. 0 \in Nat /\ b \in Int
    OBVIOUS
  <2>2. /\ z \in Seq(AnyByte)
        /\ b - (0) + 1 >= 0 => Len(z) = b - (0) + 1
        /\ \A k \in 1..(b - (0) + 1) : z[k] = <<n, 0 + k - 1>>
    BY <2>1, BytesProperties, Zenon
  <2> HIDE DEF x, y, z
  <2>3. b - (0) + 1 = b + 1 /\ b - (0) + 1 >= 0
    OBVIOUS
  <2>4. ASSUME NEW k \in 1..(b + 1) PROVE z[k] = <<n, k - 1>>
    <3>1. k \in 1..(b - (0) + 1)
      BY <2>3
    <3>2. z[k] = <<n, 0 + k - 1>>
      BY <2>2, <3>1, Zenon
    <3>3. 0 + k - 1 = k - 1
      OBVIOUS
    <3> QED
      BY <3>2, <3>3
  <2> QED
    BY <2>2, <2>3, <2>4
<1> HIDE DEF x, y, z
<1> DEFINE w == x \o y
<1>4. /\ w \in Seq(AnyByte)
      /\ Len(w) = Len(x) + Len(y)
      /\ \A k \in 1..(Len(x) + Len(y)) :
           w[k] = IF k <= Len(x) THEN x[k] ELSE y[k - Len(x)]
  BY <1>1, <1>2, ConcatProperties, Zenon
<1> HIDE DEF w
<1>5. /\ Len(w) = b + 1
      /\ \A k \in 1..(b + 1) : w[k] = IF k <= a + 1 THEN x[k] ELSE y[k - (a + 1)]
  <2>1. Len(x) + Len(y) = b + 1 /\ Len(x) = a + 1
    BY <1>1, <1>2
  <2> QED
    BY <1>4, <2>1
<1>6. ASSUME NEW k \in 1..(b + 1) PROVE w[k] = z[k]
  <2>1. CASE k <= a + 1
    <3>1. k \in 1..(a + 1)
      BY <2>1
    <3> QED
      BY <1>1, <1>3, <1>5, <2>1, <3>1
  <2>2. CASE ~(k <= a + 1)
    <3>1. k - (a + 1) \in 1..(b - a) /\ a + (k - (a + 1)) = k - 1
      BY <2>2
    <3> QED
      BY <1>2, <1>3, <1>5, <2>2, <3>1
  <2> QED
    BY <2>1, <2>2
<1>7. w = z
  BY <1>3, <1>4, <1>5, <1>6, SeqEqual
<1> QED
  BY <1>7 DEF x, y, z, w

\* Fragment i parsed after those before it.
LEMMA PieceParsed ==
  ASSUME TypeOK, NEW n, NEW i, InNalu(n, i), Parse(Piece(n, i)),
         i # 0 => assembly = Received(n, i)
  PROVE  assembly' = IF i # 0 /\ i = Count(packed[n]) - 1 THEN <<>> ELSE Bytes(n, 0, PieceEnd(n, i))
<1> DEFINE a == i * FragmentSize
           b == PieceEnd(n, i)
           p == Piece(n, i)
<1>1. a \in Nat /\ a + 1 <= b /\ b \in Nat /\ i \in Nat /\ n \in 0..MaxNalus
  BY PieceFits
<1>2. /\ p.kind = "FU_A" /\ p.nalu = n /\ p.body = Bytes(n, a + 1, b)
      /\ p.start = (i = 0) /\ p.end = (i # 0 /\ i = Count(packed[n]) - 1)
  BY DEF Piece, Fragment, PieceEnd
<1>3. Bytes(n, 0, a) \o p.body = Bytes(n, 0, b)
  <2>1. a <= b
    BY <1>1
  <2> HIDE DEF a, b, p
  <2> QED
    BY <1>1, <1>2, <2>1, BytesJoin
<1> HIDE DEF b, p
<1>4. Parse(p)
  BY DEF p
<1>5. CASE i = 0
  <2>1. Bytes(n, 0, a) = <<<<n, 0>>>>
    <3>1. a = 0
      BY <1>5, RtpAssumption
    <3> HIDE DEF a
    <3> QED
      BY <3>1 DEF Bytes
  <2>2. p.start /\ ~p.end
    BY <1>2, <1>5
  <2>3. assembly' = <<<<n, 0>>>> \o p.body
    BY <1>2, <1>4, <2>2 DEF Parse, Keeps
  <2> QED
    BY <1>3, <1>5, <2>1, <2>3 DEF b
<1>6. CASE i # 0
  <2>1. assembly = Bytes(n, 0, a)
    BY <1>6 DEF Received
  <2>2. assembly # <<>>
    <3> HIDE DEF a
    <3>1. Len(assembly) = a - 0 + 1
      BY <1>1, <2>1, BytesProperties
    <3> QED
      BY <1>1, <3>1
  <2>3. ~p.start
    BY <1>2, <1>6
  <2>4. assembly' = IF p.end THEN <<>> ELSE assembly \o p.body
    BY <1>2, <1>4, <2>2, <2>3 DEF Parse, Keeps, Delivers
  <2> HIDE DEF a
  <2> QED
    BY <1>2, <1>3, <1>6, <2>1, <2>4 DEF b
<1> QED
  BY <1>5, <1>6
-----------------------------------------------------------------------------
(* The steps of a faultless network.                                       *)

\* NALUs sent stay what they are when another is sent.
LEMMA PackKeepsPieces ==
  ASSUME TypeOK, NEW len \in Lengths, packed' = Append(packed, len)
  PROVE  /\ \A n \in DOMAIN packed :
              /\ n \in DOMAIN packed' /\ packed'[n] = packed[n] /\ n # Len(packed) + 1
              /\ \A i \in Nat : Piece(n, i)' = Piece(n, i) /\ (InNalu(n, i)' <=> InNalu(n, i))
         /\ \A n \in DOMAIN packed' : n \in DOMAIN packed \/ (n = Len(packed) + 1 /\ packed'[n] = len)
<1>1. packed \in Seq(Lengths) /\ Len(packed) \in Nat /\ DOMAIN packed = 1..Len(packed)
  BY DEF TypeOK
<1>2. /\ DOMAIN packed' = 1..(Len(packed) + 1)
      /\ \A n \in 1..Len(packed) : packed'[n] = packed[n]
      /\ packed'[Len(packed) + 1] = len
  BY <1>1, AppendProperties
<1>3. \A n \in DOMAIN packed : n \in DOMAIN packed' /\ packed'[n] = packed[n] /\ n # Len(packed) + 1
  BY <1>1, <1>2
<1>4. ASSUME NEW n \in DOMAIN packed, NEW i \in Nat
      PROVE  Piece(n, i)' = Piece(n, i) /\ (InNalu(n, i)' <=> InNalu(n, i))
  BY <1>3 DEF Piece, InNalu
<1>5. \A n \in DOMAIN packed' : n \in DOMAIN packed \/ (n = Len(packed) + 1 /\ packed'[n] = len)
  BY <1>1, <1>2
<1> QED
  BY <1>3, <1>4, <1>5

\* What is in flight is of NALUs sent.
LEMMA InFlight ==
  ASSUME RtpInv, PiecesInFlight, NEW k \in DOMAIN net, net[k].kind # "single"
  PROVE  \E n \in DOMAIN packed, i \in Nat :
           InNalu(n, i) /\ net[k] = Piece(n, i) /\ net[k].nalu = n
BY DEF PiecesInFlight, Piece, Fragment

LEMMA NetLength ==
  ASSUME RtpInv
  PROVE  net \in Seq(Datagrams) /\ Len(net) \in Nat /\ DOMAIN net = 1..Len(net)
BY DEF RtpInv

LEMMA PackLink ==
  ASSUME RtpInv, LinkInv, NEW len \in Lengths, PackSingle(len) \/ PackFragmented(len)
  PROVE  LinkInv'
<1> USE DEF LinkInv
<1>1. /\ TypeOK /\ packed' = Append(packed, len) /\ fragment' \in {-1, 0}
      /\ UNCHANGED <<open, assembly>>
  BY DEF RtpInv, PackSingle, PackFragmented
<1>2. /\ \A n \in DOMAIN packed :
           /\ n \in DOMAIN packed' /\ packed'[n] = packed[n] /\ n # Len(packed) + 1
           /\ \A i \in Nat : Piece(n, i)' = Piece(n, i) /\ (InNalu(n, i)' <=> InNalu(n, i))
      /\ \A n \in DOMAIN packed' : n \in DOMAIN packed \/ (n = Len(packed) + 1 /\ packed'[n] = len)
  BY <1>1, PackKeepsPieces
<1>3. LastPieceSent' /\ open'
  BY <1>1 DEF LastPieceSent
<1>4. PartHeld'
  BY <1>1, <1>2 DEF PartHeld
<1>5. CASE PackSingle(len)
  <2> DEFINE p == Single(Len(packed'), len)
  <2>1. net' = Append(net, p) /\ len <= FragmentSize /\ p.kind = "single"
    BY <1>5 DEF PackSingle, SendTo, Single
  <2> HIDE DEF p
  <2>2. /\ Len(net) \in Nat /\ DOMAIN net = 1..Len(net) /\ DOMAIN net' = 1..(Len(net) + 1)
        /\ \A k \in 1..Len(net) : net'[k] = net[k]
        /\ net'[Len(net) + 1] = p
    <3>1. net \in Seq(Datagrams) /\ Len(net) \in Nat /\ DOMAIN net = 1..Len(net)
      BY NetLength
    <3>2. net \in Seq(Datagrams \cup {p}) /\ p \in Datagrams \cup {p}
      BY <3>1, SeqMonotonic
    <3> QED
      BY <2>1, <3>1, <3>2, AppendProperties
  <2>3. \A n \in DOMAIN packed', i \in Nat : InNalu(n, i)' => n \in DOMAIN packed
    <3>1. len \in Nat /\ FragmentSize \in Nat
      BY RtpAssumption
    <3>2. ~(len > FragmentSize)
      BY <2>1, <3>1
    <3> QED
      BY <1>2, <3>2 DEF InNalu
  <2>4. PiecesInFlight'
    <3> SUFFICES ASSUME NEW k \in DOMAIN net'
                 PROVE  \/ net'[k].kind = "single"
                        \/ \E n \in DOMAIN packed', i \in Nat : InNalu(n, i)' /\ net'[k] = Piece(n, i)'
      BY DEF PiecesInFlight
    <3>1. CASE k = Len(net) + 1
      BY <2>1, <2>2, <3>1
    <3>2. CASE k \in DOMAIN net
      BY <1>2, <2>2, <3>2 DEF PiecesInFlight
    <3> QED
      BY <2>2, <3>1, <3>2
  <2>5. PiecesInOrder'
    <3> SUFFICES ASSUME NEW k \in DOMAIN net', NEW n \in DOMAIN packed', NEW i \in Nat,
                        InNalu(n, i)', i # 0, net'[k] = Piece(n, i)'
                 PROVE  IF k = 1 THEN assembly' = Received(n, i)
                                 ELSE net'[k - 1] = Piece(n, i - 1)'
      BY DEF PiecesInOrder, Received
    <3>1. n \in DOMAIN packed /\ InNalu(n, i) /\ net'[k] = Piece(n, i)
      BY <1>2, <2>3
    <3>2. k # Len(net) + 1
      BY <2>1, <2>2, <3>1 DEF Piece, Fragment
    <3>3. k \in DOMAIN net /\ net'[k] = net[k]
      BY <2>2, <3>2
    <3>4. IF k = 1 THEN assembly = Received(n, i) ELSE net[k - 1] = Piece(n, i - 1)
      <4>1. net[k] = Piece(n, i)
        BY <3>1, <3>3
      <4> QED
        BY <3>1, <3>3, <4>1, Zenon DEF PiecesInOrder
    <3>5. i - 1 \in Nat /\ Piece(n, i - 1)' = Piece(n, i - 1)
      BY <1>2, <3>1
    <3>6. k # 1 => net'[k - 1] = net[k - 1]
      BY <2>2, <3>3
    <3> QED
      BY <1>1, <3>4, <3>5, <3>6
  <2> QED
    BY <1>3, <1>4, <2>4, <2>5
<1>6. CASE PackFragmented(len)
  <2>1. net' = net
    BY <1>6 DEF PackFragmented
  <2>2. PiecesInFlight'
    BY <1>2, <2>1 DEF PiecesInFlight
  <2>3. PiecesInOrder'
    <3> SUFFICES ASSUME NEW k \in DOMAIN net, NEW n \in DOMAIN packed', NEW i \in Nat,
                        InNalu(n, i)', i # 0, net[k] = Piece(n, i)'
                 PROVE  IF k = 1 THEN assembly = Received(n, i)
                                 ELSE net[k - 1] = Piece(n, i - 1)'
      BY <1>1, <2>1 DEF PiecesInOrder, Received
    <3>1. net[k].kind # "single" /\ net[k].nalu = n
      BY DEF Piece, Fragment
    <3>2. n \in DOMAIN packed
      BY <3>1, InFlight
    <3>3. InNalu(n, i) /\ net[k] = Piece(n, i) /\ i - 1 \in Nat /\ Piece(n, i - 1)' = Piece(n, i - 1)
      BY <1>2, <3>2
    <3> QED
      BY <3>2, <3>3 DEF PiecesInOrder
  <2> QED
    BY <1>3, <1>4, <2>2, <2>3
<1> QED
  BY <1>5, <1>6

LEMMA SendLink ==
  ASSUME RtpInv, LinkInv, SendFragment
  PROVE  LinkInv'
<1> USE DEF LinkInv
<1> DEFINE n == Len(packed)
           f == fragment
           p == Piece(n, f)
<1>1. /\ TypeOK /\ FragmentsLong /\ fragment # -1
      /\ UNCHANGED <<packed, open, assembly>> /\ SendTo(p)
      /\ fragment' \in {-1, fragment + 1}
  BY DEF RtpInv, SendFragment, Piece
<1>2. /\ n \in DOMAIN packed /\ packed[n] > FragmentSize /\ Last(packed) = packed[n]
      /\ packed # <<>>
  BY <1>1 DEF FragmentsLong, Last, TypeOK
<1>3. InNalu(n, f) /\ f \in Nat
  <2>1. Count(packed[n]) \in Nat
    BY <1>1, <1>2, NumbersSent, CountProperties
  <2> QED
    BY <1>1, <1>2, <2>1 DEF TypeOK, InNalu
<1> HIDE DEF p
<1>4. net' = Append(net, p)
  BY <1>1 DEF SendTo
<1>5. /\ Len(net) \in Nat /\ DOMAIN net = 1..Len(net) /\ DOMAIN net' = 1..(Len(net) + 1)
      /\ \A k \in 1..Len(net) : net'[k] = net[k]
      /\ net'[Len(net) + 1] = p /\ Len(net') = Len(net) + 1
      /\ net = <<>> => Len(net) = 0
  <2>1. net \in Seq(Datagrams) /\ Len(net) \in Nat /\ DOMAIN net = 1..Len(net)
    BY NetLength
  <2>2. net \in Seq(Datagrams \cup {p}) /\ p \in Datagrams \cup {p}
    BY <2>1, SeqMonotonic
  <2> QED
    BY <1>4, <2>1, <2>2, AppendProperties
<1>6. \A m, i : /\ InNalu(m, i)' <=> InNalu(m, i)
                /\ Piece(m, i)' = Piece(m, i)
  BY <1>1 DEF InNalu, Piece
<1>7. PiecesInFlight'
  <2> SUFFICES ASSUME NEW k \in DOMAIN net'
               PROVE  \/ net'[k].kind = "single"
                      \/ \E m \in DOMAIN packed, i \in Nat : InNalu(m, i) /\ net'[k] = Piece(m, i)
    BY <1>1, <1>6 DEF PiecesInFlight
  <2>1. CASE k = Len(net) + 1
    BY <1>2, <1>3, <1>5, <2>1 DEF p
  <2>2. CASE k \in DOMAIN net
    BY <1>5, <2>2 DEF PiecesInFlight
  <2> QED
    BY <1>5, <2>1, <2>2
<1>8. f # 0 => IF net = <<>> THEN assembly = Received(n, f)
                             ELSE net[Len(net)] = Piece(n, f - 1)
  BY <1>3 DEF LastPieceSent
<1>9. PiecesInOrder'
  <2> SUFFICES ASSUME NEW k \in DOMAIN net', NEW m \in DOMAIN packed, NEW i \in Nat,
                      InNalu(m, i), i # 0, net'[k] = Piece(m, i)
               PROVE  IF k = 1 THEN assembly = Received(m, i)
                               ELSE net'[k - 1] = Piece(m, i - 1)
    BY <1>1, <1>6 DEF PiecesInOrder, Received
  <2>1. CASE k = Len(net) + 1
    <3>1. m = n /\ i = f
      BY <1>1, <1>3, <1>5, <2>1, PiecesDiffer DEF p
    <3>2. CASE k = 1
      <4>1. net = <<>>
        BY <1>5, <2>1, <3>2, NetLength
      <4> QED
        BY <1>8, <3>1, <3>2, <4>1
    <3>3. CASE k # 1
      <4>1. net # <<>> /\ net'[k - 1] = net[Len(net)]
        BY <1>5, <2>1, <3>3
      <4> QED
        BY <1>8, <3>1, <3>3, <4>1
    <3> QED
      BY <3>2, <3>3
  <2>2. CASE k \in DOMAIN net
    <3>1. net[k] = Piece(m, i)
      BY <1>5, <2>2
    <3>2. IF k = 1 THEN assembly = Received(m, i) ELSE net[k - 1] = Piece(m, i - 1)
      BY <2>2, <3>1, Zenon DEF PiecesInOrder
    <3>3. k # 1 => net'[k - 1] = net[k - 1]
      BY <1>5, <2>2
    <3> QED
      BY <3>2, <3>3
  <2> QED
    BY <1>5, <2>1, <2>2
<1>10. LastPieceSent'
  <2> SUFFICES ASSUME fragment' > 0
               PROVE  net' # <<>> /\ net'[Len(net')] = Piece(n, fragment' - 1)
    BY <1>1, <1>6 DEF LastPieceSent
  <2>1. fragment' - 1 = f
    <3>1. fragment \in Nat /\ (fragment' = -1 \/ fragment' = fragment + 1)
      BY <1>1, <1>3
    <3> QED
      BY <3>1
  <2> QED
    BY <1>5, <2>1 DEF p
<1>11. PartHeld' /\ open'
  BY <1>1 DEF PartHeld
<1> QED
  BY <1>7, <1>9, <1>10, <1>11

\* What is left of a sequence without its first element.
LEMMA FirstRemoved ==
  ASSUME NEW S, NEW s \in Seq(S), 1 \in DOMAIN s
  PROVE  /\ Len(RemoveAt(s, 1)) = Len(s) - 1
         /\ DOMAIN RemoveAt(s, 1) = 1..(Len(s) - 1)
         /\ \A k \in 1..(Len(s) - 1) : RemoveAt(s, 1)[k] = s[k + 1]
<1>1. Len(s) \in Nat \ {0} /\ 1 \in 1..Len(s) /\ \A k \in 1..(Len(s) - 1) : ~(k < 1)
  OBVIOUS
<1> QED
  BY <1>1, RemoveKeeps, RemovePlaces

\* What the buffer holds once the fragment before fragment i has been parsed.
LEMMA NextExpected ==
  ASSUME RtpInv, LinkInv, 1 \in DOMAIN net, Parse(net[1]),
         NEW n \in DOMAIN packed, NEW i \in Nat, i # 0, InNalu(n, i), net[1] = Piece(n, i - 1)
  PROVE  assembly' = Received(n, i)
<1> DEFINE j == i - 1
<1>1. TypeOK /\ PiecesInOrder
  BY DEF RtpInv, LinkInv
<1>2. j \in Nat /\ j + 1 = i /\ Count(packed[n]) \in Nat
  BY <1>1, NumbersSent, CountProperties
<1>3. InNalu(n, j)
  BY <1>2 DEF InNalu
<1> HIDE DEF j
<1>4. net[1] = Piece(n, j) /\ Parse(Piece(n, j))
  BY DEF j
<1>5. j # 0 => assembly = Received(n, j)
  BY <1>1, <1>2, <1>3, <1>4 DEF PiecesInOrder
<1>6. j + 1 < Count(packed[n])
  BY <1>2 DEF InNalu
<1>7. assembly' = Bytes(n, 0, PieceEnd(n, j))
  <2>1. ~(j # 0 /\ j = Count(packed[n]) - 1)
    BY <1>2, <1>6
  <2> QED
    BY <1>1, <1>3, <1>4, <1>5, <2>1, PieceParsed
<1>8. PieceEnd(n, j) = i * FragmentSize
  BY <1>1, <1>2, <1>3, <1>6, PieceFits
<1> QED
  BY <1>7, <1>8 DEF Received

LEMMA ReceiveLink ==
  ASSUME RtpInv, LinkInv, 1 \in DOMAIN net, Receive(1)
  PROVE  LinkInv'
<1> USE DEF LinkInv
<1>1. /\ TypeOK /\ FragmentsLong /\ Parse(net[1]) /\ net' = RemoveAt(net, 1)
      /\ UNCHANGED <<packed, fragment, open>>
  BY DEF RtpInv, Receive
<1>2. /\ Len(net) \in Nat /\ DOMAIN net = 1..Len(net) /\ Len(net') = Len(net) - 1
      /\ DOMAIN net' = 1..(Len(net) - 1)
      /\ \A k \in 1..(Len(net) - 1) : net'[k] = net[k + 1]
      /\ net' = <<>> => Len(net) = 1
  <2>1. /\ net \in Seq(Datagrams) /\ Len(net) \in Nat /\ DOMAIN net = 1..Len(net)
        /\ net' \in Seq(Datagrams)
    BY <1>1, NetLength, RemoveKeeps
  <2>2. /\ Len(net') = Len(net) - 1 /\ DOMAIN net' = 1..(Len(net) - 1)
        /\ \A k \in 1..(Len(net) - 1) : net'[k] = net[k + 1]
    BY <1>1, <2>1, FirstRemoved
  <2>3. net' = <<>> => Len(net') = 0
    OBVIOUS
  <2> QED
    BY <2>1, <2>2, <2>3
<1>3. \A m, i : /\ InNalu(m, i)' <=> InNalu(m, i)
                /\ Piece(m, i)' = Piece(m, i)
  BY <1>1 DEF InNalu, Piece
<1>4. PiecesInFlight'
  <2> SUFFICES ASSUME NEW k \in DOMAIN net'
               PROVE  \/ net'[k].kind = "single"
                      \/ \E m \in DOMAIN packed, i \in Nat : InNalu(m, i) /\ net'[k] = Piece(m, i)
    BY <1>1, <1>3 DEF PiecesInFlight
  <2>1. k + 1 \in DOMAIN net /\ net'[k] = net[k + 1]
    BY <1>2
  <2> QED
    BY <2>1 DEF PiecesInFlight
<1>5. PiecesInOrder'
  <2> SUFFICES ASSUME NEW k \in DOMAIN net', NEW n \in DOMAIN packed, NEW i \in Nat,
                      InNalu(n, i), i # 0, net'[k] = Piece(n, i)
               PROVE  IF k = 1 THEN assembly' = Received(n, i)
                               ELSE net'[k - 1] = Piece(n, i - 1)
    BY <1>1, <1>3 DEF PiecesInOrder, Received
  <2>1. /\ k + 1 \in DOMAIN net /\ net[k + 1] = Piece(n, i) /\ k + 1 # 1 /\ (k + 1) - 1 = k
        /\ k # 1 => net'[k - 1] = net[k]
    BY <1>2
  <2>2. net[k] = Piece(n, i - 1)
    <3>1. net[(k + 1) - 1] = Piece(n, i - 1)
      BY <2>1 DEF PiecesInOrder
    <3> QED
      BY <2>1, <3>1
  <2>3. CASE k = 1
    BY <1>1, <2>2, <2>3, NextExpected
  <2>4. CASE k # 1
    BY <2>1, <2>2, <2>4
  <2> QED
    BY <2>3, <2>4
<1>6. LastPieceSent'
  <2> DEFINE n == Len(packed)
  <2> SUFFICES ASSUME fragment > 0
               PROVE  IF net' = <<>> THEN assembly' = Received(n, fragment)
                                     ELSE net'[Len(net')] = Piece(n, fragment - 1)
    BY <1>1, <1>3 DEF LastPieceSent, Received
  <2>1. net # <<>> /\ net[Len(net)] = Piece(n, fragment - 1)
    <3>1. net # <<>>
      OBVIOUS
    <3> QED
      BY <3>1 DEF LastPieceSent
  <2>2. /\ n \in DOMAIN packed /\ packed[n] > FragmentSize /\ Last(packed) = packed[n]
        /\ packed # <<>> /\ fragment \in Int
    BY <1>1 DEF FragmentsLong, Last, TypeOK
  <2>3. InNalu(n, fragment) /\ fragment \in Nat /\ fragment # 0
    <3>1. Count(packed[n]) \in Nat
      BY <1>1, <2>2, NumbersSent, CountProperties
    <3> QED
      BY <1>1, <2>2, <3>1 DEF TypeOK, InNalu
  <2>4. CASE net' = <<>>
    <3>1. net[1] = Piece(n, fragment - 1)
      BY <1>2, <2>1, <2>4
    <3> QED
      BY <1>1, <2>2, <2>3, <2>4, <3>1, NextExpected
  <2>5. CASE net' # <<>>
    <3>1. Len(net') \in 1..(Len(net) - 1) /\ Len(net') + 1 = Len(net)
      <4>1. Len(net') # 0
        BY <1>1, <1>2, <2>5, NetLength, RemoveKeeps
      <4> QED
        BY <1>2, <4>1
    <3> QED
      BY <1>2, <2>1, <2>5, <3>1
  <2> QED
    BY <2>4, <2>5
<1>7. PartHeld'
  <2> SUFFICES ASSUME assembly' # <<>>
               PROVE  \E n \in DOMAIN packed, m \in Nat : m < packed[n] /\ assembly' = Bytes(n, 0, m)
    BY <1>1 DEF PartHeld
  <2>1. CASE net[1].kind = "single"
    BY <1>1, <2>1 DEF Parse, Delivers
  <2>2. CASE net[1].kind # "single"
    <3>1. PICK n \in DOMAIN packed, i \in Nat : InNalu(n, i) /\ net[1] = Piece(n, i)
      BY <2>2, InFlight
    <3>2. i # 0 => assembly = Received(n, i)
      BY <3>1 DEF PiecesInOrder
    <3>3. assembly' = Bytes(n, 0, PieceEnd(n, i))
      BY <1>1, <3>1, <3>2, PieceParsed
    <3>4. PieceEnd(n, i) \in Nat /\ PieceEnd(n, i) < packed[n]
      BY <1>1, <3>1, PieceFits
    <3> QED
      BY <3>1, <3>3, <3>4
  <2> QED
    BY <2>1, <2>2
<1> QED
  BY <1>1, <1>4, <1>5, <1>6, <1>7

\* The only steps of a network without faults.
LEMMA FaultlessMoves ==
  ASSUME LinkInv, faults = {}, [Next]_vars
  PROVE  \/ \E len \in Lengths : PackSingle(len) \/ PackFragmented(len)
         \/ SendFragment
         \/ 1 \in DOMAIN net /\ Receive(1)
         \/ UNCHANGED vars
<1>1. CASE Network
  BY <1>1 DEF Network, Lose, Duplicate, ForeignSends
<1>2. CASE Receiver
  <2>1. ~Stop /\ ~Start
    BY DEF LinkInv, Stop, Start
  <2>2. PICK i \in DOMAIN net : Receive(i)
    BY <1>2, <2>1 DEF Receiver
  <2>3. i = 1
    BY <2>2 DEF Receive
  <2> QED
    BY <2>2, <2>3
<1> QED
  BY <1>1, <1>2 DEF Next, Sender

LEMMA FaultlessStep ==
  ASSUME FaultlessInv, RtpInv', [Next]_vars
  PROVE  FaultlessInv'
<1> SUFFICES ASSUME faults' = {} PROVE LinkInv'
  BY DEF FaultlessInv
<1>1. RtpInv /\ TypeOK /\ faults = faults'
  BY DEF FaultlessInv, RtpInv, vars, Next, Sender, PackSingle, PackFragmented, SendFragment,
         Network, Lose, Duplicate, ForeignSends, Receiver, Receive, Stop, Start
<1>2. LinkInv /\ faults = {}
  BY <1>1 DEF FaultlessInv
<1>3. CASE UNCHANGED vars
  <2>1. UNCHANGED <<packed, fragment, net, open, assembly>>
    BY <1>3 DEF vars
  <2>2. \A n, i : (InNalu(n, i)' <=> InNalu(n, i)) /\ Piece(n, i)' = Piece(n, i)
    BY <2>1 DEF InNalu, Piece
  <2> QED
    BY <1>2, <2>1, <2>2
    DEF LinkInv, PiecesInFlight, PiecesInOrder, LastPieceSent, PartHeld, Received
<1> QED
  BY <1>1, <1>2, <1>3, FaultlessMoves, PackLink, SendLink, ReceiveLink

\* Between faultless ends fragments arrive in their order, each on those before it.
THEOREM RtpFaultless == Spec => []FaultlessInv
<1>1. Init => FaultlessInv
  <2>1. Init => LinkInv
    BY DEF Init, LinkInv, PiecesInFlight, PiecesInOrder, LastPieceSent, PartHeld
  <2> QED
    BY <2>1, RtpInit DEF FaultlessInv
<1>2. FaultlessInv /\ RtpInv' /\ [Next]_vars => FaultlessInv'
  BY FaultlessStep
<1> QED
  BY RtpInvariant, <1>1, <1>2, PTL DEF Spec

\* Between faultless ends the buffer of rtp_parse, which takes what comes without a test of
\* its size, never holds more than the beginning of one NALU: what a NALU of one byte more
\* than a packet leaves in it does not add up with the next.
THEOREM RtpAssemblyIsOneNalu == Spec => []AssemblyIsOneNalu
<1>1. FaultlessInv => AssemblyIsOneNalu
  <2> SUFFICES ASSUME TypeOK, PartHeld, assembly # <<>>
               PROVE  IsPrefix(assembly, Nalu(assembly[1][1]))
    BY DEF FaultlessInv, RtpInv, LinkInv, AssemblyIsOneNalu
  <2>1. PICK n \in DOMAIN packed, m \in Nat : m < packed[n] /\ assembly = Bytes(n, 0, m)
    BY DEF PartHeld
  <2> DEFINE last == packed[n] - 1
             nalu == Bytes(n, 0, last)
  <2>2. n \in 0..MaxNalus /\ 0 \in Nat /\ m \in Int /\ last \in Nat /\ last \in Int /\ m <= last
    BY <2>1, NumbersSent
  <2> HIDE DEF last
  <2>3. /\ assembly \in Seq(AnyByte)
        /\ m - 0 + 1 >= 0 => Len(assembly) = m - 0 + 1
        /\ \A k \in 1..(m - 0 + 1) : assembly[k] = <<n, 0 + k - 1>>
    BY <2>1, <2>2, BytesProperties
  <2>4. /\ nalu \in Seq(AnyByte)
        /\ last - 0 + 1 >= 0 => Len(nalu) = last - 0 + 1
        /\ \A k \in 1..(last - 0 + 1) : nalu[k] = <<n, 0 + k - 1>>
    BY <2>2, BytesProperties, Zenon
  <2> HIDE DEF nalu
  <2>5. Len(assembly) = m + 1 /\ Len(nalu) = last + 1
    BY <2>2, <2>3, <2>4
  <2>6. Len(assembly) <= Len(nalu) /\ \A k \in 1..Len(assembly) : assembly[k] = nalu[k]
    <3> SUFFICES ASSUME NEW k \in 1..Len(assembly)
                 PROVE  Len(assembly) <= Len(nalu) /\ assembly[k] = nalu[k]
      BY <2>2, <2>5
    <3>1. k \in 1..(m - 0 + 1) /\ k \in 1..(last - 0 + 1)
      BY <2>2, <2>5
    <3>2. assembly[k] = <<n, 0 + k - 1>> /\ nalu[k] = <<n, 0 + k - 1>>
      BY <2>3, <2>4, <3>1, Zenon
    <3> QED
      BY <2>2, <2>5, <3>2
  <2>7. IsPrefix(assembly, nalu)
    BY <2>3, <2>4, <2>6, PrefixPointwise
  <2>8. assembly[1] = <<n, 0>>
    BY <2>1, <2>2, <2>3, <2>5
  <2> QED
    BY <2>7, <2>8 DEF Nalu, nalu, last
<1> QED
  BY RtpFaultless, <1>1, PTL
-----------------------------------------------------------------------------
(* The order of the bytes.                                                 *)

\* What a datagram brings: a first fragment brings the header back.
Brings(p) == IF p.kind = "FU_A" /\ p.start THEN <<<<p.nalu, 0>>>> \o p.body ELSE p.body

\* That byte b has been sent, when n NALUs have and the next fragment is known; of
\* a NALU in fragments, none of the bytes has before fragment 0.
Sent(n, next, b) ==
  \/ b[1] < n
  \/ b[1] = n /\ (next = -1 \/ (next # 0 /\ b[2] <= next * FragmentSize))
AllSent(n, next, bytes) == \A k \in DOMAIN bytes : Sent(n, next, bytes[k])

\* One stream: NALU after NALU delivered, what is being put together, datagram
\* after datagram in flight, and last what is not sent yet.
StreamInv ==
  /\ \A d \in DOMAIN delivered :
       /\ Ascends(delivered[d]) /\ AllSent(Len(packed), fragment, delivered[d])
       /\ \A e \in DOMAIN delivered : d < e => Earlier(delivered[d], delivered[e])
       /\ Earlier(delivered[d], assembly)
       /\ \A i \in DOMAIN net : Earlier(delivered[d], Brings(net[i]))
  /\ Ascends(assembly) /\ AllSent(Len(packed), fragment, assembly)
  /\ \A i \in DOMAIN net :
       /\ Ascends(Brings(net[i])) /\ AllSent(Len(packed), fragment, Brings(net[i]))
       /\ Earlier(assembly, Brings(net[i]))
       /\ \A j \in DOMAIN net : i < j => Earlier(Brings(net[i]), Brings(net[j]))

OrderInv == RtpInv /\ (faults \subseteq {"lose", "restart"} => StreamInv)

\* Bytes that are put after others which they come after.
LEMMA JoinedInOrder ==
  ASSUME NEW s \in Seq(AnyByte), NEW t \in Seq(AnyByte), NEW u \in Seq(AnyByte),
         NEW n, NEW next
  PROVE  /\ s \o t \in Seq(AnyByte)
         /\ Ascends(s) /\ Ascends(t) /\ Earlier(s, t) => Ascends(s \o t)
         /\ AllSent(n, next, s) /\ AllSent(n, next, t) => AllSent(n, next, s \o t)
         /\ Earlier(u, s) /\ Earlier(u, t) => Earlier(u, s \o t)
         /\ Earlier(s, u) /\ Earlier(t, u) => Earlier(s \o t, u)
<1> DEFINE st == s \o t
<1>1. /\ st \in Seq(AnyByte) /\ Len(s) \in Nat /\ Len(t) \in Nat
      /\ DOMAIN s = 1..Len(s) /\ DOMAIN t = 1..Len(t) /\ DOMAIN st = 1..(Len(s) + Len(t))
      /\ \A k \in DOMAIN st : st[k] = IF k <= Len(s) THEN s[k] ELSE t[k - Len(s)]
  BY ConcatProperties
<1> HIDE DEF st
<1>2. \A k \in DOMAIN st : \/ k \in DOMAIN s /\ st[k] = s[k]
                           \/ k - Len(s) \in DOMAIN t /\ st[k] = t[k - Len(s)]
  BY <1>1
<1>3. ASSUME Ascends(s), Ascends(t), Earlier(s, t) PROVE Ascends(st)
  <2> SUFFICES ASSUME NEW i \in DOMAIN st, NEW j \in DOMAIN st, i < j
               PROVE  Precedes(st[i], st[j])
    BY DEF Ascends
  <2>1. CASE j <= Len(s)
    <3>1. i \in DOMAIN s /\ j \in DOMAIN s /\ st[i] = s[i] /\ st[j] = s[j]
      BY <1>1, <2>1
    <3> QED
      BY <1>3, <3>1 DEF Ascends
  <2>2. CASE i <= Len(s) /\ ~(j <= Len(s))
    <3>1. i \in DOMAIN s /\ j - Len(s) \in DOMAIN t /\ st[i] = s[i] /\ st[j] = t[j - Len(s)]
      BY <1>1, <2>2
    <3> QED
      BY <1>3, <3>1 DEF Earlier
  <2>3. CASE ~(i <= Len(s))
    <3>1. /\ i - Len(s) \in DOMAIN t /\ j - Len(s) \in DOMAIN t /\ i - Len(s) < j - Len(s)
          /\ st[i] = t[i - Len(s)] /\ st[j] = t[j - Len(s)]
      BY <1>1, <2>3
    <3> QED
      BY <1>3, <3>1 DEF Ascends
  <2> QED
    BY <1>1, <2>1, <2>2, <2>3
<1>4. AllSent(n, next, s) /\ AllSent(n, next, t) => AllSent(n, next, st)
  BY <1>2 DEF AllSent
<1>5. /\ Earlier(u, s) /\ Earlier(u, t) => Earlier(u, st)
      /\ Earlier(s, u) /\ Earlier(t, u) => Earlier(st, u)
  BY <1>2 DEF Earlier
<1> QED
  BY <1>1, <1>3, <1>4, <1>5 DEF st

\* The places, in the network before, of what a datagram less leaves.
LEMMA NetLess ==
  ASSUME RtpInv, NEW i \in DOMAIN net, net' = RemoveAt(net, i)
  PROVE  \E place \in [DOMAIN net' -> DOMAIN net \ {i}] :
           /\ \A k \in DOMAIN net' : net'[k] = net[place[k]]
           /\ \A k, l \in DOMAIN net' : k < l => place[k] < place[l]
           /\ i = 1 => \A k \in DOMAIN net' : i < place[k]
<1> DEFINE place == [k \in DOMAIN net' |-> IF k < i THEN k ELSE k + 1]
<1>1. /\ net \in Seq(Datagrams) /\ DOMAIN net = 1..Len(net) /\ Len(net) \in Nat
      /\ i \in Nat /\ 1 <= i /\ i <= Len(net)
  BY DEF RtpInv
<1>2. /\ DOMAIN net' = 1..(Len(net) - 1)
      /\ \A k \in DOMAIN net' : net'[k] = net[IF k < i THEN k ELSE k + 1]
  BY <1>1, RemovePlaces
<1>3. \A k \in DOMAIN net' : (IF k < i THEN k ELSE k + 1) \in DOMAIN net \ {i}
  BY <1>1, <1>2
<1>4. place \in [DOMAIN net' -> DOMAIN net \ {i}]
  BY <1>3
<1>5. \A k \in DOMAIN net' : net'[k] = net[place[k]]
  BY <1>2
<1>6. \A k, l \in DOMAIN net' : k < l => place[k] < place[l]
  BY <1>1, <1>2
<1>7. i = 1 => \A k \in DOMAIN net' : i < place[k]
  BY <1>1, <1>2
<1> HIDE DEF place
<1> QED
  BY <1>4, <1>5, <1>6, <1>7

\* A datagram is lost.
LEMMA LoseOrder ==
  ASSUME RtpInv, StreamInv, NEW i \in DOMAIN net, net' = RemoveAt(net, i),
         UNCHANGED <<packed, fragment, assembly, delivered>>
  PROVE  StreamInv'
<1>1. PICK place \in [DOMAIN net' -> DOMAIN net \ {i}] :
        /\ \A k \in DOMAIN net' : net'[k] = net[place[k]]
        /\ \A k, l \in DOMAIN net' : k < l => place[k] < place[l]
  BY NetLess
<1>2. \A d \in DOMAIN delivered :
        /\ Ascends(delivered[d]) /\ AllSent(Len(packed), fragment, delivered[d])
        /\ \A e \in DOMAIN delivered : d < e => Earlier(delivered[d], delivered[e])
        /\ Earlier(delivered[d], assembly)
        /\ \A k \in DOMAIN net' : Earlier(delivered[d], Brings(net'[k]))
  BY <1>1 DEF StreamInv
<1>3. \A k \in DOMAIN net' :
        /\ Ascends(Brings(net'[k])) /\ AllSent(Len(packed), fragment, Brings(net'[k]))
        /\ Earlier(assembly, Brings(net'[k]))
        /\ \A l \in DOMAIN net' : k < l => Earlier(Brings(net'[k]), Brings(net'[l]))
  BY <1>1 DEF StreamInv
<1>4. Ascends(assembly) /\ AllSent(Len(packed), fragment, assembly)
  BY DEF StreamInv
<1> QED
  BY <1>2, <1>3, <1>4 DEF StreamInv

\* What the receiver makes of a datagram: it keeps what it has, or puts what has
\* come, alone or after what it has, in the buffer or delivers it.
LEMMA ParseMakes ==
  ASSUME NEW p, Parse(p)
  PROVE  \/ UNCHANGED <<assembly, delivered>>
         \/ \E bytes \in {Brings(p), assembly \o Brings(p)} : Keeps(bytes) \/ Delivers(bytes)
<1>1. CASE p.kind = "single" /\ Delivers(p.body)
  BY <1>1 DEF Brings
<1>2. CASE Keeps(assembly)
  BY <1>2 DEF Keeps
<1>3. CASE p.kind = "FU_A" /\ p.start /\ ~p.end /\ Keeps(<<<<p.nalu, 0>>>> \o p.body)
  BY <1>3 DEF Brings
<1>4. CASE p.kind = "FU_A" /\ ~p.start /\ assembly # <<>> /\ p.end /\ Delivers(assembly \o p.body)
  BY <1>4 DEF Brings
<1>5. CASE p.kind = "FU_A" /\ ~p.start /\ assembly # <<>> /\ ~p.end /\ Keeps(assembly \o p.body)
  BY <1>5 DEF Brings
<1> QED
  BY <1>1, <1>2, <1>3, <1>4, <1>5 DEF Parse

LEMMA BringsTyped ==
  ASSUME RtpInv, NEW i \in DOMAIN net
  PROVE  Brings(net[i]) \in Seq(AnyByte)
<1>1. net[i].nalu \in 0..MaxNalus /\ net[i].body \in Seq(AnyByte)
  BY DEF RtpInv, TypeOK
<1>2. <<<<net[i].nalu, 0>>>> \in Seq(AnyByte)
  BY <1>1 DEF AnyByte
<1> QED
  BY <1>1, <1>2, ConcatProperties DEF Brings

\* The oldest datagram is parsed.
LEMMA ReceiveOrder ==
  ASSUME RtpInv, StreamInv, 1 \in DOMAIN net, Parse(net[1]), net' = RemoveAt(net, 1),
         UNCHANGED <<packed, fragment>>
  PROVE  StreamInv'
<1>1. PICK place \in [DOMAIN net' -> DOMAIN net \ {1}] :
        /\ \A k \in DOMAIN net' : net'[k] = net[place[k]]
        /\ \A k, l \in DOMAIN net' : k < l => place[k] < place[l]
        /\ \A k \in DOMAIN net' : 1 < place[k]
  BY NetLess
<1>2. \A k \in DOMAIN net' :
        /\ Ascends(Brings(net'[k])) /\ AllSent(Len(packed), fragment, Brings(net'[k]))
        /\ Earlier(Brings(net[1]), Brings(net'[k]))
        /\ Earlier(assembly, Brings(net'[k]))
        /\ \A d \in DOMAIN delivered : Earlier(delivered[d], Brings(net'[k]))
        /\ \A l \in DOMAIN net' : k < l => Earlier(Brings(net'[k]), Brings(net'[l]))
  BY <1>1 DEF StreamInv
<1>3. \A d \in DOMAIN delivered :
        /\ Ascends(delivered[d]) /\ AllSent(Len(packed), fragment, delivered[d])
        /\ \A e \in DOMAIN delivered : d < e => Earlier(delivered[d], delivered[e])
        /\ Earlier(delivered[d], assembly)
        /\ Earlier(delivered[d], Brings(net[1]))
  BY DEF StreamInv
<1>4. Ascends(assembly) /\ AllSent(Len(packed), fragment, assembly)
  BY DEF StreamInv
<1>5. CASE UNCHANGED <<assembly, delivered>>
  BY <1>2, <1>3, <1>4, <1>5 DEF StreamInv
<1>6. ASSUME NEW bytes \in {Brings(net[1]), assembly \o Brings(net[1])}
      PROVE  /\ Ascends(bytes) /\ AllSent(Len(packed), fragment, bytes)
             /\ \A d \in DOMAIN delivered : Earlier(delivered[d], bytes)
             /\ \A k \in DOMAIN net' : Earlier(bytes, Brings(net'[k]))
  <2>1. /\ assembly \in Seq(AnyByte) /\ Brings(net[1]) \in Seq(AnyByte)
        /\ \A d \in DOMAIN delivered : delivered[d] \in Seq(AnyByte)
        /\ \A k \in DOMAIN net' : Brings(net'[k]) \in Seq(AnyByte)
    <3>1. \A d \in DOMAIN delivered : delivered[d] \in Seq(AnyByte)
      BY DEF RtpInv, TypeOK
    <3> QED
      BY <1>1, <3>1, BringsTyped DEF RtpInv, TypeOK
  <2>2. /\ Ascends(Brings(net[1])) /\ AllSent(Len(packed), fragment, Brings(net[1]))
        /\ Earlier(assembly, Brings(net[1]))
    BY DEF StreamInv
  <2>3. CASE bytes = Brings(net[1])
    BY <1>2, <1>3, <2>2, <2>3
  <2>4. CASE bytes = assembly \o Brings(net[1])
    <3>1. Ascends(bytes) /\ AllSent(Len(packed), fragment, bytes)
      BY <1>4, <2>1, <2>2, <2>4, JoinedInOrder
    <3>2. \A d \in DOMAIN delivered : Earlier(delivered[d], bytes)
      BY <1>3, <2>1, <2>4, JoinedInOrder
    <3>3. \A k \in DOMAIN net' : Earlier(bytes, Brings(net'[k]))
      BY <1>2, <2>1, <2>4, JoinedInOrder
    <3> QED
      BY <3>1, <3>2, <3>3
  <2> QED
    BY <1>6, <2>3, <2>4
<1>7. ASSUME NEW bytes \in {Brings(net[1]), assembly \o Brings(net[1])}, Keeps(bytes)
      PROVE  StreamInv'
  <2>1. assembly' = bytes /\ delivered' = delivered
    BY <1>7 DEF Keeps
  <2> QED
    BY <1>2, <1>3, <1>6, <2>1 DEF StreamInv
<1>8. ASSUME NEW bytes \in {Brings(net[1]), assembly \o Brings(net[1])}, Delivers(bytes)
      PROVE  StreamInv'
  <2> DEFINE n == Len(delivered) + 1
  <2>1. assembly' = <<>> /\ delivered' = Append(delivered, bytes)
    BY <1>8 DEF Delivers
  <2>2. /\ DOMAIN delivered = 1..Len(delivered) /\ Len(delivered) \in Nat
        /\ DOMAIN delivered' = 1..n /\ delivered'[n] = bytes
        /\ \A d \in DOMAIN delivered : delivered'[d] = delivered[d]
    BY <2>1 DEF RtpInv
  <2>3. \A d \in DOMAIN delivered' : d \in DOMAIN delivered \/ d = n
    BY <2>2
  <2>4. \A d \in DOMAIN delivered : d < n /\ ~(n < d)
    BY <2>2
  <2>5. ~(n < n)
    BY <2>2
  <2> HIDE DEF n
  <2>6. \A d \in DOMAIN delivered' :
          Ascends(delivered'[d]) /\ AllSent(Len(packed), fragment, delivered'[d])
    BY <1>3, <1>6, <2>2, <2>3
  <2>7. \A d, e \in DOMAIN delivered' : d < e => Earlier(delivered'[d], delivered'[e])
    BY <1>3, <1>6, <2>2, <2>3, <2>4, <2>5
  <2>8. \A d \in DOMAIN delivered' :
          /\ Earlier(delivered'[d], assembly')
          /\ \A k \in DOMAIN net' : Earlier(delivered'[d], Brings(net'[k]))
    <3>1. \A s : Earlier(s, assembly')
      BY <2>1 DEF Earlier
    <3> QED
      BY <1>2, <1>6, <2>2, <2>3, <3>1
  <2>9. /\ Ascends(assembly') /\ AllSent(Len(packed), fragment, assembly')
        /\ \A k \in DOMAIN net' : Earlier(assembly', Brings(net'[k]))
    BY <2>1 DEF Ascends, AllSent, Earlier
  <2> QED
    BY <1>2, <2>6, <2>7, <2>8, <2>9 DEF StreamInv
<1> QED
  BY <1>5, <1>7, <1>8, ParseMakes

\* What is new comes after all that has been sent.
LEMMA SentBefore ==
  ASSUME RtpInv, StreamInv, UNCHANGED <<assembly, delivered>>, NEW p,
         net' = net \/ net' = Append(net, p),
         Ascends(Brings(p)), AllSent(Len(packed'), fragment', Brings(p)),
         \A b \in AnyByte : Sent(Len(packed), fragment, b) =>
           /\ Sent(Len(packed'), fragment', b)
           /\ \A k \in DOMAIN Brings(p) : Precedes(b, Brings(p)[k])
  PROVE  StreamInv'
<1> DEFINE SentThen(s) == AllSent(Len(packed'), fragment', s)
<1>1. /\ assembly \in Seq(AnyByte)
      /\ \A d \in DOMAIN delivered : delivered[d] \in Seq(AnyByte)
      /\ \A i \in DOMAIN net : Brings(net[i]) \in Seq(AnyByte)
  BY BringsTyped DEF RtpInv, TypeOK
<1>2. ASSUME NEW s \in Seq(AnyByte), AllSent(Len(packed), fragment, s)
      PROVE  SentThen(s) /\ Earlier(s, Brings(p))
  <2>1. \A k \in DOMAIN s : s[k] \in AnyByte /\ Sent(Len(packed), fragment, s[k])
    BY <1>2 DEF AllSent
  <2> QED
    BY <2>1 DEF AllSent, Earlier
<1> HIDE DEF SentThen
<1>3. /\ \A d \in DOMAIN delivered : SentThen(delivered[d]) /\ Earlier(delivered[d], Brings(p))
      /\ SentThen(assembly) /\ Earlier(assembly, Brings(p))
      /\ \A i \in DOMAIN net : SentThen(Brings(net[i])) /\ Earlier(Brings(net[i]), Brings(p))
  BY <1>1, <1>2 DEF StreamInv
<1>4. CASE net' = net
  BY <1>3, <1>4 DEF StreamInv, SentThen
<1>5. CASE net' = Append(net, p)
  <2> DEFINE n == Len(net) + 1
  <2>1. /\ DOMAIN net = 1..Len(net) /\ Len(net) \in Nat
        /\ DOMAIN net' = 1..n /\ net'[n] = p
        /\ \A i \in DOMAIN net : net'[i] = net[i]
    BY <1>5 DEF RtpInv
  <2>2. /\ \A i \in DOMAIN net' : i \in DOMAIN net \/ i = n
        /\ \A i \in DOMAIN net : i < n /\ ~(n < i)
        /\ ~(n < n)
    BY <2>1
  <2> HIDE DEF n
  <2>3. \A d \in DOMAIN delivered' :
          /\ Ascends(delivered'[d]) /\ SentThen(delivered'[d])
          /\ \A e \in DOMAIN delivered' : d < e => Earlier(delivered'[d], delivered'[e])
          /\ Earlier(delivered'[d], assembly')
          /\ \A i \in DOMAIN net' : Earlier(delivered'[d], Brings(net'[i]))
    BY <1>3, <2>1, <2>2 DEF StreamInv
  <2>4. Ascends(assembly') /\ SentThen(assembly')
    BY <1>3 DEF StreamInv
  <2>5. \A i \in DOMAIN net' : /\ Ascends(Brings(net'[i])) /\ SentThen(Brings(net'[i]))
                               /\ Earlier(assembly', Brings(net'[i]))
    BY <1>3, <2>1, <2>2 DEF StreamInv, SentThen
  <2>6. \A i, j \in DOMAIN net' : i < j => Earlier(Brings(net'[i]), Brings(net'[j]))
    BY <1>3, <2>1, <2>2 DEF StreamInv
  <2> QED
    BY <2>3, <2>4, <2>5, <2>6 DEF StreamInv, SentThen
<1> QED
  BY <1>4, <1>5

\* The bytes of a part of NALU n, from the first to the last of it.
LEMMA PartAscends ==
  ASSUME NEW n \in 0..MaxNalus, NEW first \in Nat, NEW last \in Int
  PROVE  /\ Ascends(Bytes(n, first, last))
         /\ \A k \in DOMAIN Bytes(n, first, last) :
              /\ Bytes(n, first, last)[k][1] = n
              /\ Bytes(n, first, last)[k][2] \in first..last
<1> DEFINE b == Bytes(n, first, last)
<1>1. /\ DOMAIN b = 1..(last - first + 1)
      /\ \A k \in 1..(last - first + 1) : b[k] = <<n, first + k - 1>>
  BY BytesProperties
<1> HIDE DEF b
<1>2. \A k \in DOMAIN b : b[k][1] = n /\ b[k][2] = first + k - 1 /\ k \in Int /\ 1 <= k
                          /\ k <= last - first + 1
  BY <1>1
<1>3. Ascends(b)
  BY <1>2 DEF Ascends, Precedes
<1>4. \A k \in DOMAIN b : b[k][2] \in first..last
  BY <1>2
<1> QED
  BY <1>2, <1>3, <1>4 DEF b

\* A NALU in a packet of its own.
LEMMA SingleOrder ==
  ASSUME RtpInv, RtpInv', StreamInv, NEW len \in Lengths, PackSingle(len)
  PROVE  StreamInv'
<1> DEFINE n == Len(packed')
           p == Single(n, len)
           last == len - 1
<1>1. /\ fragment = -1 /\ fragment' = -1 /\ UNCHANGED <<assembly, delivered>>
      /\ packed' = Append(packed, len)
      /\ net' = net \/ net' = Append(net, p)
  BY DEF PackSingle, SendTo
<1>2. /\ Len(packed) \in Nat /\ n = Len(packed) + 1 /\ n \in 0..MaxNalus
      /\ 0 \in Nat /\ last \in Int
  BY <1>1, RtpAssumption DEF RtpInv, TypeOK
<1>3. Brings(p) = Bytes(n, 0, last)
  BY DEF Brings, Single
<1> HIDE DEF n, p, last
<1>4. /\ Ascends(Brings(p)) /\ \A k \in DOMAIN Brings(p) : Brings(p)[k][1] = n
  <2>1. /\ Ascends(Bytes(n, 0, last))
        /\ \A k \in DOMAIN Bytes(n, 0, last) : Bytes(n, 0, last)[k][1] = n
    BY <1>2, PartAscends, Zenon
  <2> QED
    BY <1>3, <2>1
<1>5. AllSent(n, fragment', Brings(p))
  BY <1>1, <1>4 DEF AllSent, Sent
<1>6. \A b \in AnyByte : Sent(Len(packed), fragment, b) => b[1] \in Nat /\ b[1] < n
  BY <1>1, <1>2 DEF Sent, AnyByte
<1>7. \A b \in AnyByte : Sent(Len(packed), fragment, b) =>
        Sent(n, fragment', b) /\ \A k \in DOMAIN Brings(p) : Precedes(b, Brings(p)[k])
  BY <1>4, <1>6 DEF Sent, Precedes
<1>8. n = Len(packed')
  BY DEF n
<1> QED
  BY <1>1, <1>4, <1>5, <1>7, <1>8, SentBefore

\* A NALU that is to be sent in fragments, of which none is yet.
LEMMA FragmentedOrder ==
  ASSUME RtpInv, StreamInv, NEW len \in Lengths, PackFragmented(len)
  PROVE  StreamInv'
<1> DEFINE SentThen(s) == AllSent(Len(packed'), fragment', s)
<1>1. /\ fragment = -1 /\ UNCHANGED <<assembly, delivered, net>>
      /\ packed' = Append(packed, len)
  BY DEF PackFragmented
<1>2. Len(packed) \in Nat /\ Len(packed') = Len(packed) + 1
  BY <1>1 DEF RtpInv, TypeOK
<1>3. \A b \in AnyByte : Sent(Len(packed), fragment, b) => Sent(Len(packed'), fragment', b)
  BY <1>1, <1>2 DEF Sent, AnyByte
<1>4. ASSUME NEW s \in Seq(AnyByte), AllSent(Len(packed), fragment, s) PROVE SentThen(s)
  BY <1>3, <1>4 DEF AllSent
<1>5. /\ assembly \in Seq(AnyByte)
      /\ \A d \in DOMAIN delivered : delivered[d] \in Seq(AnyByte)
      /\ \A i \in DOMAIN net : Brings(net[i]) \in Seq(AnyByte)
  BY BringsTyped DEF RtpInv, TypeOK
<1> HIDE DEF SentThen
<1>6. /\ SentThen(assembly) /\ \A d \in DOMAIN delivered : SentThen(delivered[d])
      /\ \A i \in DOMAIN net : SentThen(Brings(net[i]))
  BY <1>4, <1>5 DEF StreamInv
<1> QED
  BY <1>1, <1>6 DEF StreamInv, SentThen

\* The next fragment of the last NALU.
LEMMA FragmentOrder ==
  ASSUME RtpInv, StreamInv, SendFragment
  PROVE  StreamInv'
<1> DEFINE n == Len(packed)
           p == Fragment(n, packed[n], fragment)
           start == fragment * FragmentSize
           until == (fragment + 1) * FragmentSize
           first == start + 1
           last == Least(until, packed[n] - 1)
           body == Bytes(n, first, last)
           header == <<<<n, 0>>>>
<1>1. /\ fragment # -1 /\ fragment' \in {-1, fragment + 1}
      /\ UNCHANGED <<assembly, delivered, packed>>
      /\ net' = net \/ net' = Append(net, p)
  BY DEF SendFragment, SendTo
<1>2. /\ fragment \in Nat /\ FragmentSize \in Nat \ {0}
      /\ n \in DOMAIN packed /\ n \in 0..MaxNalus /\ n \in Nat /\ packed[n] \in Nat \ {0}
  <2>1. TypeOK /\ packed # <<>> /\ packed \in Seq(Lengths)
    BY <1>1 DEF RtpInv, FragmentsLong, TypeOK
  <2>2. n \in DOMAIN packed /\ n \in Nat
    BY <2>1
  <2>3. fragment \in Nat
    <3>1. fragment \in -1..(Count(Last(packed)) - 1)
      BY <2>1 DEF TypeOK
    <3> QED
      BY <1>1, <3>1
  <2> QED
    BY <2>1, <2>2, <2>3, NumbersSent, RtpAssumption
<1>3. start \in Nat /\ until = start + FragmentSize /\ (fragment = 0 => start = 0)
  BY <1>2
<1>4. /\ Brings(p) = IF fragment = 0 THEN header \o body ELSE body
      /\ \A b : Sent(n, fragment, b) =>
                  b[1] < n \/ (b[1] = n /\ fragment # 0 /\ b[2] <= start)
      /\ \A b : b[1] < n \/ (b[1] = n /\ b[2] <= until) => Sent(n, fragment', b)
  <2>1. Brings(p) = IF fragment = 0 THEN header \o body ELSE body
    BY DEF Brings, Fragment
  <2>2. \A b : Sent(n, fragment, b) =>
                 b[1] < n \/ (b[1] = n /\ fragment # 0 /\ b[2] <= start)
    BY <1>1 DEF Sent
  <2>3. fragment + 1 # 0
    BY <1>2
  <2>4. \A b : b[1] < n \/ (b[1] = n /\ b[2] <= until) => Sent(n, fragment', b)
    BY <1>1, <2>3 DEF Sent
  <2> QED
    BY <2>1, <2>2, <2>4
<1>5. n = Len(packed) /\ n = Len(packed')
  BY <1>1
<1> HIDE DEF start, until, n
<1>6. first \in Nat /\ last \in Int /\ last <= until
  <2>1. first \in Nat /\ until \in Int /\ packed[n] - 1 \in Int
    BY <1>2, <1>3
  <2> QED
    BY <1>3, <2>1, LeastProperties, Zenon
<1>7. first = start + 1
  OBVIOUS
<1> HIDE DEF first, last
<1>8. /\ Ascends(body) /\ body \in Seq(AnyByte)
      /\ \A k \in DOMAIN body : body[k][1] = n /\ body[k][2] \in first..last
  BY <1>2, <1>6, PartAscends, BytesProperties
<1>9. header \in Seq(AnyByte) /\ DOMAIN header = {1} /\ header[1] = <<n, 0>>
  BY <1>2 DEF AnyByte
<1> HIDE DEF body, header, p
<1>10. \A k \in DOMAIN body : body[k][1] = n /\ body[k][2] \in Nat
                              /\ start < body[k][2] /\ body[k][2] <= until
  BY <1>3, <1>6, <1>7, <1>8
<1>11. Earlier(header, body) /\ Ascends(header)
  BY <1>3, <1>9, <1>10 DEF Earlier, Ascends, Precedes
<1>12. Ascends(Brings(p))
  BY <1>4, <1>8, <1>9, <1>11, JoinedInOrder
<1>13. AllSent(n, fragment', Brings(p))
  <2>1. AllSent(n, fragment', body)
    BY <1>4, <1>10 DEF AllSent
  <2>2. AllSent(n, fragment', header)
    <3>1. 0 <= until
      BY <1>2, <1>3
    <3>2. header[1][1] = n /\ header[1][2] = 0
      BY <1>9
    <3> QED
      BY <1>4, <1>9, <3>1, <3>2 DEF AllSent
  <2> QED
    BY <1>4, <1>8, <1>9, <2>1, <2>2, JoinedInOrder
<1>14. ASSUME NEW b \in AnyByte, Sent(n, fragment, b)
       PROVE  Sent(n, fragment', b) /\ \A k \in DOMAIN Brings(p) : Precedes(b, Brings(p)[k])
  <2>1. b[1] \in Nat /\ b[2] \in Nat
    BY DEF AnyByte
  <2>2. b[1] < n \/ (b[1] = n /\ fragment # 0 /\ b[2] <= start)
    BY <1>4, <1>14
  <2>3. Sent(n, fragment', b)
    <3>1. b[2] <= start => b[2] <= until
      BY <1>2, <1>3, <2>1
    <3> QED
      BY <1>4, <2>2, <3>1
  <2>4. \A k \in DOMAIN body : Precedes(b, body[k])
    BY <1>2, <1>3, <1>10, <2>1, <2>2 DEF Precedes
  <2>5. fragment = 0 => Precedes(b, header[1])
    BY <1>9, <2>2 DEF Precedes
  <2>6. Earlier(<<b>>, body) /\ (fragment = 0 => Earlier(<<b>>, header))
    BY <1>9, <2>4, <2>5 DEF Earlier
  <2>7. <<b>> \in Seq(AnyByte) /\ 1 \in DOMAIN <<b>> /\ <<b>>[1] = b
    OBVIOUS
  <2>8. Earlier(<<b>>, Brings(p))
    BY <1>4, <1>8, <1>9, <2>6, <2>7, JoinedInOrder
  <2>9. \A k \in DOMAIN Brings(p) : Precedes(b, Brings(p)[k])
    BY <2>7, <2>8 DEF Earlier
  <2> QED
    BY <2>3, <2>9
<1>15. net' = net \/ net' = Append(net, p)
  BY <1>1 DEF p, n
<1> QED
  BY <1>1, <1>5, <1>12, <1>13, <1>14, <1>15, SentBefore

\* Steps that no fault but losses and restarts allows.
LEMMA StreamStep ==
  ASSUME RtpInv, RtpInv', StreamInv, faults \subseteq {"lose", "restart"}, [Next]_vars
  PROVE  StreamInv'
<1>1. "reorder" \notin faults /\ "duplicate" \notin faults /\ "foreign" \notin faults
  OBVIOUS
<1>2. ASSUME NEW len \in Lengths, PackSingle(len) PROVE StreamInv'
  BY <1>2, SingleOrder
<1>3. ASSUME NEW len \in Lengths, PackFragmented(len) PROVE StreamInv'
  BY <1>3, FragmentedOrder
<1>4. CASE SendFragment
  BY <1>4, FragmentOrder
<1>5. ASSUME NEW i \in DOMAIN net, Lose(i) PROVE StreamInv'
  BY <1>5, LoseOrder DEF Lose
<1>6. ASSUME NEW i \in DOMAIN net, Receive(i) PROVE StreamInv'
  BY <1>1, <1>6, ReceiveOrder DEF Receive
<1>7. CASE Stop
  <2>1. /\ net' = <<>> /\ DOMAIN net' = {}
        /\ UNCHANGED <<packed, fragment, assembly, delivered>>
    BY <1>7 DEF Stop
  <2> QED
    BY <2>1 DEF StreamInv
<1>8. CASE Start
  BY <1>8 DEF Start, StreamInv
<1>9. CASE UNCHANGED vars
  BY <1>9 DEF vars, StreamInv
<1>10. ASSUME NEW i \in DOMAIN net, Duplicate(i) PROVE FALSE
  BY <1>1, <1>10 DEF Duplicate
<1>11. ASSUME NEW p, ForeignSends(p) PROVE FALSE
  BY <1>1, <1>11 DEF ForeignSends
<1> QED
  BY <1>2, <1>3, <1>4, <1>5, <1>6, <1>7, <1>8, <1>9, <1>10, <1>11
  DEF Next, Sender, Network, Receiver

\* Over a network that loses but does not reorder, and across restarts of the
\* receiver, no byte is delivered twice, out of order or before its turn.
THEOREM RtpDeliveredAscends == Spec => []DeliveredAscends
<1>1. Init => OrderInv
  <2>1. Init => StreamInv
    BY DEF Init, StreamInv, Ascends, AllSent
  <2> QED
    BY <2>1, RtpInit DEF OrderInv
<1>2. OrderInv /\ RtpInv' /\ [Next]_vars => OrderInv'
  <2> SUFFICES ASSUME OrderInv, RtpInv', [Next]_vars PROVE OrderInv'
    OBVIOUS
  <2>1. faults' = faults
    BY DEF Next, Sender, Network, Receiver, PackSingle, PackFragmented, SendFragment,
           Lose, Duplicate, ForeignSends, Receive, Stop, Start, vars
  <2> QED
    BY <2>1, StreamStep DEF OrderInv
<1>3. OrderInv => DeliveredAscends
  BY DEF OrderInv, StreamInv, DeliveredAscends
<1> QED
  BY RtpInvariant, <1>1, <1>2, <1>3, PTL DEF Spec
-----------------------------------------------------------------------------
(* Over a network without faults the ends implement NaluFifo.  What is said *)
(* of a state is said of its parts: lens is packed, packets are in flight,  *)
(* cursor is the NALU that the next packet sent belongs to.                 *)

CompletedOf(lens, n) == {m \in 1..n : Completed(lens[m])}
KeptOf(lens, n) == Cardinality(CompletedOf(lens, n))
NaluOf(lens, n) == Bytes(n, 0, lens[n] - 1)
KthOf(lens, k) == CHOOSE n \in DOMAIN lens : Completed(lens[n]) /\ KeptOf(lens, n) = k
CompleteOf(lens) == [k \in 1..KeptOf(lens, Len(lens)) |-> NaluOf(lens, KthOf(lens, k))]

Cursor == IF fragment = -1 THEN Len(packed) + 1 ELSE Len(packed)

\* The last packet of a NALU, and the NALU of the packet after this one.
Final(lens, p) == p.kind = "single" \/ p = Fragment(p.nalu, lens[p.nalu], Count(lens[p.nalu]) - 1)
After(lens, p) == IF Final(lens, p) THEN p.nalu + 1 ELSE p.nalu

\* Packets follow each other as they were sent.
InLine(lens, cursor, packets) ==
  \A k \in DOMAIN packets :
    /\ packets[k].nalu \in DOMAIN lens
    /\ After(lens, packets[k]) = IF k = Len(packets) THEN cursor ELSE packets[k + 1].nalu

\* The first NALU that has not arrived.
HeadOf(cursor, packets) == IF packets = <<>> THEN cursor ELSE packets[1].nalu

\* All those before it have, and are delivered unless they are passed over.
DeliveredTo(lens, head, out) ==
  /\ head \in 1..(Len(lens) + 1)
  /\ Len(out) = KeptOf(lens, head - 1)
  /\ \A n \in 1..(head - 1) : Completed(lens[n]) => out[KeptOf(lens, n)] = NaluOf(lens, n)

\* The NALUs that are not passed over are numbered without a gap.
Numbered(lens) ==
  \A k \in 1..KeptOf(lens, Len(lens)) :
    \E n \in DOMAIN lens : Completed(lens[n]) /\ KeptOf(lens, n) = k

QueueInv ==
  /\ InLine(packed, Cursor, net)
  /\ DeliveredTo(packed, HeadOf(Cursor, net), delivered)
  /\ Numbered(packed)

FifoInv == FaultlessInv /\ (faults = {} => QueueInv)
-----------------------------------------------------------------------------
LEMMA KeptNumber ==
  ASSUME NEW lens, NEW n \in Nat
  PROVE  KeptOf(lens, n) \in Nat /\ IsFiniteSet(CompletedOf(lens, n))
<1>1. CompletedOf(lens, n) \in SUBSET (1..n)
  BY DEF CompletedOf
<1>2. IsFiniteSet(1..n)
  BY FS_Interval
<1> QED
  BY <1>1, <1>2, FS_Subset, FS_CardinalityType DEF KeptOf

LEMMA KeptNext ==
  ASSUME NEW lens, NEW n \in Nat
  PROVE  KeptOf(lens, n + 1) = KeptOf(lens, n) + (IF Completed(lens[n + 1]) THEN 1 ELSE 0)
<1>1. KeptOf(lens, n) \in Nat /\ IsFiniteSet(CompletedOf(lens, n))
  BY KeptNumber
<1>2. n + 1 \notin CompletedOf(lens, n)
  BY DEF CompletedOf
<1>3. 1..(n + 1) = (1..n) \cup {n + 1}
  OBVIOUS
<1>4. CASE Completed(lens[n + 1])
  <2>1. CompletedOf(lens, n + 1) = CompletedOf(lens, n) \cup {n + 1}
    BY <1>3, <1>4 DEF CompletedOf
  <2> QED
    BY <1>1, <1>2, <1>4, <2>1, FS_AddElement DEF KeptOf
<1>5. CASE ~Completed(lens[n + 1])
  <2>1. CompletedOf(lens, n + 1) = CompletedOf(lens, n)
    BY <1>3, <1>5 DEF CompletedOf
  <2> QED
    BY <1>1, <1>5, <2>1 DEF KeptOf
<1> QED
  BY <1>4, <1>5

LEMMA KeptNone == ASSUME NEW lens PROVE KeptOf(lens, 0) = 0
<1>1. CompletedOf(lens, 0) = {}
  BY DEF CompletedOf
<1> QED
  BY <1>1, FS_EmptySet DEF KeptOf

LEMMA KeptMonotonic ==
  ASSUME NEW lens, NEW m \in Nat, NEW n \in Nat, m <= n
  PROVE  KeptOf(lens, m) <= KeptOf(lens, n)
<1>1. CompletedOf(lens, m) \in SUBSET CompletedOf(lens, n)
  BY DEF CompletedOf
<1> QED
  BY <1>1, KeptNumber, FS_Subset DEF KeptOf

\* A NALU that is not passed over counts for more than those before it.
LEMMA KeptGrows ==
  ASSUME NEW lens, NEW m \in Nat, NEW n \in Nat, m < n, Completed(lens[n])
  PROVE  KeptOf(lens, m) < KeptOf(lens, n)
<1> DEFINE j == n - 1
<1>1. j \in Nat /\ n = j + 1 /\ m <= j
  OBVIOUS
<1> HIDE DEF j
<1>2. KeptOf(lens, m) <= KeptOf(lens, j) /\ KeptOf(lens, m) \in Nat /\ KeptOf(lens, j) \in Nat
  BY <1>1, KeptMonotonic, KeptNumber
<1>3. KeptOf(lens, j + 1) = KeptOf(lens, j) + 1
  BY <1>1, KeptNext
<1> QED
  BY <1>1, <1>2, <1>3

LEMMA KeptSame ==
  ASSUME NEW lens, NEW more, NEW n \in Nat, \A m \in 1..n : more[m] = lens[m]
  PROVE  KeptOf(more, n) = KeptOf(lens, n)
BY DEF KeptOf, CompletedOf

LEMMA KthIs ==
  ASSUME NEW S, NEW lens \in Seq(S), NEW n \in DOMAIN lens, Completed(lens[n])
  PROVE  KthOf(lens, KeptOf(lens, n)) = n
<1> DEFINE k == KeptOf(lens, n)
<1>1. \A m \in DOMAIN lens : m \in Nat
  OBVIOUS
<1>2. ASSUME NEW m \in DOMAIN lens, Completed(lens[m]), KeptOf(lens, m) = k PROVE m = n
  <2>1. m < n \/ n < m \/ m = n
    BY <1>1
  <2>2. KeptOf(lens, m) \in Nat /\ k \in Nat
    BY <1>1, KeptNumber
  <2>3. ~(m < n)
    BY <1>1, <1>2, <2>2, KeptGrows
  <2>4. ~(n < m)
    BY <1>1, <1>2, <2>2, KeptGrows
  <2> QED
    BY <2>1, <2>3, <2>4
<1>3. Completed(lens[n]) /\ KeptOf(lens, n) = k
  OBVIOUS
<1> HIDE DEF k
<1>4. KthOf(lens, k) = n
  BY <1>2, <1>3 DEF KthOf
<1> QED
  BY <1>4 DEF k
-----------------------------------------------------------------------------
(* The line of packets, and what has come out of it.                       *)

LEMMA LineExtends ==
  ASSUME NEW lens, NEW cursor, NEW S, NEW packets \in Seq(S), NEW p \in S,
         InLine(lens, cursor, packets), p.nalu = cursor, cursor \in DOMAIN lens
  PROVE  /\ InLine(lens, After(lens, p), Append(packets, p))
         /\ HeadOf(After(lens, p), Append(packets, p)) = HeadOf(cursor, packets)
<1> DEFINE more == Append(packets, p)
<1>1. /\ Len(packets) \in Nat /\ DOMAIN packets = 1..Len(packets)
      /\ more \in Seq(S) /\ Len(more) = Len(packets) + 1
      /\ DOMAIN more = 1..(Len(packets) + 1)
      /\ \A k \in 1..Len(packets) : more[k] = packets[k]
      /\ more[Len(packets) + 1] = p
      /\ packets = <<>> <=> Len(packets) = 0
  OBVIOUS
<1> HIDE DEF more
<1>2. ASSUME NEW k \in DOMAIN more
      PROVE  /\ more[k].nalu \in DOMAIN lens
             /\ After(lens, more[k]) = IF k = Len(more) THEN After(lens, p) ELSE more[k + 1].nalu
  <2>1. CASE k = Len(packets) + 1
    BY <1>1, <2>1
  <2>2. CASE k = Len(packets) /\ k # 0
    <3> DEFINE l == Len(packets)
    <3>1. l \in Nat /\ k = l /\ l # 0 /\ Len(more) = l + 1
      BY <1>1, <2>2
    <3>2. more[k] = packets[k] /\ more[k + 1] = p /\ k # Len(more) /\ k \in DOMAIN packets
      <4>1. k \in 1..l /\ k # l + 1
        <5> HIDE DEF l
        <5> QED
          BY <3>1
      <4> QED
        BY <1>1, <3>1, <4>1
    <3>3. packets[k].nalu \in DOMAIN lens /\ After(lens, packets[k]) = cursor
      BY <2>2, <3>2 DEF InLine
    <3> QED
      BY <3>2, <3>3
  <2>3. CASE k \in DOMAIN packets /\ k # Len(packets)
    <3>1. k + 1 \in DOMAIN packets /\ k # Len(more) /\ more[k] = packets[k] /\ more[k + 1] = packets[k + 1]
      BY <1>1, <2>3
    <3> QED
      BY <2>3, <3>1 DEF InLine
  <2> QED
    BY <1>1, <2>1, <2>2, <2>3
<1>3. HeadOf(After(lens, p), more) = HeadOf(cursor, packets)
  <2>1. more # <<>>
    BY <1>1
  <2>2. more[1].nalu = IF packets = <<>> THEN cursor ELSE packets[1].nalu
    BY <1>1
  <2> QED
    BY <2>1, <2>2 DEF HeadOf
<1> QED
  BY <1>2, <1>3 DEF InLine, more

LEMMA LineShrinks ==
  ASSUME NEW lens, NEW cursor, NEW S, NEW packets \in Seq(S), 1 \in DOMAIN packets,
         InLine(lens, cursor, packets)
  PROVE  /\ InLine(lens, cursor, RemoveAt(packets, 1))
         /\ HeadOf(cursor, RemoveAt(packets, 1)) = After(lens, packets[1])
<1> DEFINE rest == RemoveAt(packets, 1)
<1>1. /\ Len(packets) \in Nat \ {0} /\ DOMAIN packets = 1..Len(packets)
      /\ rest \in Seq(S) /\ Len(rest) = Len(packets) - 1
      /\ DOMAIN rest = 1..(Len(packets) - 1)
      /\ \A k \in 1..(Len(packets) - 1) : rest[k] = packets[k + 1]
  <2>1. Len(packets) \in Nat \ {0} /\ DOMAIN packets = 1..Len(packets) /\ 1 \in 1..Len(packets)
    OBVIOUS
  <2> QED
    BY <2>1, FirstRemoved, RemoveKeeps
<1> HIDE DEF rest
<1>2. rest = <<>> <=> Len(packets) = 1
  BY <1>1
<1>3. ASSUME NEW k \in DOMAIN rest
      PROVE  /\ rest[k].nalu \in DOMAIN lens
             /\ After(lens, rest[k]) = IF k = Len(rest) THEN cursor ELSE rest[k + 1].nalu
  <2>1. k + 1 \in DOMAIN packets /\ rest[k] = packets[k + 1]
    BY <1>1
  <2>2. /\ packets[k + 1].nalu \in DOMAIN lens
        /\ After(lens, packets[k + 1]) =
             IF k + 1 = Len(packets) THEN cursor ELSE packets[(k + 1) + 1].nalu
    BY <2>1, Zenon DEF InLine
  <2>3. k = Len(rest) <=> k + 1 = Len(packets)
    BY <1>1
  <2>4. k # Len(rest) => rest[k + 1] = packets[(k + 1) + 1]
    BY <1>1
  <2> QED
    BY <2>1, <2>2, <2>3, <2>4
<1>4. HeadOf(cursor, rest) = After(lens, packets[1])
  <2>1. After(lens, packets[1]) = IF 1 = Len(packets) THEN cursor ELSE packets[1 + 1].nalu
    BY DEF InLine
  <2>2. Len(packets) # 1 => rest[1] = packets[1 + 1]
    BY <1>1
  <2> QED
    BY <1>2, <2>1, <2>2 DEF HeadOf
<1> QED
  BY <1>3, <1>4 DEF InLine, rest

\* Another NALU changes nothing about those before it.
LEMMA LensGrow ==
  ASSUME NEW S, NEW lens \in Seq(S), NEW len \in S
  PROVE  /\ \A n \in 0..Len(lens) : KeptOf(Append(lens, len), n) = KeptOf(lens, n)
         /\ KeptOf(Append(lens, len), Len(lens) + 1) =
              KeptOf(lens, Len(lens)) + (IF Completed(len) THEN 1 ELSE 0)
         /\ \A n \in 1..Len(lens) : NaluOf(Append(lens, len), n) = NaluOf(lens, n)
         /\ \A p : p.nalu \in DOMAIN lens => After(Append(lens, len), p) = After(lens, p)
<1> DEFINE more == Append(lens, len)
<1>1. /\ Len(lens) \in Nat /\ DOMAIN lens = 1..Len(lens)
      /\ \A n \in 1..Len(lens) : more[n] = lens[n]
      /\ more[Len(lens) + 1] = len
  OBVIOUS
<1> HIDE DEF more
<1>2. ASSUME NEW n \in 0..Len(lens) PROVE KeptOf(more, n) = KeptOf(lens, n)
  <2>1. n \in Nat /\ \A m \in 1..n : more[m] = lens[m]
    BY <1>1
  <2> QED
    BY <2>1, KeptSame
<1>3. KeptOf(more, Len(lens) + 1) = KeptOf(lens, Len(lens)) + (IF Completed(len) THEN 1 ELSE 0)
  BY <1>1, <1>2, KeptNext
<1>4. \A n \in 1..Len(lens) : NaluOf(more, n) = NaluOf(lens, n)
  BY <1>1 DEF NaluOf
<1>5. \A p : p.nalu \in DOMAIN lens => After(more, p) = After(lens, p)
  BY <1>1 DEF After, Final
<1> QED
  BY <1>2, <1>3, <1>4, <1>5 DEF more

LEMMA DeliveredGrow ==
  ASSUME NEW S, NEW lens \in Seq(S), NEW len \in S
  PROVE  /\ \A cursor, packets :
              InLine(lens, cursor, packets) => InLine(Append(lens, len), cursor, packets)
         /\ \A head, out :
              DeliveredTo(lens, head, out) => DeliveredTo(Append(lens, len), head, out)
         /\ Numbered(lens) => Numbered(Append(lens, len))
<1> DEFINE more == Append(lens, len)
           K == KeptOf(lens, Len(lens))
<1>1. /\ Len(lens) \in Nat /\ DOMAIN lens = 1..Len(lens)
      /\ DOMAIN more = 1..(Len(lens) + 1) /\ Len(more) = Len(lens) + 1
      /\ \A n \in 1..Len(lens) : more[n] = lens[n]
      /\ more[Len(lens) + 1] = len
  OBVIOUS
<1>2. /\ \A n \in 0..Len(lens) : KeptOf(more, n) = KeptOf(lens, n)
      /\ KeptOf(more, Len(lens) + 1) = K + (IF Completed(len) THEN 1 ELSE 0)
      /\ \A n \in 1..Len(lens) : NaluOf(more, n) = NaluOf(lens, n)
      /\ \A p : p.nalu \in DOMAIN lens => After(more, p) = After(lens, p)
  BY LensGrow
<1>3. K \in Nat
  BY <1>1, KeptNumber
<1> HIDE DEF more, K
<1>4. ASSUME NEW cursor, NEW packets, InLine(lens, cursor, packets)
      PROVE  InLine(more, cursor, packets)
  <2>1. \A n \in DOMAIN lens : n \in DOMAIN more
    BY <1>1
  <2> QED
    BY <1>2, <1>4, <2>1 DEF InLine
<1>5. ASSUME NEW head, NEW out, DeliveredTo(lens, head, out)
      PROVE  DeliveredTo(more, head, out)
  <2>1. head \in 1..(Len(lens) + 1)
    BY <1>5 DEF DeliveredTo
  <2>2. head \in 1..(Len(more) + 1) /\ head - 1 \in 0..Len(lens)
    BY <1>1, <2>1
  <2>3. Len(out) = KeptOf(more, head - 1)
    BY <1>2, <1>5, <2>2 DEF DeliveredTo
  <2>4. ASSUME NEW n \in 1..(head - 1), Completed(more[n])
        PROVE  out[KeptOf(more, n)] = NaluOf(more, n)
    <3>1. n \in 1..Len(lens) /\ n \in 0..Len(lens)
      BY <1>1, <2>1
    <3>2. Completed(lens[n])
      BY <1>1, <2>4, <3>1
    <3>3. out[KeptOf(lens, n)] = NaluOf(lens, n)
      BY <1>5, <3>2 DEF DeliveredTo
    <3> QED
      BY <1>2, <3>1, <3>3
  <2> QED
    BY <2>2, <2>3, <2>4 DEF DeliveredTo
<1>6. ASSUME Numbered(lens), NEW k \in 1..KeptOf(more, Len(more))
      PROVE  \E n \in DOMAIN more : Completed(more[n]) /\ KeptOf(more, n) = k
  <2>1. CASE k \in 1..K
    <3>1. PICK n \in DOMAIN lens : Completed(lens[n]) /\ KeptOf(lens, n) = k
      BY <1>6, <2>1 DEF Numbered, K
    <3>2. n \in 1..Len(lens) /\ n \in 0..Len(lens) /\ n \in DOMAIN more
      BY <1>1
    <3> QED
      BY <1>1, <1>2, <3>1, <3>2
  <2>2. CASE k \notin 1..K
    <3>1. k = K + 1 /\ Completed(len) /\ KeptOf(more, Len(lens) + 1) = K + 1
      BY <1>1, <1>2, <1>3, <2>2
    <3>2. Len(lens) + 1 \in DOMAIN more
      BY <1>1
    <3> QED
      BY <1>1, <3>1, <3>2
  <2> QED
    BY <2>1, <2>2
<1>7. Numbered(lens) => Numbered(more)
  BY <1>6 DEF Numbered
<1> QED
  BY <1>4, <1>5, <1>7 DEF more

LEMMA DeliveredNext ==
  ASSUME NEW S, NEW lens \in Seq(S), NEW head \in DOMAIN lens,
         NEW T, NEW out \in Seq(T), DeliveredTo(lens, head, out)
  PROVE  /\ ~Completed(lens[head]) => DeliveredTo(lens, head + 1, out)
         /\ Completed(lens[head]) /\ NaluOf(lens, head) \in T =>
              /\ DeliveredTo(lens, head + 1, Append(out, NaluOf(lens, head)))
              /\ Len(out) + 1 = KeptOf(lens, head)
<1> DEFINE h == head - 1
<1>1. /\ Len(lens) \in Nat /\ head \in Nat /\ h \in Nat /\ head = h + 1
      /\ head + 1 \in 1..(Len(lens) + 1) /\ (head + 1) - 1 = head
      /\ Len(out) \in Nat
  OBVIOUS
<1>2. Len(out) = KeptOf(lens, h)
  BY DEF DeliveredTo
<1> HIDE DEF h
<1>3. KeptOf(lens, head) = KeptOf(lens, h) + (IF Completed(lens[head]) THEN 1 ELSE 0)
  BY <1>1, KeptNext
<1>4. ASSUME NEW n \in 1..h, Completed(lens[n])
      PROVE  out[KeptOf(lens, n)] = NaluOf(lens, n) /\ KeptOf(lens, n) \in 1..Len(out)
  <2>1. n \in 1..(head - 1) /\ n \in Nat /\ 0 < n /\ n <= h
    BY <1>1
  <2>2. out[KeptOf(lens, n)] = NaluOf(lens, n)
    BY <1>4, <2>1 DEF DeliveredTo
  <2>3. KeptOf(lens, n) <= KeptOf(lens, h)
    BY <1>1, <2>1, KeptMonotonic
  <2>4. KeptOf(lens, 0) < KeptOf(lens, n)
    BY <1>4, <2>1, 0 \in Nat, KeptGrows
  <2>5. KeptOf(lens, 0) = 0 /\ KeptOf(lens, n) \in Nat
    BY <2>1, KeptNone, KeptNumber
  <2> QED
    BY <1>1, <1>2, <2>2, <2>3, <2>4, <2>5
<1>5. \A n \in 1..((head + 1) - 1) : n \in 1..h \/ n = head
  BY <1>1
<1>6. ASSUME ~Completed(lens[head]) PROVE DeliveredTo(lens, head + 1, out)
  <2>1. Len(out) = KeptOf(lens, (head + 1) - 1)
    BY <1>1, <1>2, <1>3, <1>6
  <2>2. \A n \in 1..((head + 1) - 1) : Completed(lens[n]) => out[KeptOf(lens, n)] = NaluOf(lens, n)
    BY <1>4, <1>5, <1>6
  <2> QED
    BY <1>1, <2>1, <2>2 DEF DeliveredTo
<1>7. ASSUME Completed(lens[head]), NaluOf(lens, head) \in T
      PROVE  /\ DeliveredTo(lens, head + 1, Append(out, NaluOf(lens, head)))
             /\ Len(out) + 1 = KeptOf(lens, head)
  <2> DEFINE more == Append(out, NaluOf(lens, head))
  <2>1. /\ Len(more) = Len(out) + 1 /\ more[Len(out) + 1] = NaluOf(lens, head)
        /\ \A k \in 1..Len(out) : more[k] = out[k]
    BY <1>7, AppendProperties
  <2> HIDE DEF more
  <2>2. Len(out) + 1 = KeptOf(lens, head)
    BY <1>2, <1>3, <1>7
  <2>3. Len(more) = KeptOf(lens, (head + 1) - 1)
    BY <1>1, <2>1, <2>2
  <2>4. ASSUME NEW n \in 1..((head + 1) - 1), Completed(lens[n])
        PROVE  more[KeptOf(lens, n)] = NaluOf(lens, n)
    <3>1. CASE n = head
      BY <2>1, <2>2, <3>1
    <3>2. CASE n \in 1..h
      BY <1>4, <2>1, <2>4, <3>2
    <3> QED
      BY <1>5, <3>1, <3>2
  <2>5. DeliveredTo(lens, head + 1, more)
    BY <1>1, <2>3, <2>4 DEF DeliveredTo
  <2> QED
    BY <2>2, <2>5 DEF more
<1> QED
  BY <1>6, <1>7
-----------------------------------------------------------------------------
(* The steps.                                                              *)

LEMMA FifoForms ==
  /\ \A n : Cardinality(CompletedUpTo(n)) = KeptOf(packed, n)
  /\ \A n : Nalu(n) = NaluOf(packed, n)
  /\ Complete = CompleteOf(packed)
BY DEF KeptOf, CompletedOf, CompletedUpTo, NaluOf, Nalu, Complete, CompleteOf, Kth, KthOf

\* A packet in flight is a NALU or a fragment of one.
LEMMA PacketsInFlight ==
  ASSUME RtpInv, LinkInv, NEW k \in DOMAIN net
  PROVE  \/ \E n \in DOMAIN packed :
              packed[n] <= FragmentSize /\ net[k] = Single(n, packed[n])
         \/ \E n \in DOMAIN packed, i \in Nat : InNalu(n, i) /\ net[k] = Piece(n, i)
<1>1. net[k] \in Datagrams
  BY NetLength
<1>2. CASE net[k].kind = "single"
  <2>1. net[k] \notin Foreign
    BY <1>2 DEF Foreign
  <2>2. ASSUME NEW q \in {m \in DOMAIN packed : packed[m] > FragmentSize} \X Nat
        PROVE  net[k] # Fragment(q[1], packed[q[1]], q[2])
    BY <1>2 DEF Fragment
  <2> QED
    BY <1>1, <2>1, <2>2 DEF Datagrams
<1>3. CASE net[k].kind # "single"
  BY <1>3, InFlight DEF LinkInv
<1> QED
  BY <1>2, <1>3

LEMMA PackQueue ==
  ASSUME RtpInv, LinkInv, QueueInv, NEW len \in Lengths, PackSingle(len) \/ PackFragmented(len)
  PROVE  QueueInv'
<1> DEFINE lens == packed'
           top == Len(packed) + 1
<1>1. /\ packed \in Seq(Lengths) /\ packed' = Append(packed, len) /\ fragment = -1
      /\ UNCHANGED delivered /\ open /\ Cursor = top
  BY DEF RtpInv, TypeOK, PackSingle, PackFragmented, LinkInv, Cursor
<1>2. /\ Len(packed) \in Nat /\ Len(lens) = top /\ top \in DOMAIN lens /\ lens[top] = len
  BY <1>1, AppendProperties
<1>3. /\ InLine(lens, top, net)
      /\ DeliveredTo(lens, HeadOf(top, net), delivered)
      /\ Numbered(lens)
  BY <1>1, DeliveredGrow DEF QueueInv
<1>4. CASE PackSingle(len)
  <2> DEFINE p == Single(top, len)
  <2>1. net' = Append(net, p) /\ fragment' = -1 /\ Cursor' = top + 1
    BY <1>1, <1>2, <1>4 DEF PackSingle, SendTo, Cursor
  <2>2. p.nalu = top /\ After(lens, p) = top + 1
    BY DEF Single, After, Final
  <2>3. net \in Seq(Datagrams \cup {p}) /\ p \in Datagrams \cup {p}
    BY NetLength, SeqMonotonic
  <2> HIDE DEF p, lens, top
  <2>4. /\ InLine(lens, After(lens, p), Append(net, p))
        /\ HeadOf(After(lens, p), Append(net, p)) = HeadOf(top, net)
    BY <1>2, <1>3, <2>2, <2>3, LineExtends
  <2>5. InLine(lens, Cursor', net') /\ HeadOf(Cursor', net') = HeadOf(top, net)
    BY <2>1, <2>2, <2>4
  <2> QED
    BY <1>1, <1>3, <2>5 DEF QueueInv, lens
<1>5. CASE PackFragmented(len)
  <2>1. net' = net /\ fragment' = 0 /\ Cursor' = top
    BY <1>2, <1>5 DEF PackFragmented, Cursor
  <2> QED
    BY <1>1, <1>3, <2>1 DEF QueueInv
<1> QED
  BY <1>4, <1>5

LEMMA SendQueue ==
  ASSUME RtpInv, LinkInv, QueueInv, SendFragment
  PROVE  QueueInv'
<1> DEFINE n == Len(packed)
           last == Count(packed[n]) - 1
           p == Piece(n, fragment)
<1>1. /\ TypeOK /\ FragmentsLong /\ fragment # -1 /\ packed # <<>>
      /\ UNCHANGED <<packed, delivered>> /\ net' = Append(net, p)
      /\ fragment' = IF fragment = last THEN -1 ELSE fragment + 1
      /\ fragment \in -1..last
  BY DEF RtpInv, SendFragment, SendTo, LinkInv, Piece, TypeOK, FragmentsLong, Last
<1>2. /\ n \in DOMAIN packed /\ packed[n] > FragmentSize /\ Cursor = n
  BY <1>1 DEF FragmentsLong, Last, TypeOK, Cursor
<1>3. last \in Int /\ InNalu(n, fragment) /\ InNalu(n, last)
  <2>1. Count(packed[n]) \in Nat
    BY <1>1, <1>2, NumbersSent, CountProperties
  <2> QED
    BY <1>1, <1>2, <2>1 DEF InNalu
<1>4. p.nalu = n /\ p.kind = "FU_A"
  BY DEF Piece, Fragment
<1>5. Final(packed, p) <=> fragment = last
  <2>1. Final(packed, p) <=> p = Piece(n, last)
    BY <1>4 DEF Final, Piece
  <2>2. p = Piece(n, last) => fragment = last
    <3> HIDE DEF n, last
    <3> QED
      BY <1>1, <1>3, PiecesDiffer
  <2> QED
    BY <2>1, <2>2
<1>6. After(packed, p) = Cursor'
  <2>1. fragment' = -1 <=> fragment = last
    <3>1. fragment \in Int /\ fragment >= 0
      BY <1>3 DEF InNalu
    <3> HIDE DEF last, n, p
    <3> QED
      BY <1>1, <3>1
  <2> QED
    BY <1>1, <1>4, <1>5, <2>1 DEF After, Cursor
<1>7. net \in Seq(Datagrams \cup {p}) /\ p \in Datagrams \cup {p}
  BY NetLength, SeqMonotonic
<1> HIDE DEF p, last, n
<1>8. /\ InLine(packed, After(packed, p), Append(net, p))
      /\ HeadOf(After(packed, p), Append(net, p)) = HeadOf(Cursor, net)
  BY <1>2, <1>4, <1>7, LineExtends DEF QueueInv
<1>9. InLine(packed, Cursor', net') /\ HeadOf(Cursor', net') = HeadOf(Cursor, net)
  BY <1>1, <1>6, <1>8
<1> QED
  BY <1>1, <1>9 DEF QueueInv

\* A NALU of fragments has one of them only when it exceeds a packet by a byte.
LEMMA CountOne ==
  ASSUME NEW len \in Nat \ {0}, len > FragmentSize
  PROVE  Count(len) = 1 <=> ~Completed(len)
<1> DEFINE F == FragmentSize
           x == len - 1 + F - 1
<1>1. F \in Nat \ {0} /\ x \in Nat /\ Count(len) = x \div F
  BY RtpAssumption DEF Count
<1>2. F * (x \div F) <= x /\ x < F * (x \div F) + F /\ x \div F \in Nat
  BY <1>1
<1>3. ASSUME x \div F = 1 PROVE len = F + 1
  <2>1. F * 1 = F
    BY <1>1
  <2> QED
    BY <1>1, <1>2, <1>3, <2>1
<1>4. ASSUME len = F + 1 PROVE x \div F = 1
  <2> DEFINE q == x \div F
  <2>1. x = 2 * F - 1
    BY <1>1, <1>4
  <2>2. F * q <= x /\ x < F * q + F /\ q \in Nat
    BY <1>2
  <2> HIDE DEF q, x
  <2>3. q # 0
    BY <1>1, <2>1, <2>2
  <2>4. ~(q >= 2)
    <3>1. q >= 2 => 2 * F <= q * F
      BY <1>1, <2>2, TimesMonotonic
    <3> QED
      BY <1>1, <2>1, <2>2, <3>1
  <2> QED
    BY <2>2, <2>3, <2>4 DEF q
<1> QED
  BY <1>1, <1>3, <1>4 DEF Completed

\* What the packet at the head brings.
LEMMA HeadArrives ==
  ASSUME RtpInv, LinkInv, 1 \in DOMAIN net, Parse(net[1])
  PROVE  LET n == net[1].nalu IN
           /\ n \in DOMAIN packed
           /\ IF Final(packed, net[1]) /\ Completed(packed[n])
              THEN delivered' = Append(delivered, Nalu(n))
              ELSE delivered' = delivered
<1> DEFINE p == net[1]
<1>1. TypeOK /\ FragmentSize \in Nat
  BY RtpAssumption DEF RtpInv
<1>2. CASE \E n \in DOMAIN packed : packed[n] <= FragmentSize /\ p = Single(n, packed[n])
  <2>1. PICK n \in DOMAIN packed : packed[n] <= FragmentSize /\ p = Single(n, packed[n])
    BY <1>2
  <2>2. p.kind = "single" /\ p.nalu = n /\ p.body = Nalu(n)
    BY <2>1 DEF Single, Nalu
  <2>3. Completed(packed[n])
    BY <1>1, <2>1, NumbersSent DEF Completed
  <2>4. delivered' = Append(delivered, Nalu(n))
    BY <2>2 DEF Parse, Delivers
  <2> QED
    BY <2>2, <2>3, <2>4 DEF Final
<1>3. CASE \E n \in DOMAIN packed, i \in Nat : InNalu(n, i) /\ p = Piece(n, i)
  <2>1. PICK n \in DOMAIN packed, i \in Nat : InNalu(n, i) /\ p = Piece(n, i)
    BY <1>3
  <2> DEFINE last == Count(packed[n]) - 1
  <2>2. /\ p.kind = "FU_A" /\ p.nalu = n /\ p.start = (i = 0)
        /\ p.end = (i # 0 /\ i = last)
        /\ p.body = Bytes(n, i * FragmentSize + 1, PieceEnd(n, i))
    BY <2>1 DEF Piece, Fragment, PieceEnd
  <2>3. packed[n] \in Nat \ {0} /\ packed[n] > FragmentSize /\ Count(packed[n]) \in Nat
    BY <1>1, <2>1, NumbersSent, CountProperties DEF InNalu
  <2>4. i <= last /\ last \in Nat /\ InNalu(n, last)
    BY <2>1, <2>3 DEF InNalu
  <2>5. Final(packed, p) <=> i = last
    <3>1. Final(packed, p) <=> p = Piece(n, last)
      BY <2>2 DEF Final, Piece
    <3>2. p = Piece(n, last) => i = last
      <4> HIDE DEF last, p
      <4> QED
        BY <1>1, <2>1, <2>4, PiecesDiffer
    <3> QED
      BY <2>1, <3>1, <3>2
  <2>6. i # 0 => assembly = Received(n, i)
    BY <2>1 DEF LinkInv, PiecesInOrder
  <2>7. CASE i # last
    <3>1. ~p.end
      BY <2>2, <2>7
    <3>2. delivered' = delivered
      BY <2>2, <3>1 DEF Parse, Keeps
    <3> QED
      BY <2>1, <2>2, <2>5, <2>7, <3>2
  <2>8. CASE i = last /\ i = 0
    <3>1. ~Completed(packed[n])
      BY <2>3, <2>8, CountOne
    <3>2. delivered' = delivered
      BY <2>2, <2>8 DEF Parse, Keeps
    <3> QED
      BY <2>1, <2>2, <3>1, <3>2
  <2>9. CASE i = last /\ i # 0
    <3>1. Completed(packed[n])
      BY <2>3, <2>9, CountOne
    <3>2. p.end /\ ~p.start
      BY <2>2, <2>9
    <3> DEFINE a == i * FragmentSize
    <3>3. a \in Nat /\ a <= PieceEnd(n, i) /\ PieceEnd(n, i) \in Nat /\ n \in 0..MaxNalus
      BY <1>1, <2>1, PieceFits
    <3>4. assembly = Bytes(n, 0, a)
      BY <2>6, <2>9 DEF Received
    <3>5. p.body = Bytes(n, a + 1, PieceEnd(n, i))
      BY <2>2
    <3>6. PieceEnd(n, i) = packed[n] - 1
      <4>1. (i + 1) * FragmentSize >= packed[n] - 1
        <5> DEFINE c == Count(packed[n])
                   x == packed[n] - 1 + FragmentSize - 1
        <5>1. x \in Nat /\ FragmentSize \in Nat \ {0} /\ c = x \div FragmentSize /\ i + 1 = c
          BY <2>3, <2>9, RtpAssumption DEF Count
        <5>2. x < FragmentSize * (x \div FragmentSize) + FragmentSize
          BY <5>1
        <5>3. c * FragmentSize = FragmentSize * c /\ c * FragmentSize \in Nat
          BY <2>3, <5>1
        <5> HIDE DEF c
        <5>4. x < c * FragmentSize + FragmentSize
          BY <5>1, <5>2, <5>3
        <5> QED
          BY <2>3, <5>1, <5>3, <5>4
      <4>2. (i + 1) * FragmentSize \in Nat
        BY <1>1
      <4> QED
        BY <2>3, <4>1, <4>2 DEF PieceEnd, Least
    <3> HIDE DEF a, p
    <3>7. assembly # <<>>
      <4>1. Len(assembly) = a - 0 + 1
        BY <3>3, <3>4, BytesProperties
      <4> QED
        BY <3>3, <4>1
    <3>8. assembly \o p.body = Bytes(n, 0, PieceEnd(n, i))
      BY <3>3, <3>4, <3>5, BytesJoin
    <3>9. delivered' = Append(delivered, assembly \o p.body)
      BY <2>2, <3>2, <3>7 DEF Parse, Delivers, p
    <3> QED
      BY <2>1, <2>2, <2>5, <2>9, <3>1, <3>6, <3>8, <3>9 DEF Nalu, p
  <2> QED
    BY <2>7, <2>8, <2>9
<1> QED
  BY <1>2, <1>3, PacketsInFlight

LEMMA ReceiveQueue ==
  ASSUME RtpInv, RtpInv', LinkInv, QueueInv, 1 \in DOMAIN net, Receive(1)
  PROVE  QueueInv'
<1> DEFINE n == net[1].nalu
           rest == RemoveAt(net, 1)
           T == Seq(AnyByte)
<1>1. /\ packed \in Seq(Lengths) /\ Parse(net[1]) /\ net' = rest
      /\ UNCHANGED <<packed, fragment>> /\ Cursor' = Cursor
      /\ delivered \in Seq(T) /\ delivered' \in Seq(T)
  BY SeqMonotonic DEF RtpInv, TypeOK, Receive, Cursor
<1>2. /\ n \in DOMAIN packed
      /\ IF Final(packed, net[1]) /\ Completed(packed[n])
         THEN delivered' = Append(delivered, Nalu(n))
         ELSE delivered' = delivered
  BY <1>1, HeadArrives
<1>3. Nalu(n) \in T
  <2>1. n \in 0..MaxNalus /\ packed[n] \in Nat \ {0}
    BY <1>2, NumbersSent DEF RtpInv
  <2> HIDE DEF n
  <2>2. packed[n] - 1 \in Int /\ 0 \in Nat
    BY <2>1
  <2>3. Bytes(n, 0, packed[n] - 1) \in Seq(AnyByte)
    BY <2>1, <2>2, BytesProperties, Zenon
  <2> QED
    BY <2>3 DEF Nalu
<1>4. InLine(packed, Cursor, rest) /\ HeadOf(Cursor, rest) = After(packed, net[1])
  BY NetLength, LineShrinks DEF QueueInv
<1>5. HeadOf(Cursor, net) = n
  BY DEF HeadOf
<1>6. DeliveredTo(packed, n, delivered)
  BY <1>5 DEF QueueInv
<1>7. DeliveredTo(packed, After(packed, net[1]), delivered')
  <2>1. CASE ~Final(packed, net[1])
    BY <1>2, <1>6, <2>1 DEF After
  <2>2. CASE Final(packed, net[1])
    <3>1. After(packed, net[1]) = n + 1
      BY <2>2 DEF After
    <3>2. Nalu(n) = NaluOf(packed, n)
      BY FifoForms
    <3> HIDE DEF n, T
    <3>3. CASE Completed(packed[n])
      BY <1>1, <1>2, <1>3, <1>6, <2>2, <3>1, <3>2, <3>3, DeliveredNext
    <3>4. CASE ~Completed(packed[n])
      BY <1>1, <1>2, <1>6, <2>2, <3>1, <3>4, DeliveredNext
    <3> QED
      BY <3>3, <3>4
  <2> QED
    BY <2>1, <2>2
<1> HIDE DEF rest
<1> QED
  BY <1>1, <1>4, <1>7 DEF QueueInv

LEMMA FifoStep ==
  ASSUME FifoInv, FaultlessInv', [Next]_vars
  PROVE  FifoInv'
<1> SUFFICES ASSUME faults' = {} PROVE QueueInv'
  BY DEF FifoInv
<1>1. RtpInv /\ RtpInv' /\ faults = faults'
  BY DEF FifoInv, FaultlessInv, RtpInv, vars, Next, Sender, PackSingle, PackFragmented,
         SendFragment, Network, Lose, Duplicate, ForeignSends, Receiver, Receive, Stop, Start
<1>2. LinkInv /\ QueueInv /\ faults = {}
  BY <1>1 DEF FifoInv, FaultlessInv
<1>3. CASE UNCHANGED vars
  BY <1>2, <1>3 DEF vars, QueueInv, Cursor
<1> QED
  BY <1>1, <1>2, <1>3, FaultlessMoves, PackQueue, SendQueue, ReceiveQueue
-----------------------------------------------------------------------------
(* The refinement of NaluFifo.                                             *)

LEMMA CompleteLength ==
  ASSUME NEW S, NEW lens \in Seq(S)
  PROVE  /\ KeptOf(lens, Len(lens)) \in Nat
         /\ Len(CompleteOf(lens)) = KeptOf(lens, Len(lens))
         /\ CompleteOf(lens) = <<>> <=> KeptOf(lens, Len(lens)) = 0
<1>1. KeptOf(lens, Len(lens)) \in Nat
  BY KeptNumber
<1> QED
  BY <1>1 DEF CompleteOf

\* Packing one NALU more sends it, unless it is passed over.
LEMMA CompleteGrows ==
  ASSUME NEW S, NEW lens \in Seq(S), NEW len \in S, Numbered(lens)
  PROVE  CompleteOf(Append(lens, len)) =
           IF Completed(len)
           THEN Append(CompleteOf(lens), NaluOf(Append(lens, len), Len(lens) + 1))
           ELSE CompleteOf(lens)
<1> DEFINE more == Append(lens, len)
           K == KeptOf(lens, Len(lens))
           top == Len(lens) + 1
<1>1. /\ Len(lens) \in Nat /\ DOMAIN lens = 1..Len(lens)
      /\ more \in Seq(S) /\ DOMAIN more = 1..top /\ Len(more) = top /\ top \in DOMAIN more
      /\ \A n \in 1..Len(lens) : more[n] = lens[n]
      /\ more[top] = len
  OBVIOUS
<1>2. /\ \A n \in 0..Len(lens) : KeptOf(more, n) = KeptOf(lens, n)
      /\ KeptOf(more, top) = K + (IF Completed(len) THEN 1 ELSE 0)
      /\ \A n \in 1..Len(lens) : NaluOf(more, n) = NaluOf(lens, n)
  BY LensGrow
<1>3. K \in Nat
  BY <1>1, KeptNumber
<1> HIDE DEF more, K, top
<1>4. ASSUME NEW k \in 1..K
      PROVE  NaluOf(more, KthOf(more, k)) = NaluOf(lens, KthOf(lens, k))
  <2>1. PICK n \in DOMAIN lens : Completed(lens[n]) /\ KeptOf(lens, n) = k
    BY DEF Numbered, K
  <2>2. n \in 1..Len(lens) /\ n \in 0..Len(lens) /\ n \in DOMAIN more
    BY <1>1 DEF top
  <2>3. Completed(more[n]) /\ KeptOf(more, n) = k
    BY <1>1, <1>2, <2>1, <2>2
  <2>4. KthOf(lens, k) = n
    BY <2>1, KthIs
  <2>5. KthOf(more, k) = n
    BY <1>1, <2>2, <2>3, KthIs
  <2> QED
    BY <1>2, <2>2, <2>4, <2>5
<1> DEFINE old == CompleteOf(lens)
           new == CompleteOf(more)
<1>5. old = [k \in 1..K |-> NaluOf(lens, KthOf(lens, k))] /\ Len(old) = K
  BY <1>3 DEF CompleteOf, K
<1>6. CASE ~Completed(len)
  <2>1. new = [k \in 1..K |-> NaluOf(more, KthOf(more, k))]
    BY <1>1, <1>2, <1>3, <1>6 DEF CompleteOf
  <2>2. new = old
    BY <1>4, <1>5, <2>1
  <2> QED
    BY <1>6, <2>2 DEF more
<1>7. CASE Completed(len)
  <2>1. KeptOf(more, top) = K + 1
    BY <1>2, <1>7
  <2>2. new = [k \in 1..(K + 1) |-> NaluOf(more, KthOf(more, k))]
    BY <1>1, <2>1 DEF CompleteOf
  <2>3. KthOf(more, K + 1) = top
    BY <1>1, <1>7, <2>1, KthIs
  <2> DEFINE x == NaluOf(more, top)
  <2>4. Append(old, x) = [k \in 1..(K + 1) |-> IF k = K + 1 THEN x ELSE old[k]]
    BY <1>3, <1>5
  <2>5. ASSUME NEW k \in 1..(K + 1)
        PROVE  NaluOf(more, KthOf(more, k)) = IF k = K + 1 THEN x ELSE old[k]
    <3>1. CASE k = K + 1
      BY <2>3, <3>1
    <3>2. CASE k # K + 1
      <4>1. k \in 1..K
        BY <1>3, <3>2
      <4> QED
        BY <1>4, <1>5, <3>2, <4>1
    <3> QED
      BY <3>1, <3>2
  <2> HIDE DEF new, x, old
  <2>6. new = Append(old, x)
    BY <2>2, <2>4, <2>5
  <2> QED
    BY <1>7, <2>6 DEF new, old, x, more, top
<1> QED
  BY <1>6, <1>7

\* Each step of the two ends is one of the queue, or none.
LEMMA FifoImplements ==
  ASSUME FifoInv, FaultlessInv', [Next]_vars
  PROVE  [Fifo!Next]_Fifo!vars
<1>1. RtpInv /\ RtpInv' /\ faults = faults' /\ packed \in Seq(Lengths)
  BY DEF FifoInv, FaultlessInv, RtpInv, TypeOK, vars, Next, Sender, PackSingle, PackFragmented,
         SendFragment, Network, Lose, Duplicate, ForeignSends, Receiver, Receive, Stop, Start
<1>2. CASE faults # {}
  BY <1>1, <1>2 DEF Fifo!vars
<1>3. CASE faults = {}
  <2>1. LinkInv /\ QueueInv
    BY <1>3 DEF FifoInv, FaultlessInv
  <2>2. ASSUME UNCHANGED <<packed, delivered>> PROVE UNCHANGED Fifo!vars
    <3>1. Complete' = Complete
      BY <2>2 DEF Complete, CompletedUpTo, Kth, Nalu
    <3> QED
      BY <1>1, <2>2, <3>1 DEF Fifo!vars
  <2>3. ASSUME NEW len \in Lengths, packed' = Append(packed, len), delivered' = delivered
        PROVE  [Fifo!Next]_Fifo!vars
    <3> DEFINE x == NaluOf(packed', Len(packed) + 1)
    <3>1. Complete = CompleteOf(packed) /\ Complete' = CompleteOf(packed')
      BY DEF Complete, CompleteOf, CompletedUpTo, Kth, Nalu, KthOf, KeptOf, CompletedOf, NaluOf
    <3>2. Complete' = IF Completed(len) THEN Append(Complete, x) ELSE Complete
      BY <1>1, <2>1, <2>3, <3>1, CompleteGrows DEF QueueInv
    <3>3. CASE ~Completed(len)
      BY <1>1, <2>3, <3>2, <3>3 DEF Fifo!vars
    <3>4. CASE Completed(len)
      <4>1. Len(Complete) \in Nat /\ Complete = [k \in 1..Len(Complete) |-> Complete[k]]
        BY <1>1, <3>1, CompleteLength DEF CompleteOf
      <4> HIDE DEF x
      <4>2. Complete' = Append(Complete, x)
        BY <3>2, <3>4
      <4>3. Complete' # <<>> /\ Complete'[Len(Complete')] = x
        BY <4>1, <4>2
      <4>4. Fifo!Send(Complete'[Len(Complete')])
        BY <1>1, <1>3, <2>3, <4>2, <4>3 DEF Fifo!Send
      <4> QED
        BY <1>1, <1>3, <4>3, <4>4 DEF Fifo!Next
    <3> QED
      BY <3>3, <3>4
  <2>4. ASSUME 1 \in DOMAIN net, Receive(1) PROVE [Fifo!Next]_Fifo!vars
    <3> DEFINE n == net[1].nalu
    <3>1. UNCHANGED packed /\ Parse(net[1]) /\ Complete' = Complete
      BY <2>4 DEF Receive, Complete, CompletedUpTo, Kth, Nalu
    <3>2. /\ n \in DOMAIN packed
          /\ IF Final(packed, net[1]) /\ Completed(packed[n])
             THEN delivered' = Append(delivered, Nalu(n))
             ELSE delivered' = delivered
      BY <1>1, <2>1, <2>4, <3>1, HeadArrives
    <3>3. CASE delivered' = delivered
      BY <2>2, <3>1, <3>3
    <3>4. CASE Completed(packed[n]) /\ delivered' = Append(delivered, Nalu(n))
      <4> DEFINE K == KeptOf(packed, Len(packed))
                 k == KeptOf(packed, n)
      <4>1. n \in Nat /\ n <= Len(packed) /\ 0 < n /\ Len(packed) \in Nat
        BY <1>1, <3>2
      <4>2. Len(delivered) + 1 = k /\ Len(delivered) \in Nat
        <5>1. DeliveredTo(packed, n, delivered)
          BY <2>1, <2>4 DEF QueueInv, HeadOf
        <5>2. delivered \in Seq(Seq(AnyByte) \cup {NaluOf(packed, n)})
          BY <1>1, SeqMonotonic DEF RtpInv, TypeOK
        <5> HIDE DEF n
        <5> QED
          BY <1>1, <3>2, <3>4, <5>1, <5>2, DeliveredNext
      <4>3. k \in Nat /\ K \in Nat /\ k <= K
        BY <4>1, KeptNumber, KeptMonotonic
      <4>4. Complete = [j \in 1..K |-> NaluOf(packed, KthOf(packed, j))]
        BY FifoForms DEF CompleteOf
      <4>5. KthOf(packed, k) = n
        BY <1>1, <3>2, <3>4, KthIs
      <4>6. Nalu(n) = NaluOf(packed, n)
        BY FifoForms
      <4> HIDE DEF n, k, K
      <4>7. Len(Complete) = K /\ Len(delivered) < Len(Complete) /\ k \in 1..K
        BY <4>2, <4>3, <4>4
      <4>8. Complete[Len(delivered) + 1] = Nalu(n)
        BY <4>2, <4>4, <4>5, <4>6, <4>7
      <4>9. Fifo!Deliver
        BY <1>1, <1>3, <3>1, <3>4, <4>7, <4>8 DEF Fifo!Deliver
      <4> QED
        BY <4>9 DEF Fifo!Next
    <3> QED
      BY <3>2, <3>3, <3>4
  <2>5. CASE UNCHANGED vars
    BY <2>2, <2>5 DEF vars
  <2>6. CASE SendFragment
    BY <2>2, <2>6 DEF SendFragment
  <2>7. CASE \E len \in Lengths : PackSingle(len) \/ PackFragmented(len)
    BY <2>3, <2>7 DEF PackSingle, PackFragmented
  <2> QED
    BY <1>3, <2>1, <2>4, <2>5, <2>6, <2>7, FaultlessMoves
<1> QED
  BY <1>2, <1>3

LEMMA FifoInit == Init => FifoInv /\ Fifo!Init
<1> SUFFICES ASSUME Init PROVE FifoInv /\ Fifo!Init
  OBVIOUS
<1>1. RtpInv
  BY RtpInit
<1>2. FaultlessInv
  BY <1>1
  DEF Init, FaultlessInv, LinkInv, PiecesInFlight, PiecesInOrder, LastPieceSent, PartHeld
<1>3. KeptOf(packed, 0) = 0 /\ Len(packed) = 0
  BY KeptNone DEF Init
<1>4. QueueInv
  <2>1. Cursor = 1 /\ HeadOf(Cursor, net) = 1
    BY <1>3 DEF Init, Cursor, HeadOf
  <2>2. InLine(packed, Cursor, net)
    BY DEF Init, InLine
  <2>3. DeliveredTo(packed, 1, delivered)
    BY <1>3 DEF Init, DeliveredTo
  <2>4. Numbered(packed)
    BY <1>3 DEF Numbered
  <2> QED
    BY <2>1, <2>2, <2>3, <2>4 DEF QueueInv
<1>5. Complete = <<>>
  <2>1. packed \in Seq({})
    BY DEF Init
  <2> QED
    BY <1>3, <2>1, FifoForms, CompleteLength
<1>6. Fifo!Init
  BY <1>5 DEF Init, Fifo!Init
<1> QED
  BY <1>2, <1>4, <1>6 DEF FifoInv

\* Over a network without faults each NALU that is not one byte longer than a packet is
\* delivered once, whole and in the order of sending: pack_and_send and rtp_parse
\* implement NaluFifo, for packets and NALUs of any length and any number in flight.
THEOREM RtpDeliversInOrder == Spec => DeliversInOrder
<1>1. FifoInv /\ FaultlessInv' /\ [Next]_vars => FifoInv' /\ [Fifo!Next]_Fifo!vars
  BY FifoStep, FifoImplements
<1> QED
  BY RtpFaultless, FifoInit, <1>1, PTL DEF Spec, DeliversInOrder, Fifo!Spec
=============================================================================
