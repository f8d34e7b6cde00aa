-------------------------- MODULE TeleopLinkProofs --------------------------
(***************************************************************************)
(* Proofs about the packet stream and the two buffers, for every number    *)
(* space, window, length of the bursts and number of packets and restarts. *)
(***************************************************************************)
EXTENDS TeleopLink, FiniteSetTheorems, SequenceTheorems, TLAPS

\* The constants are natural numbers, and half the number space is a number.
LEMMA Constants ==
    /\ SeqSpace \in Nat /\ SeqSpace > 2
    /\ SeqSpace \div 2 \in Nat /\ SeqSpace \div 2 < SeqSpace
    /\ Window \in Nat /\ MaxSent \in Nat /\ MaxFlight \in Nat
    /\ MaxBurst \in Nat /\ MaxRestarts \in Nat
    BY LinkAssumption DEF LinkAssumption

----------------------------------------------------------------------------
(* Facts about the library's operators.                                    *)

\* A non-empty set of natural numbers has a least element, and Min is it.
LEMMA MinFacts ==
    ASSUME NEW S, S \subseteq Nat, S # {}
    PROVE  Min(S) \in S /\ \A y \in S : Min(S) <= y
<1>1. PICK x \in S : \A y \in S : ~(<<y, x>> \in OpToRel(<, Nat))
    BY NatLessThanWellFounded, WFMin
<1>2. ASSUME NEW y \in S
      PROVE  x <= y
    <2>1. <<y, x>> \in Nat \X Nat
        OBVIOUS
    <2>2. ~(y < x)
        BY <1>1, <2>1 DEF OpToRel
    <2> QED
        BY <2>2
<1> QED
    BY <1>2 DEF Min

\* Max is the element that is not below any other.
LEMMA MaxFacts ==
    ASSUME NEW S, S \subseteq Nat, NEW x \in S, \A y \in S : y <= x
    PROVE  Max(S) = x
<1>1. Max(S) \in S /\ \A y \in S : Max(S) >= y
    BY DEF Max
<1>2. Max(S) \in Nat /\ x \in Nat /\ Max(S) <= x /\ Max(S) >= x
    BY <1>1
<1> QED
    BY <1>2

\* Removing one element of a sequence leaves a sequence; removing the first
\* shifts the others down.
LEMMA RemoveFacts ==
    ASSUME NEW S, NEW s \in Seq(S), NEW i \in 1 .. Len(s)
    PROVE  /\ RemoveAt(s, i) \in Seq(S)
           /\ Len(RemoveAt(s, i)) = Len(s) - 1
           /\ i = 1 => \A j \in 1 .. Len(s) - 1 : RemoveAt(s, i)[j] = s[j + 1]
<1> DEFINE a == SubSeq(s, 1, i - 1)
           b == SubSeq(s, i + 1, Len(s))
<1>0. Len(s) \in Nat /\ i \in Nat
    BY LenProperties
<1>1. a \in Seq(S) /\ Len(a) = i - 1
    BY <1>0, SubSeqProperties
<1>2. /\ b \in Seq(S) /\ Len(b) = Len(s) - i
      /\ \A j \in 1 .. Len(s) - i : b[j] = s[i + j]
    BY <1>0, SubSeqProperties
<1>3. /\ a \o b \in Seq(S) /\ Len(a \o b) = Len(s) - 1
      /\ \A j \in 1 .. Len(s) - 1 :
             (a \o b)[j] = IF j <= Len(a) THEN a[j] ELSE b[j - Len(a)]
    <2> HIDE DEF a, b
    <2>1. Len(a) + Len(b) = Len(s) - 1
        BY <1>0, <1>1, <1>2
    <2>2. /\ a \o b \in Seq(S) /\ Len(a \o b) = Len(a) + Len(b)
          /\ \A j \in 1 .. Len(a) + Len(b) :
                 (a \o b)[j] = IF j <= Len(a) THEN a[j] ELSE b[j - Len(a)]
        BY <1>1, <1>2, ConcatProperties, Zenon
    <2> QED
        BY <2>1, <2>2, Zenon
<1>4. ASSUME i = 1, NEW j \in 1 .. Len(s) - 1
      PROVE  (a \o b)[j] = s[j + 1]
    BY <1>0, <1>1, <1>2, <1>3, <1>4
<1> HIDE DEF a, b
<1> QED
    BY <1>3, <1>4 DEF RemoveAt, a, b

----------------------------------------------------------------------------
(* Arithmetic of the sequence numbers.                                     *)

\* A number is a multiple of the number space plus its remainder.
LEMMA Remainder ==
    ASSUME NEW n \in Int
    PROVE  /\ n % SeqSpace \in SeqNums
           /\ n \div SeqSpace \in Int
           /\ n % SeqSpace = n - SeqSpace * (n \div SeqSpace)
<1>1. SeqSpace \in Int /\ SeqSpace > 0
    BY Constants
<1>2. n % SeqSpace \in 0 .. SeqSpace - 1
    BY <1>1
<1>3. n \div SeqSpace \in Int
    BY <1>1
<1>4. n % SeqSpace = n - SeqSpace * (n \div SeqSpace)
    BY <1>1
<1> QED
    BY <1>2, <1>3, <1>4 DEF SeqNums

\* Adding a multiple of the number space does not change a remainder.
LEMMA RemainderOf ==
    ASSUME NEW q \in Int, NEW r \in SeqNums
    PROVE  (SeqSpace * q + r) % SeqSpace = r
<1>1. SeqSpace \in Nat /\ SeqSpace > 0
    BY Constants
<1>2. r \in 0 .. SeqSpace - 1
    BY DEF SeqNums
<1> QED
    BY <1>1, <1>2

\* The sender's counter follows the serials across the wrap.
LEMMA NumberStep ==
    ASSUME NEW n \in Nat
    PROVE  /\ Number(n) \in SeqNums
           /\ (Number(n) + 1) % SeqSpace = Number(n + 1)
<1> DEFINE q == (n - 1) \div SeqSpace
           r == (n - 1) % SeqSpace
<1>1. r \in SeqNums /\ q \in Int /\ r = (n - 1) - SeqSpace * q
    BY Remainder
<1>2. SeqSpace \in Nat /\ SeqSpace > 2
    BY Constants
<1>3. (r + 1) % SeqSpace = n % SeqSpace
    <2> HIDE DEF q, r
    <2>0. SeqSpace * q \in Int /\ SeqSpace * (q + 1) = SeqSpace * q + SeqSpace
        BY <1>1, <1>2
    <2>1. CASE r + 1 < SeqSpace
        <3>1. r + 1 \in SeqNums
            BY <1>1, <1>2, <2>1 DEF SeqNums
        <3>2. n = SeqSpace * q + (r + 1)
            BY <1>1, <2>0 DEF SeqNums
        <3>3. r + 1 = SeqSpace * 0 + (r + 1)
            BY <1>2, <3>1 DEF SeqNums
        <3> QED
            BY <1>1, <3>1, <3>2, <3>3, RemainderOf
    <2>2. CASE r + 1 = SeqSpace
        <3>1. 0 \in SeqNums /\ q + 1 \in Int
            BY <1>1, <1>2 DEF SeqNums
        <3>2. n = SeqSpace * (q + 1) + 0
            BY <1>1, <1>2, <2>0, <2>2 DEF SeqNums
        <3>3. r + 1 = SeqSpace * 1 + 0
            BY <1>2, <2>2
        <3> QED
            BY <3>1, <3>2, <3>3, RemainderOf
    <2> QED
        BY <1>1, <1>2, <2>1, <2>2 DEF SeqNums
<1>4. n + 1 - 1 = n
    OBVIOUS
<1> QED
    BY <1>1, <1>3, <1>4 DEF Number

\* The difference of two numbers is the difference of the serials, as long as
\* that is smaller than the number space.
LEMMA NumberDiff ==
    ASSUME NEW p \in Nat, NEW h \in Nat, p - h \in SeqNums
    PROVE  (Number(p) - Number(h)) % SeqSpace = p - h
<1> DEFINE qp == (p - 1) \div SeqSpace
           qh == (h - 1) \div SeqSpace
           rp == (p - 1) % SeqSpace
           rh == (h - 1) % SeqSpace
<1>1. /\ rp \in SeqNums /\ qp \in Int /\ rp = (p - 1) - SeqSpace * qp
      /\ rh \in SeqNums /\ qh \in Int /\ rh = (h - 1) - SeqSpace * qh
    BY Remainder
<1>2. SeqSpace \in Nat
    BY Constants
<1>3. rp - rh = SeqSpace * (qh - qp) + (p - h)
    <2> HIDE DEF qp, qh, rp, rh
    <2>1. /\ SeqSpace * qp \in Int /\ SeqSpace * qh \in Int
          /\ SeqSpace * (qh - qp) = SeqSpace * qh - SeqSpace * qp
        BY <1>1, <1>2
    <2> QED
        BY <1>1, <2>1
<1>4. qh - qp \in Int
    BY <1>1
<1>5. (rp - rh) % SeqSpace = p - h
    BY <1>3, <1>4, RemainderOf
<1> QED
    BY <1>5 DEF Number

----------------------------------------------------------------------------
(* The buffers.                                                            *)

\* The difference of the numbers and the loss that is read off it are numbers.
LEMMA LossTypes ==
    ASSUME NEW pkt, pkt.seq \in SeqNums,
           NEW b, b.seq \in SeqNums
    PROVE  Diff(pkt, b) \in SeqNums /\ LostBefore(pkt, b) \in SeqNums
<1>1. pkt.seq - b.seq \in Int
    BY Constants DEF SeqNums
<1>2. Diff(pkt, b) \in SeqNums
    BY <1>1, Remainder DEF Diff
<1>3. 0 \in SeqNums
    BY Constants DEF SeqNums
<1>4. Diff(pkt, b) > 1 => Diff(pkt, b) - 1 \in SeqNums
    BY <1>2, Constants DEF SeqNums
<1> QED
    BY <1>2, <1>3, <1>4 DEF LostBefore

(***************************************************************************)
(* trim_locked removes a prefix, and the first sample it leaves is inside  *)
(* the window.                                                             *)
(***************************************************************************)
LEMMA TrimFacts ==
    ASSUME NEW s \in Seq(Sample), Len(s) > 0, InWindow(s[Len(s)])
    PROVE  \E k \in 1 .. Len(s) :
               /\ InWindow(s[k])
               /\ Trimmed(s) \in Seq(Sample)
               /\ Len(Trimmed(s)) = Len(s) - k + 1
               /\ \A i \in 1 .. Len(s) - k + 1 : Trimmed(s)[i] = s[k + i - 1]
<1> DEFINE I == {i \in 1 .. Len(s) : InWindow(s[i])}
           k == SelectInSeq(s, InWindow)
<1>1. Len(s) \in Nat
    BY LenProperties
<1>2. Len(s) \in I /\ I \subseteq Nat
    BY <1>1
<1>3. k = Min(I) /\ Min(I) \in I
    BY <1>2, MinFacts DEF SelectInSeq
<1>4. k \in 1 .. Len(s) /\ InWindow(s[k])
    BY <1>3
<1>5. Trimmed(s) = SubSeq(s, k, Len(s))
    BY DEF Trimmed
<1> HIDE DEF k
<1>6. \A i \in k .. Len(s) : s[i] \in Sample
    BY <1>1, <1>4, ElementOfSeq
<1>7. /\ SubSeq(s, k, Len(s)) \in Seq(Sample)
      /\ Len(SubSeq(s, k, Len(s))) = Len(s) - k + 1
      /\ \A i \in 1 .. Len(s) - k + 1 : SubSeq(s, k, Len(s))[i] = s[k + i - 1]
    BY <1>1, <1>4, <1>6, SubSeqProperties
<1> QED
    BY <1>4, <1>5, <1>7

\* What a sample looks like that update() adds.
NewSample(b, pkt) == [age |-> 0, lost |-> LostBefore(pkt, b)]
Kept(b, pkt) == IF Backwards(pkt, b) THEN <<>> ELSE b.samples

\* The types of a feedback buffer.
Buffer == [has : BOOLEAN, serial : 0 .. MaxSent, seq : SeqNums, lost : Nat,
           received : Nat, age : SampleAge, samples : Seq(Sample)]

(***************************************************************************)
(* FeedbackStateBuffer::update: the new sample is the last one, before it  *)
(* is a suffix of the samples that were there, and the first one is inside *)
(* the window.                                                             *)
(***************************************************************************)
LEMMA SampleFacts ==
    ASSUME NEW b \in Buffer, NEW pkt \in LinkPacket,
           ~(b.has /\ Diff(pkt, b) = 0)
    PROVE  LET all == Append(Kept(b, pkt), NewSample(b, pkt))
               u   == FeedbackUpdate(b, pkt)
           IN  /\ Kept(b, pkt) \in Seq(Sample)
               /\ NewSample(b, pkt) \in Sample
               /\ all \in Seq(Sample)
               /\ u = [has |-> TRUE, serial |-> pkt.serial, seq |-> pkt.seq,
                       lost |-> b.lost + LostBefore(pkt, b),
                       received |-> b.received + 1, age |-> 0,
                       samples |-> Trimmed(all)]
               /\ \E k \in 1 .. Len(all) :
                      /\ InWindow(all[k])
                      /\ u.samples \in Seq(Sample)
                      /\ Len(u.samples) = Len(all) - k + 1
                      /\ \A i \in 1 .. Len(all) - k + 1 :
                             u.samples[i] = all[k + i - 1]
<1> DEFINE kept == Kept(b, pkt)
           smp  == NewSample(b, pkt)
           all  == Append(kept, smp)
<1>1. kept \in Seq(Sample)
    BY DEF Kept, Buffer
<1>2. smp \in Sample /\ InWindow(smp)
    BY LossTypes, Constants
    DEF NewSample, Sample, SampleAge, InWindow, Buffer, LinkPacket
<1>3. /\ all \in Seq(Sample) /\ Len(all) = Len(kept) + 1
      /\ all[Len(kept) + 1] = smp /\ Len(kept) \in Nat
    BY <1>1, <1>2, AppendProperties, LenProperties
<1>4. FeedbackUpdate(b, pkt) =
          [has |-> TRUE, serial |-> pkt.serial, seq |-> pkt.seq,
           lost |-> b.lost + LostBefore(pkt, b),
           received |-> b.received + 1, age |-> 0, samples |-> Trimmed(all)]
    BY DEF FeedbackUpdate, Kept, NewSample
<1>5. FeedbackUpdate(b, pkt).samples = Trimmed(all)
    BY <1>4
<1>6. Len(all) > 0 /\ InWindow(all[Len(all)])
    BY <1>2, <1>3
<1> HIDE DEF kept, smp, all
<1>7. \E k \in 1 .. Len(all) :
          /\ InWindow(all[k])
          /\ Trimmed(all) \in Seq(Sample)
          /\ Len(Trimmed(all)) = Len(all) - k + 1
          /\ \A i \in 1 .. Len(all) - k + 1 : Trimmed(all)[i] = all[k + i - 1]
    BY <1>3, <1>6, TrimFacts
<1> QED
    BY <1>1, <1>2, <1>3, <1>4, <1>5, <1>7 DEF kept, smp, all

----------------------------------------------------------------------------
(* The parts of the invariant, one lemma each.                             *)

\* What an arriving packet leaves of the network and of the buffers.
LEMMA DeliverFacts ==
    ASSUME TypeOK, NEW i \in 1 .. MaxFlight, NEW copy \in BOOLEAN, Deliver(i, copy)
    PROVE  /\ i \in 1 .. Len(net)
           /\ net[i] \in LinkPacket
           /\ net' \in Seq(LinkPacket)
           /\ Len(net') = IF copy THEN Len(net) ELSE Len(net) - 1
           /\ LostBefore(net[i], cmd) \in SeqNums
           /\ fb' \in Buffer
<1>1. i \in 1 .. Len(net) /\ Len(net) \in Nat
    BY LenProperties DEF Deliver, TypeOK
<1>2. net[i] \in LinkPacket
    BY <1>1, ElementOfSeq DEF TypeOK
<1>3. RemoveAt(net, i) \in Seq(LinkPacket) /\ Len(RemoveAt(net, i)) = Len(net) - 1
    BY <1>1, RemoveFacts DEF TypeOK
<1>4. net' \in Seq(LinkPacket) /\ Len(net') = IF copy THEN Len(net) ELSE Len(net) - 1
    BY <1>3 DEF Deliver, TypeOK
<1>5. LostBefore(net[i], cmd) \in SeqNums /\ LostBefore(net[i], fb) \in SeqNums
    BY <1>2, LossTypes DEF TypeOK, LinkPacket
<1>6. fb \in Buffer
    BY DEF TypeOK, Buffer
<1>7. fb' = FeedbackUpdate(fb, net[i])
    BY DEF Deliver
<1>8. fb' \in Buffer
    <2>1. CASE fb.has /\ Diff(net[i], fb) = 0
        BY <1>6, <1>7, <2>1 DEF FeedbackUpdate
    <2>2. CASE ~(fb.has /\ Diff(net[i], fb) = 0)
        <3> DEFINE all == Append(Kept(fb, net[i]), NewSample(fb, net[i]))
        <3>1. fb' = [has |-> TRUE, serial |-> net[i].serial, seq |-> net[i].seq,
                     lost |-> fb.lost + LostBefore(net[i], fb),
                     received |-> fb.received + 1, age |-> 0,
                     samples |-> Trimmed(all)]
            BY <1>2, <1>6, <1>7, <2>2, SampleFacts
        <3>2. fb'.samples \in Seq(Sample)
            BY <1>2, <1>6, <1>7, <2>2, SampleFacts
        <3>3. net[i].serial \in 0 .. MaxSent /\ net[i].seq \in SeqNums
            BY <1>2 DEF LinkPacket, Serials
        <3>4. /\ fb.lost + LostBefore(net[i], fb) \in Nat
              /\ fb.received + 1 \in Nat /\ 0 \in SampleAge
            BY <1>5, <1>6, Constants DEF Buffer, SeqNums, SampleAge
        <3>5. fb'.samples = Trimmed(all)
            BY <3>1
        <3> HIDE DEF all
        <3> QED
            BY <3>1, <3>2, <3>3, <3>4, <3>5 DEF Buffer
    <2> QED
        BY <2>1, <2>2
<1> QED
    BY <1>1, <1>2, <1>4, <1>5, <1>8

\* A tick keeps the order of two ages, and their distance within the window.
LEMMA OlderFacts ==
    ASSUME NEW a \in SampleAge, NEW b \in SampleAge, b <= a
    PROVE  /\ Older(a) \in SampleAge /\ Older(b) \in SampleAge
           /\ Older(b) <= Older(a)
           /\ Older(a) <= Window + Older(b)
<1>1. Window \in Nat /\ a \in 0 .. Window + 1 /\ b \in 0 .. Window + 1
    BY Constants DEF SampleAge
<1>2. CASE a > Window
    BY <1>1, <1>2 DEF Older, SampleAge
<1>3. CASE ~(a > Window)
    BY <1>1, <1>3 DEF Older, SampleAge
<1> QED
    BY <1>2, <1>3

\* Time makes the samples older and changes nothing else.
LEMMA TickFacts ==
    ASSUME TypeOK, Tick
    PROVE  /\ fb' \in Buffer
           /\ fb'.has = fb.has
           /\ fb'.age = IF fb.has THEN Older(fb.age) ELSE fb.age
           /\ Len(fb'.samples) = Len(fb.samples)
           /\ \A i \in 1 .. Len(fb.samples) :
                  fb'.samples[i].age = Older(fb.samples[i].age)
           /\ fb'.serial = fb.serial /\ fb'.seq = fb.seq
           /\ fb'.lost = fb.lost /\ fb'.received = fb.received
<1> DEFINE older == [i \in DOMAIN fb.samples |->
                        [fb.samples[i] EXCEPT !.age = Older(@)]]
           n == Len(fb.samples)
<1>1. fb \in Buffer
    BY DEF TypeOK, Buffer
<1>2. n \in Nat /\ DOMAIN fb.samples = 1 .. n
    BY <1>1, LenProperties DEF Buffer
<1>3. ASSUME NEW a \in SampleAge
      PROVE  Older(a) \in SampleAge
    BY <1>3, Constants DEF SampleAge, Older
<1>4. ASSUME NEW i \in 1 .. n
      PROVE  older[i] \in Sample /\ older[i].age = Older(fb.samples[i].age)
    <2>1. fb.samples[i] \in Sample
        BY <1>1, <1>2, <1>4, ElementOfSeq DEF Buffer
    <2>2. older[i] = [fb.samples[i] EXCEPT !.age = Older(fb.samples[i].age)]
        BY <1>2, <1>4
    <2>3. Older(fb.samples[i].age) \in SampleAge
        BY <1>3, <2>1 DEF Sample
    <2> QED
        BY <2>1, <2>2, <2>3 DEF Sample
<1>5. older = [i \in 1 .. n |-> older[i]]
    BY <1>2
<1>6. older \in Seq(Sample) /\ Len(older) = n
    <2> HIDE DEF older
    <2>1. \A i \in 1 .. n : older[i] \in Sample
        BY <1>4
    <2>2. older \in [1 .. n -> Sample]
        BY <1>5, <2>1
    <2>3. older \in Seq(Sample)
        BY <1>2, <1>5, <2>1, IsASeq
    <2>4. DOMAIN older = 1 .. Len(older) /\ DOMAIN older = 1 .. n /\ Len(older) \in Nat
        BY <2>2, <2>3, LenProperties
    <2> QED
        BY <1>2, <2>3, <2>4
<1>7. fb' = [fb EXCEPT !.age = IF fb.has THEN Older(fb.age) ELSE fb.age,
                       !.samples = older]
    BY DEF Tick
<1>8. (IF fb.has THEN Older(fb.age) ELSE fb.age) \in SampleAge
    BY <1>1, <1>3 DEF Buffer
<1> HIDE DEF older
<1> QED
    BY <1>1, <1>4, <1>6, <1>7, <1>8 DEF Buffer

\* Every step preserves the types.
LEMMA TypeStep == TypeOK /\ [Next]_vars => TypeOK'
<1> SUFFICES ASSUME TypeOK, [Next]_vars
             PROVE  TypeOK'
    OBVIOUS
<1>1. CASE Send
    <2>1. /\ sent' = sent + 1 /\ sent' \in 0 .. MaxSent
          /\ [serial |-> sent + 1, seq |-> seq] \in LinkPacket
        BY <1>1, Constants DEF Send, TypeOK, LinkPacket, Serials
    <2>2. net' \in Seq(LinkPacket) /\ Len(net') = Len(net) + 1
        BY <1>1, <2>1, AppendProperties DEF Send, TypeOK
    <2>3. Len(net') <= MaxFlight
        BY <1>1, <2>2, LenProperties, Constants DEF Send, TypeOK
    <2>4. seq' \in SeqNums
        BY <1>1, Remainder DEF Send, TypeOK, SeqNums
    <2> QED
        BY <1>1, <2>1, <2>2, <2>3, <2>4 DEF Send, TypeOK
<1>2. CASE Restart
    <2>1. restarts' \in 0 .. MaxRestarts /\ seq' \in SeqNums
        BY <1>2, Constants DEF Restart, TypeOK, SeqNums
    <2> QED
        BY <1>2, <2>1 DEF Restart, TypeOK
<1>3. CASE Lose
    <2>1. net' \in Seq(LinkPacket) /\ Len(net') = Len(net) - 1
        BY <1>3, HeadTailProperties DEF Lose, TypeOK
    <2>2. Len(net') <= MaxFlight /\ burst' \in 0 .. MaxBurst
        BY <1>3, <2>1, LenProperties, Constants DEF Lose, TypeOK
    <2> QED
        BY <1>3, <2>1, <2>2 DEF Lose, TypeOK
<1>4. ASSUME NEW i \in 1 .. MaxFlight, NEW copy \in BOOLEAN, Deliver(i, copy)
      PROVE  TypeOK'
    <2>1. /\ net[i] \in LinkPacket
          /\ net' \in Seq(LinkPacket)
          /\ Len(net') = IF copy THEN Len(net) ELSE Len(net) - 1
          /\ LostBefore(net[i], cmd) \in SeqNums
          /\ fb' \in Buffer
        BY <1>4, DeliverFacts
    <2>2. Len(net') <= MaxFlight
        BY <2>1, LenProperties, Constants DEF TypeOK
    <2>3. cmd' \in [has : BOOLEAN, serial : 0 .. MaxSent, seq : SeqNums, lost : Nat]
        <3>1. net[i].serial \in 0 .. MaxSent /\ net[i].seq \in SeqNums
            BY <2>1 DEF LinkPacket, Serials
        <3>2. cmd.lost + LostBefore(net[i], cmd) \in Nat
            <4>1. cmd.lost \in Nat
                BY DEF TypeOK
            <4>2. LostBefore(net[i], cmd) \in Nat
                BY <2>1, Constants DEF SeqNums
            <4> QED
                BY <4>1, <4>2
        <3> QED
            BY <1>4, <3>1, <3>2 DEF Deliver, TeleopUpdate
    <2>4. burst' \in 0 .. MaxBurst
        BY <1>4, Constants DEF Deliver
    <2>5. got' \subseteq Serials
        BY <1>4, <2>1 DEF Deliver, TypeOK, LinkPacket
    <2> QED
        BY <1>4, <2>1, <2>2, <2>3, <2>4, <2>5 DEF Deliver, TypeOK, Buffer
<1>5. CASE Tick
    <2>1. fb' \in Buffer
        BY <1>5, TickFacts
    <2> QED
        BY <1>5, <2>1 DEF Tick, TypeOK, Buffer
<1>6. CASE UNCHANGED vars
    BY <1>6 DEF TypeOK, vars
<1> QED
    BY <1>1, <1>2, <1>3, <1>4, <1>5, <1>6 DEF Next

(***************************************************************************)
(* The samples stay in order and inside the window of the last update:     *)
(* the first sample trim_locked leaves is inside, and so are all behind    *)
(* it, because they are no older.                                          *)
(***************************************************************************)
LEMMA WindowStep == TypeOK /\ WindowInv /\ [Next]_vars => WindowInv'
<1> SUFFICES ASSUME TypeOK, WindowInv, [Next]_vars
             PROVE  WindowInv'
    OBVIOUS
<1>0. fb \in Buffer /\ Len(fb.samples) \in Nat /\ Window \in Nat
    BY LenProperties, Constants DEF TypeOK, Buffer
<1>1. ASSUME UNCHANGED fb
      PROVE  WindowInv'
    BY <1>1 DEF WindowInv
<1>2. ASSUME NEW i \in 1 .. MaxFlight, NEW copy \in BOOLEAN, Deliver(i, copy)
      PROVE  WindowInv'
    <2>1. net[i] \in LinkPacket
        BY <1>2, DeliverFacts
    <2>2. fb' = FeedbackUpdate(fb, net[i])
        BY <1>2 DEF Deliver
    <2>3. CASE fb.has /\ Diff(net[i], fb) = 0
        <3>1. fb' = fb
            BY <2>2, <2>3 DEF FeedbackUpdate
        <3> QED
            BY <1>1, <3>1
    <2>4. CASE ~(fb.has /\ Diff(net[i], fb) = 0)
        <3> DEFINE kept == Kept(fb, net[i])
                   smp  == NewSample(fb, net[i])
                   all  == Append(kept, smp)
        <3>1. /\ kept \in Seq(Sample) /\ smp \in Sample /\ all \in Seq(Sample)
              /\ fb'.has = TRUE /\ fb'.age = 0
            BY <1>0, <2>1, <2>2, <2>4, SampleFacts
        <3>2. PICK k \in 1 .. Len(all) :
                  /\ InWindow(all[k])
                  /\ Len(fb'.samples) = Len(all) - k + 1
                  /\ \A j \in 1 .. Len(all) - k + 1 :
                         fb'.samples[j] = all[k + j - 1]
            BY <1>0, <2>1, <2>2, <2>4, SampleFacts
        <3>3. /\ Len(all) = Len(kept) + 1 /\ Len(kept) \in Nat
              /\ \A j \in 1 .. Len(kept) : all[j] = kept[j]
              /\ all[Len(kept) + 1] = smp
            BY <3>1, AppendProperties, LenProperties
        <3>4. ASSUME NEW j \in 1 .. Len(all)
              PROVE  all[j].age \in Nat
            <4>1. all[j] \in Sample
                BY <3>1, <3>4, ElementOfSeq
            <4> QED
                BY <4>1 DEF Sample, SampleAge
        <3>5. ASSUME NEW j \in 1 .. Len(kept), NEW l \in 1 .. j
              PROVE  kept[l].age >= kept[j].age
            <4>1. CASE Backwards(net[i], fb)
                <5>1. kept = <<>>
                    BY <4>1 DEF Kept
                <5> QED
                    BY <3>5, <5>1
            <4>2. CASE ~Backwards(net[i], fb)
                <5>1. kept = fb.samples
                    BY <4>2 DEF Kept
                <5> QED
                    BY <3>5, <5>1 DEF WindowInv
            <4> QED
                BY <4>1, <4>2
        <3>6. smp.age = 0
            BY DEF NewSample
        <3> HIDE DEF kept, smp, all
        <3>7. ASSUME NEW j \in 1 .. Len(all), NEW l \in 1 .. j
              PROVE  all[l].age >= all[j].age
            <4>1. CASE j = Len(kept) + 1
                <5>1. all[j].age = 0 /\ all[l].age \in Nat
                    BY <3>3, <3>4, <3>6, <3>7, <4>1
                <5> QED
                    BY <5>1
            <4>2. CASE j # Len(kept) + 1
                <5>1. j \in 1 .. Len(kept) /\ l \in 1 .. Len(kept)
                    BY <3>3, <3>7, <4>2
                <5> QED
                    BY <3>3, <3>5, <3>7, <5>1
            <4> QED
                BY <4>1, <4>2
        <3>8. ASSUME NEW j \in 1 .. Len(fb'.samples)
              PROVE  /\ fb'.samples[j].age \in 0 .. Window
                     /\ \A l \in 1 .. j : fb'.samples[l].age >= fb'.samples[j].age
            <4>1. /\ k \in 1 .. Len(all) /\ Len(all) \in Nat
                  /\ j \in 1 .. Len(all) - k + 1
                BY <3>2, <3>3, <3>8
            <4>2. k + j - 1 \in 1 .. Len(all) /\ k \in 1 .. k + j - 1
                BY <4>1
            <4>3. fb'.samples[j] = all[k + j - 1]
                BY <3>2, <4>1
            <4>4. /\ all[k + j - 1].age \in Nat /\ all[k].age \in Nat
                  /\ all[k].age >= all[k + j - 1].age /\ all[k].age <= Window
                BY <3>2, <3>4, <3>7, <4>1, <4>2 DEF InWindow
            <4>5. ASSUME NEW l \in 1 .. j
                  PROVE  fb'.samples[l].age >= fb'.samples[j].age
                <5>1. l \in 1 .. Len(all) - k + 1 /\ k + l - 1 \in 1 .. k + j - 1
                    BY <4>1, <4>5
                <5>2. fb'.samples[l] = all[k + l - 1]
                    BY <3>2, <5>1
                <5> QED
                    BY <3>7, <4>2, <4>3, <5>1, <5>2
            <4> QED
                BY <1>0, <4>3, <4>4, <4>5
        <3>9. Window + fb'.age = Window
            BY <1>0, <3>1
        <3> QED
            BY <3>1, <3>8, <3>9 DEF WindowInv
    <2> QED
        BY <2>3, <2>4
<1>3. CASE Tick
    <2> DEFINE n == Len(fb.samples)
    <2>1. /\ fb' \in Buffer /\ fb'.has = fb.has
          /\ fb'.age = IF fb.has THEN Older(fb.age) ELSE fb.age
          /\ Len(fb'.samples) = n
          /\ \A i \in 1 .. n : fb'.samples[i].age = Older(fb.samples[i].age)
        BY <1>3, TickFacts
    <2>2. ASSUME NEW i \in 1 .. n
          PROVE  fb.samples[i].age \in 0 .. Window + 1
        <3>1. fb.samples[i] \in Sample
            BY <1>0, <2>2, ElementOfSeq DEF Buffer
        <3> QED
            BY <3>1 DEF Sample, SampleAge
    <2>3. fb.age \in 0 .. Window + 1
        BY <1>0 DEF Buffer, SampleAge
    <2>4. CASE ~fb.has
        <3>1. n = 0
            BY <2>4 DEF WindowInv
        <3>2. fb'.samples = <<>>
            BY <2>1, <3>1, EmptySeq DEF Buffer
        <3> QED
            BY <2>1, <3>1, <3>2 DEF WindowInv
    <2>5. CASE fb.has
        <3>1. ASSUME NEW i \in 1 .. n
              PROVE  /\ fb'.samples[i].age \in fb'.age .. Window + fb'.age
                     /\ \A j \in 1 .. i : fb'.samples[j].age >= fb'.samples[i].age
            <4>1. fb.samples[i].age \in fb.age .. Window + fb.age
                BY <3>1 DEF WindowInv
            <4>2. fb'.samples[i].age \in fb'.age .. Window + fb'.age
                <5>1. /\ fb'.samples[i].age = Older(fb.samples[i].age)
                      /\ fb'.age = Older(fb.age)
                    BY <2>1, <2>5, <3>1
                <5>2. fb.samples[i].age \in SampleAge /\ fb.age \in SampleAge
                    BY <2>2, <2>3, <3>1 DEF SampleAge
                <5>3. fb.age <= fb.samples[i].age
                    BY <1>0, <2>2, <2>3, <3>1, <4>1
                <5>4. /\ Older(fb.samples[i].age) \in SampleAge
                      /\ Older(fb.age) \in SampleAge
                      /\ Older(fb.age) <= Older(fb.samples[i].age)
                      /\ Older(fb.samples[i].age) <= Window + Older(fb.age)
                    BY <5>2, <5>3, OlderFacts
                <5> QED
                    BY <1>0, <5>1, <5>4 DEF SampleAge
            <4>3. ASSUME NEW j \in 1 .. i
                  PROVE  fb'.samples[j].age >= fb'.samples[i].age
                <5>1. j \in 1 .. n /\ fb.samples[j].age >= fb.samples[i].age
                    BY <1>0, <3>1, <4>3 DEF WindowInv
                <5>2. /\ fb'.samples[i].age = Older(fb.samples[i].age)
                      /\ fb'.samples[j].age = Older(fb.samples[j].age)
                    BY <2>1, <3>1, <5>1
                <5>3. fb.samples[i].age \in SampleAge /\ fb.samples[j].age \in SampleAge
                    BY <2>2, <3>1, <5>1 DEF SampleAge
                <5>4. fb.samples[i].age <= fb.samples[j].age
                    BY <2>2, <3>1, <5>1
                <5>5. /\ Older(fb.samples[i].age) <= Older(fb.samples[j].age)
                      /\ Older(fb.samples[i].age) \in SampleAge
                      /\ Older(fb.samples[j].age) \in SampleAge
                    BY <5>3, <5>4, OlderFacts
                <5> QED
                    BY <5>2, <5>5 DEF SampleAge
            <4> QED
                BY <4>2, <4>3
        <3> QED
            BY <2>1, <2>5, <3>1 DEF WindowInv
    <2> QED
        BY <2>4, <2>5
<1>4. \/ UNCHANGED fb
      \/ \E i \in 1 .. MaxFlight, copy \in BOOLEAN : Deliver(i, copy)
      \/ Tick
    BY DEF Next, Send, Restart, Lose, vars
<1> QED
    BY <1>1, <1>2, <1>3, <1>4

\* An ordered network keeps the order of the stream and bounds its gaps.
LEMMA StreamStep == OrderedNetwork /\ TypeOK /\ StreamInv /\ [Next]_vars => StreamInv'
<1> SUFFICES ASSUME OrderedNetwork, TypeOK, StreamInv, [Next]_vars
             PROVE  StreamInv'
    OBVIOUS
<1>0. /\ Len(net) \in Nat /\ sent \in Nat /\ burst \in Nat
      /\ cmd.serial \in Nat /\ got \subseteq Nat /\ net \in Seq(LinkPacket)
    BY LenProperties, Constants DEF TypeOK, Serials
<1>1. CASE Send
    <2>1. /\ Len(net') = Len(net) + 1 /\ sent' = sent + 1
          /\ \A i \in 1 .. Len(net) : net'[i] = net[i]
          /\ net'[Len(net) + 1].serial = sent + 1
        <3>1. [serial |-> sent + 1, seq |-> seq] \in LinkPacket
            BY <1>1, Constants DEF Send, TypeOK, LinkPacket, Serials
        <3> QED
            BY <1>0, <1>1, <3>1, AppendProperties DEF Send
    <2>2. UNCHANGED <<cmd, got, burst>>
        BY <1>1 DEF Send
    <2>3. ASSUME NEW i \in 1 .. Len(net')
          PROVE  net'[i].serial = sent' - Len(net') + i
        <3>1. CASE i = Len(net) + 1
            BY <1>0, <2>1, <3>1
        <3>2. CASE i # Len(net) + 1
            <4>1. i \in 1 .. Len(net)
                BY <1>0, <2>1, <2>3, <3>2
            <4>2. net'[i] = net[i] /\ net[i].serial = sent - Len(net) + i
                BY <2>1, <4>1 DEF StreamInv
            <4> QED
                BY <1>0, <2>1, <4>1, <4>2
        <3> QED
            BY <3>1, <3>2
    <2>4. sent' - Len(net') = sent - Len(net)
        BY <1>0, <2>1
    <2> QED
        BY <2>2, <2>3, <2>4 DEF StreamInv
<1>2. CASE Lose
    <2>1. /\ Len(net') = Len(net) - 1 /\ Len(net) > 0
          /\ \A i \in 1 .. Len(net) - 1 : net'[i] = net[i + 1]
        BY <1>0, <1>2, HeadTailProperties, EmptySeq DEF Lose
    <2>2. UNCHANGED <<cmd, got, sent>> /\ burst' = burst + 1
        BY <1>2 DEF Lose
    <2>3. ASSUME NEW i \in 1 .. Len(net')
          PROVE  net'[i].serial = sent' - Len(net') + i
        <3>1. i + 1 \in 1 .. Len(net) /\ net'[i] = net[i + 1]
            BY <1>0, <2>1, <2>3
        <3>2. net[i + 1].serial = sent - Len(net) + (i + 1)
            BY <3>1 DEF StreamInv
        <3> QED
            BY <1>0, <2>1, <2>2, <2>3, <3>1, <3>2
    <2>4. got # {} =>
              sent' - Len(net') + 1 - cmd'.serial \in 0 .. burst' + 1
        BY <1>0, <2>1, <2>2 DEF StreamInv
    <2> QED
        BY <2>2, <2>3, <2>4 DEF StreamInv
<1>3. ASSUME NEW i \in 1 .. MaxFlight, NEW copy \in BOOLEAN, Deliver(i, copy)
      PROVE  StreamInv'
    <2>1. i = 1 /\ Len(net) > 0
        BY <1>0, <1>3 DEF Deliver, OrderedNetwork
    <2>2. /\ cmd'.has = TRUE /\ cmd'.serial = net[1].serial
          /\ got' = got \cup {net[1].serial} /\ sent' = sent /\ burst' = 0
        BY <1>3, <2>1 DEF Deliver, TeleopUpdate
    <2>3. net[1].serial = sent - Len(net) + 1
        BY <1>0, <2>1 DEF StreamInv
    <2>4. /\ Len(net') = IF copy THEN Len(net) ELSE Len(net) - 1
          /\ \A j \in 1 .. Len(net') :
                 net'[j] = IF copy THEN net[j] ELSE net[j + 1]
        BY <1>0, <1>3, <2>1, RemoveFacts DEF Deliver
    <2>5. ASSUME NEW j \in 1 .. Len(net')
          PROVE  net'[j].serial = sent' - Len(net') + j
        <3>1. CASE copy
            BY <1>0, <2>2, <2>4, <2>5, <3>1 DEF StreamInv
        <3>2. CASE ~copy
            <4>1. j + 1 \in 1 .. Len(net) /\ net'[j] = net[j + 1]
                BY <1>0, <2>4, <2>5, <3>2
            <4>2. net[j + 1].serial = sent - Len(net) + (j + 1)
                BY <4>1 DEF StreamInv
            <4> QED
                BY <1>0, <2>2, <2>4, <2>5, <3>2, <4>1, <4>2
        <3> QED
            BY <3>1, <3>2
    <2>6. \A g \in got' : g <= cmd'.serial
        <3>1. ASSUME NEW g \in got
              PROVE  g <= net[1].serial
            BY <1>0, <2>3, <3>1 DEF StreamInv
        <3>2. net[1].serial <= net[1].serial
            BY <1>0, <2>3
        <3> QED
            BY <2>2, <3>1, <3>2
    <2>7. sent' - Len(net') + 1 - cmd'.serial \in 0 .. burst' + 1
        <3>1. CASE copy
            <4>1. sent' - Len(net') + 1 - cmd'.serial = 0
                BY <1>0, <2>2, <2>3, <2>4, <3>1
            <4> QED
                BY <2>2, <4>1
        <3>2. CASE ~copy
            <4>1. sent' - Len(net') + 1 - cmd'.serial = 1
                BY <1>0, <2>2, <2>3, <2>4, <3>2
            <4> QED
                BY <2>2, <4>1
        <3> QED
            BY <3>1, <3>2
    <2> QED
        BY <2>2, <2>5, <2>6, <2>7 DEF StreamInv
<1>4. CASE UNCHANGED <<sent, net, burst, cmd, got>>
    BY <1>4 DEF StreamInv
<1>5. \/ Send
      \/ Lose
      \/ \E i \in 1 .. MaxFlight, copy \in BOOLEAN : Deliver(i, copy)
      \/ UNCHANGED <<sent, net, burst, cmd, got>>
    BY DEF Next, Restart, Tick, vars
<1> QED
    BY <1>1, <1>2, <1>3, <1>4, <1>5

(***************************************************************************)
(* The serials missing between the first and the last of a set grow by the *)
(* gap in front of a new last one.                                         *)
(***************************************************************************)
LEMMA GapFacts ==
    ASSUME NEW G, G \subseteq Nat, IsFiniteSet(G),
           NEW h \in G, \A g \in G : g <= h,
           NEW p \in Nat, h < p
    PROVE  LET T == G \cup {p}
               M == (Min(G) .. Max(G)) \ G
               N == (Min(T) .. Max(T)) \ T
           IN  /\ Cardinality(N) = Cardinality(M) + (p - h - 1)
               /\ Cardinality(M) \in Nat
<1> DEFINE T == G \cup {p}
           M == (Min(G) .. Max(G)) \ G
           N == (Min(T) .. Max(T)) \ T
           K == h + 1 .. p - 1
<1>1. h \in Nat
    OBVIOUS
<1>2. Max(G) = h
    BY MaxFacts
<1>3. Max(T) = p
    <2>1. T \subseteq Nat /\ p \in T
        OBVIOUS
    <2>2. ASSUME NEW y \in T
          PROVE  y <= p
        <3>1. CASE y \in G
            BY <1>1, <3>1
        <3>2. CASE y = p
            BY <3>2
        <3> QED
            BY <3>1, <3>2
    <2> HIDE DEF T
    <2> QED
        BY <2>1, <2>2, MaxFacts
<1>4. Min(G) \in G /\ \A y \in G : Min(G) <= y
    BY MinFacts
<1>5. Min(T) \in T /\ \A y \in T : Min(T) <= y
    BY MinFacts
<1>6. Min(T) = Min(G)
    <2>1. Min(T) # p
        BY <1>1, <1>5
    <2>2. Min(T) \in G /\ Min(G) \in T
        BY <1>4, <1>5, <2>1
    <2>3. Min(T) <= Min(G) /\ Min(G) <= Min(T)
        BY <1>4, <1>5, <2>2
    <2>4. Min(T) \in Nat /\ Min(G) \in Nat
        BY <2>2, <1>4
    <2> QED
        BY <2>3, <2>4
<1>7. Min(G) \in Nat /\ Min(G) <= h
    BY <1>4
<1>8. N = M \cup K /\ M \cap K = {}
    <2>1. M = (Min(G) .. h) \ G
        BY <1>2
    <2>2. N = (Min(G) .. p) \ T
        BY <1>3, <1>6
    <2> DEFINE lo == Min(G)
    <2>3. lo \in Nat /\ lo <= h
        BY <1>7
    <2> HIDE DEF M, N, lo
    <2>4. M = (lo .. h) \ G /\ N = (lo .. p) \ T
        BY <2>1, <2>2 DEF lo
    <2>5. ASSUME NEW x
          PROVE  x \in N <=> x \in M \cup K
        BY <1>1, <2>3, <2>4
    <2>6. ASSUME NEW x \in M \cap K
          PROVE  FALSE
        BY <1>1, <2>3, <2>4
    <2> QED
        BY <2>5, <2>6
<1>9. IsFiniteSet(M) /\ Cardinality(M) \in Nat
    <2>1. IsFiniteSet(Min(G) .. Max(G))
        BY <1>1, <1>2, <1>7, FS_Interval
    <2>2. IsFiniteSet(M)
        BY <2>1, FS_Difference
    <2> QED
        BY <2>2, FS_CardinalityType
<1>10. IsFiniteSet(K) /\ Cardinality(K) = p - h - 1
    <2>1. h + 1 \in Int /\ p - 1 \in Int
        BY <1>1
    <2>2. IsFiniteSet(K) /\ Cardinality(K) = IF h + 1 > p - 1 THEN 0 ELSE (p - 1) - (h + 1) + 1
        BY <2>1, FS_Interval
    <2> QED
        BY <1>1, <2>2
<1> HIDE DEF M, N, K, T
<1>11. Cardinality(M \cup K) = Cardinality(M) + Cardinality(K) - Cardinality({})
    BY <1>8, <1>9, <1>10, FS_Union
<1>12. Cardinality({}) = 0
    BY FS_EmptySet
<1>13. Cardinality(N) = Cardinality(M) + (p - h - 1)
    BY <1>1, <1>8, <1>9, <1>10, <1>11, <1>12
<1> QED
    BY <1>9, <1>13 DEF M, N, T

(***************************************************************************)
(* The difference the buffers compute is the true distance, because it is  *)
(* below half the number space: neither the wrap nor a burst is taken for  *)
(* a step backwards.                                                       *)
(***************************************************************************)
LEMMA TrueDistance ==
    ASSUME ShortBursts, TypeOK, StreamInv, CountInv,
           restarts = 0, got # {}, Len(net) > 0
    PROVE  LET d == net[1].serial - cmd.serial
           IN  /\ d \in Nat
               /\ \A b \in {cmd, fb} :
                      /\ Diff(net[1], b) = d
                      /\ ~Backwards(net[1], b)
                      /\ LostBefore(net[1], b) = IF d > 1 THEN d - 1 ELSE 0
<1> DEFINE p == net[1].serial
           h == cmd.serial
           d == p - h
<1>0. /\ Len(net) \in Nat /\ sent \in Nat /\ burst \in Nat /\ burst <= MaxBurst
      /\ h \in Nat /\ got \subseteq Nat /\ net \in Seq(LinkPacket)
      /\ MaxBurst \in Nat /\ SeqSpace \in Nat
      /\ SeqSpace \div 2 \in Nat /\ SeqSpace \div 2 < SeqSpace
    BY LenProperties, Constants DEF TypeOK, Serials
<1>1. p = sent - Len(net) + 1
    BY <1>0 DEF StreamInv
<1>2. p \in Nat
    <2>1. net[1] \in LinkPacket
        BY <1>0, ElementOfSeq
    <2> QED
        BY <2>1 DEF LinkPacket, Serials
<1>3. d \in 0 .. burst + 1
    BY <1>0, <1>1 DEF StreamInv
<1>4. d \in Nat /\ d < SeqSpace \div 2 /\ d \in SeqNums
    BY <1>0, <1>3 DEF ShortBursts, SeqNums
<1>5. net[1].seq = Number(p) /\ cmd.seq = Number(h) /\ fb.seq = Number(h)
    BY <1>0 DEF CountInv, StreamInv
<1> HIDE DEF p, h, d
<1>6. (Number(p) - Number(h)) % SeqSpace = d
    BY <1>0, <1>2, <1>4, NumberDiff DEF d
<1>7. ASSUME NEW b \in {cmd, fb}
      PROVE  /\ Diff(net[1], b) = d
             /\ ~Backwards(net[1], b)
             /\ LostBefore(net[1], b) = IF d > 1 THEN d - 1 ELSE 0
    <2>1. Diff(net[1], b) = d
        BY <1>5, <1>6, <1>7 DEF Diff
    <2>2. ~Backwards(net[1], b)
        BY <1>0, <1>4, <2>1 DEF Backwards
    <2>3. b.has
        BY <1>7 DEF CountInv, StreamInv
    <2> QED
        BY <2>1, <2>2, <2>3 DEF LostBefore
<1> QED
    BY <1>4, <1>7 DEF d, p, h

\* The counters stay exact when a packet arrives.
LEMMA CountDelivery ==
    ASSUME ShortBursts, TypeOK, StreamInv, CountInv, restarts = 0,
           NEW copy \in BOOLEAN, Deliver(1, copy)
    PROVE  /\ cmd'.has /\ cmd'.seq = Number(cmd'.serial)
           /\ fb'.has = cmd'.has /\ fb'.serial = cmd'.serial /\ fb'.seq = cmd'.seq
           /\ CountsAreExact'
<1> DEFINE p == net[1].serial
           h == cmd.serial
<1>0. /\ Len(net) \in Nat /\ Len(net) > 0 /\ h \in Nat /\ got \subseteq Nat
      /\ net \in Seq(LinkPacket) /\ cmd.lost \in Nat /\ fb.lost \in Nat
      /\ fb.received \in Nat
    BY LenProperties, Constants DEF TypeOK, Serials, Deliver
<1>1. p \in Nat /\ net[1].seq = Number(p)
    <2>1. net[1] \in LinkPacket
        BY <1>0, ElementOfSeq
    <2> QED
        BY <1>0, <2>1 DEF LinkPacket, Serials, CountInv
<1>2. /\ cmd' = [has |-> TRUE, serial |-> p, seq |-> net[1].seq,
                 lost |-> cmd.lost + LostBefore(net[1], cmd)]
      /\ fb' = FeedbackUpdate(fb, net[1])
      /\ got' = got \cup {p}
      /\ restarts' = restarts
    BY DEF Deliver, TeleopUpdate
<1>3. /\ cmd'.has = TRUE /\ cmd'.serial = p /\ cmd'.seq = net[1].seq
      /\ cmd'.lost = cmd.lost + LostBefore(net[1], cmd)
    BY <1>2
<1>4. ~(fb.has /\ Diff(net[1], fb) = 0) =>
          /\ fb'.has = TRUE /\ fb'.serial = p /\ fb'.seq = net[1].seq
          /\ fb'.lost = fb.lost + LostBefore(net[1], fb)
          /\ fb'.received = fb.received + 1
    BY <1>2 DEF FeedbackUpdate
<1>5. /\ cmd.lost = Cardinality(Missing) /\ fb.lost = Cardinality(Missing)
      /\ fb.received = Cardinality(got)
    BY DEF CountInv, CountsAreExact
<1>6. IsFiniteSet(got)
    <2>1. IsFiniteSet(1 .. MaxSent)
        BY Constants, FS_Interval
    <2> QED
        BY <2>1, FS_Subset DEF TypeOK, Serials
<1> HIDE DEF p, h
<1>7. CASE got = {}
    <2>1. ~cmd.has /\ ~fb.has
        BY <1>7 DEF StreamInv, CountInv
    <2>2. LostBefore(net[1], cmd) = 0 /\ LostBefore(net[1], fb) = 0
        BY <2>1 DEF LostBefore
    <2>3. Cardinality(Missing) = 0 /\ Cardinality(got) = 0
        BY <1>7, FS_EmptySet DEF Missing
    <2>4. got' = {p}
        BY <1>2, <1>7
    <2>5. Cardinality(got') = 1
        BY <2>4, FS_Singleton
    <2>6. Missing' = {}
        <3>1. Min({p}) = p /\ Max({p}) = p
            BY <1>1, MinFacts, MaxFacts
        <3>2. (p .. p) \ {p} = {}
            BY <1>1
        <3> QED
            BY <2>4, <3>1, <3>2 DEF Missing
    <2>7. Cardinality(Missing') = 0
        BY <2>6, FS_EmptySet
    <2>8. cmd'.lost = 0 /\ fb'.lost = 0 /\ fb'.received = 1
        BY <1>3, <1>4, <1>5, <2>1, <2>2, <2>3
    <2> QED
        BY <1>1, <1>3, <1>4, <2>1, <2>5, <2>7, <2>8 DEF CountsAreExact
<1>8. CASE got # {}
    <2> DEFINE d == p - h
    <2>1. /\ d \in Nat
          /\ \A b \in {cmd, fb} :
                 /\ Diff(net[1], b) = d
                 /\ LostBefore(net[1], b) = IF d > 1 THEN d - 1 ELSE 0
        BY <1>0, <1>8, TrueDistance DEF p, h
    <2>2. /\ h \in got /\ (\A g \in got : g <= h)
          /\ fb.has /\ fb.serial = h /\ fb.seq = cmd.seq /\ cmd.seq = Number(h)
        BY <1>8 DEF StreamInv, CountInv, h
    <2>3. CASE d = 0
        <3>1. p = h
            BY <1>0, <1>1, <2>3
        <3>2. got' = got
            BY <1>2, <2>2, <3>1
        <3>3. Missing' = Missing
            BY <3>2 DEF Missing
        <3>4. fb' = fb
            BY <1>2, <2>1, <2>2, <2>3 DEF FeedbackUpdate
        <3>5. cmd'.lost = cmd.lost
            BY <1>0, <1>3, <2>1, <2>3
        <3> QED
            BY <1>1, <1>3, <1>5, <2>2, <3>1, <3>2, <3>3, <3>4, <3>5
            DEF CountsAreExact
    <2>4. CASE d # 0
        <3>1. h < p
            BY <1>0, <1>1, <2>1, <2>4
        <3>2. /\ Cardinality(Missing') = Cardinality(Missing) + (p - h - 1)
              /\ Cardinality(Missing) \in Nat
            <4>1. got # {} /\ got' # {} /\ got' = got \cup {p}
                BY <1>2, <1>8
            <4> QED
                BY <1>0, <1>1, <1>6, <2>2, <3>1, <4>1, GapFacts DEF Missing
        <3>3. p \notin got
            BY <1>0, <1>1, <2>2, <3>1
        <3>4. Cardinality(got') = Cardinality(got) + 1
            BY <1>2, <1>6, <3>3, FS_AddElement
        <3>5. ~(fb.has /\ Diff(net[1], fb) = 0)
            BY <2>1, <2>4
        <3>6. /\ LostBefore(net[1], cmd) = p - h - 1
              /\ LostBefore(net[1], fb) = p - h - 1
            BY <1>0, <1>1, <2>1, <2>4
        <3> QED
            BY <1>1, <1>3, <1>4, <1>5, <3>2, <3>4, <3>5, <3>6 DEF CountsAreExact
    <2> QED
        BY <2>3, <2>4
<1> QED
    BY <1>7, <1>8

\* In an ordered stream with short bursts the counters stay exact.
LEMMA CountStep ==
    OrderedNetwork /\ ShortBursts /\ TypeOK /\ StreamInv /\ CountInv /\ [Next]_vars
        => CountInv'
<1> SUFFICES ASSUME OrderedNetwork, ShortBursts, TypeOK, StreamInv, CountInv,
                    [Next]_vars, restarts' = 0
             PROVE  CountInv'
    BY DEF CountInv
<1>0. /\ Len(net) \in Nat /\ sent \in Nat /\ net \in Seq(LinkPacket)
    BY LenProperties, Constants DEF TypeOK
<1>1. CASE Send
    <2>1. UNCHANGED <<cmd, fb, got, restarts>>
        BY <1>1 DEF Send
    <2>2. restarts = 0 /\ seq = Number(sent + 1)
        BY <2>1 DEF CountInv
    <2>3. seq' = Number(sent' + 1)
        <3>1. sent' = sent + 1 /\ seq' = (seq + 1) % SeqSpace /\ sent + 1 \in Nat
            BY <1>0, <1>1 DEF Send
        <3> QED
            BY <2>2, <3>1, NumberStep
    <2>4. /\ Len(net') = Len(net) + 1
          /\ \A i \in 1 .. Len(net) : net'[i] = net[i]
          /\ net'[Len(net) + 1] = [serial |-> sent + 1, seq |-> seq]
        <3>1. [serial |-> sent + 1, seq |-> seq] \in LinkPacket
            BY <1>1, Constants DEF Send, TypeOK, LinkPacket, Serials
        <3> QED
            BY <1>0, <1>1, <3>1, AppendProperties DEF Send
    <2>5. ASSUME NEW i \in 1 .. Len(net')
          PROVE  net'[i].seq = Number(net'[i].serial)
        <3>1. CASE i = Len(net) + 1
            <4>1. net'[i].serial = sent + 1 /\ net'[i].seq = seq
                BY <2>4, <3>1
            <4> QED
                BY <2>2, <4>1
        <3>2. CASE i # Len(net) + 1
            <4>1. i \in 1 .. Len(net)
                BY <1>0, <2>4, <2>5, <3>2
            <4>2. net'[i] = net[i] /\ net[i].seq = Number(net[i].serial)
                BY <2>2, <2>4, <4>1 DEF CountInv
            <4> QED
                BY <4>2
        <3> QED
            BY <3>1, <3>2
    <2> QED
        BY <2>1, <2>2, <2>3, <2>5 DEF CountInv, CountsAreExact, Missing
<1>2. CASE Restart
    <2>1. restarts' # 0
        BY <1>2, Constants DEF Restart, TypeOK
    <2> QED
        BY <2>1
<1>3. CASE Lose
    <2>1. UNCHANGED <<cmd, fb, got, restarts, sent, seq>>
        BY <1>3 DEF Lose
    <2>2. /\ Len(net') = Len(net) - 1
          /\ \A i \in 1 .. Len(net) - 1 : net'[i] = net[i + 1]
        BY <1>0, <1>3, HeadTailProperties, EmptySeq DEF Lose
    <2>3. ASSUME NEW i \in 1 .. Len(net')
          PROVE  net'[i].seq = Number(net'[i].serial)
        <3>1. i + 1 \in 1 .. Len(net) /\ net'[i] = net[i + 1]
            BY <1>0, <2>2, <2>3
        <3> QED
            BY <2>1, <3>1 DEF CountInv
    <2> QED
        BY <2>1, <2>3 DEF CountInv, CountsAreExact, Missing
<1>4. ASSUME NEW i \in 1 .. MaxFlight, NEW copy \in BOOLEAN, Deliver(i, copy)
      PROVE  CountInv'
    <2>1. i = 1 /\ Len(net) > 0 /\ Deliver(1, copy)
        BY <1>0, <1>4 DEF Deliver, OrderedNetwork
    <2>2. UNCHANGED <<restarts, sent, seq>>
        BY <1>4 DEF Deliver
    <2>3. restarts = 0
        BY <2>2
    <2>4. /\ cmd'.has /\ cmd'.seq = Number(cmd'.serial)
          /\ fb'.has = cmd'.has /\ fb'.serial = cmd'.serial /\ fb'.seq = cmd'.seq
          /\ CountsAreExact'
        BY <2>1, <2>3, CountDelivery
    <2>5. /\ Len(net') = IF copy THEN Len(net) ELSE Len(net) - 1
          /\ \A j \in 1 .. Len(net') :
                 net'[j] = IF copy THEN net[j] ELSE net[j + 1]
        BY <1>0, <2>1, RemoveFacts DEF Deliver
    <2>6. ASSUME NEW j \in 1 .. Len(net')
          PROVE  net'[j].seq = Number(net'[j].serial)
        <3>1. CASE copy
            BY <2>3, <2>5, <2>6, <3>1 DEF CountInv
        <3>2. CASE ~copy
            <4>1. j + 1 \in 1 .. Len(net) /\ net'[j] = net[j + 1]
                BY <1>0, <2>5, <2>6, <3>2
            <4> QED
                BY <2>3, <4>1 DEF CountInv
        <3> QED
            BY <3>1, <3>2
    <2> QED
        BY <2>2, <2>3, <2>4, <2>6 DEF CountInv
<1>5. CASE Tick
    <2>1. /\ fb'.has = fb.has /\ fb'.serial = fb.serial /\ fb'.seq = fb.seq
          /\ fb'.lost = fb.lost /\ fb'.received = fb.received
        BY <1>5, TickFacts
    <2>2. UNCHANGED <<sent, seq, net, restarts, cmd, got>>
        BY <1>5 DEF Tick
    <2> QED
        BY <2>1, <2>2 DEF CountInv, CountsAreExact, Missing
<1>6. CASE UNCHANGED vars
    BY <1>6 DEF CountInv, CountsAreExact, Missing, vars
<1> QED
    BY <1>1, <1>2, <1>3, <1>4, <1>5, <1>6 DEF Next

----------------------------------------------------------------------------
(***************************************************************************)
(* The invariant of the stream and the buffers holds for every network;    *)
(* its last two parts speak of an ordered one.                             *)
(***************************************************************************)
THEOREM InductiveInvariant == Spec => []IInv
<1>1. Init => IInv
    <2> SUFFICES ASSUME Init
                 PROVE  IInv
        OBVIOUS
    <2>0. Len(<<>>) = 0 /\ <<>> \in Seq(LinkPacket) /\ <<>> \in Seq(Sample)
        BY EmptySeq
    <2>1. 0 \in SeqNums /\ 0 \in SampleAge /\ 0 \in 0 .. MaxSent
        BY Constants DEF SeqNums, SampleAge
    <2>2. TypeOK
        BY <2>0, <2>1, Constants DEF Init, TypeOK
    <2>3. WindowInv
        BY <2>0 DEF Init, WindowInv
    <2>4. StreamInv
        BY <2>0 DEF Init, StreamInv
    <2>5. CountInv
        <3>1. Missing = {} /\ Cardinality({}) = 0
            BY FS_EmptySet DEF Init, Missing
        <3>2. Number(1) = 0
            BY Constants DEF Number
        <3> QED
            BY <2>0, <3>1, <3>2 DEF Init, CountInv, CountsAreExact
    <2> QED
        BY <2>2, <2>3, <2>4, <2>5 DEF IInv
<1>2. IInv /\ [Next]_vars => IInv'
    <2>1. OrderedNetwork' = OrderedNetwork /\ ShortBursts' = ShortBursts
        BY DEF OrderedNetwork, ShortBursts
    <2> QED
        BY <2>1, TypeStep, WindowStep, StreamStep, CountStep DEF IInv
<1> QED
    BY <1>1, <1>2, PTL DEF Spec

(***************************************************************************)
(* Both loss counters and the receive counter are exact in an ordered      *)
(* stream whose bursts stay below half the number space, across every      *)
(* number of wraps and duplicates.                                         *)
(***************************************************************************)
THEOREM CountsAreExactThm ==
    ASSUME OrderedNetwork, ShortBursts
    PROVE  Spec => []CountsAreExact
<1>1. IInv => CountsAreExact
    BY DEF IInv, CountInv, CountsAreExact
<1> QED
    BY <1>1, InductiveInvariant, PTL

(***************************************************************************)
(* In an ordered stream, with bursts of any length and any number of       *)
(* restarts of the sender, the command buffer holds the newest packet.     *)
(***************************************************************************)
THEOREM LatestIsNewestThm ==
    ASSUME OrderedNetwork
    PROVE  Spec => []LatestIsNewest
<1>1. IInv => LatestIsNewest
    <2> SUFFICES ASSUME IInv, got # {}
                 PROVE  cmd.serial = Max(got)
        BY DEF LatestIsNewest
    <2>1. got \subseteq Nat /\ cmd.serial \in got /\ \A g \in got : g <= cmd.serial
        BY DEF IInv, TypeOK, StreamInv, Serials
    <2> QED
        BY <2>1, MaxFacts
<1> QED
    BY <1>1, InductiveInvariant, PTL

(***************************************************************************)
(* A stalled link shows neither a rate nor a loss, on any network: when    *)
(* the newest packet has left the window, so has every sample.             *)
(***************************************************************************)
THEOREM StalledLinkHasNoRateThm == Spec => []StalledLinkHasNoRate
<1>1. IInv => StalledLinkHasNoRate
    <2> SUFFICES ASSUME IInv, fb.age > Window
                 PROVE  Snapshot(fb) = [received |-> 0, lost |-> 0]
        BY DEF StalledLinkHasNoRate
    <2>0. /\ fb.samples \in Seq(Sample) /\ fb.age \in Nat /\ Window \in Nat
          /\ DOMAIN fb.samples = 1 .. Len(fb.samples)
        BY LenProperties, Constants DEF IInv, TypeOK, SampleAge
    <2>1. ASSUME NEW i \in DOMAIN fb.samples
          PROVE  ~InWindow(fb.samples[i])
        <3>1. fb.samples[i].age \in fb.age .. Window + fb.age
            BY <2>0, <2>1 DEF IInv, WindowInv
        <3> QED
            BY <2>0, <3>1 DEF InWindow
    <2>2. SnapshotSamples(fb) = {}
        BY <2>1 DEF SnapshotSamples
    <2>3. Cardinality({}) = 0
        BY FS_EmptySet
    <2> DEFINE F(i) == fb.samples[i].lost
    <2>4. MapThenSumSet(F, {}) = 0
        <3>1. SUBSET {} = {{}}
            OBVIOUS
        <3> QED
            BY <3>1 DEF MapThenSumSet, MapThenFoldSet
    <2> QED
        BY <2>2, <2>3, <2>4 DEF Snapshot
<1> QED
    BY <1>1, InductiveInvariant, PTL
=============================================================================
