----------------------------- MODULE TeleopLink -----------------------------
(***************************************************************************)
(* One UDP stream between leader and follower: a sender that numbers its   *)
(* packets, the network, the receiver thread that validates a datagram,    *)
(* and the buffer the packet ends up in.  Commands end in a                *)
(* TeleopStateBuffer and feedback in a FeedbackStateBuffer; the two        *)
(* classes treat sequence numbers differently, so both are fed the same    *)
(* deliveries here and compared with the same ground truth.                *)
(*                                                                         *)
(* A packet carries its sequence number, which wraps at SeqSpace (2^32 in  *)
(* the code), and its serial, which never wraps and which only the         *)
(* properties look at.  The network is external: it may lose, corrupt and  *)
(* duplicate, and reorder packets if Reorder holds.                        *)
(***************************************************************************)
EXTENDS Integers, FiniteSets, FiniteSetsExt, SequencesExt

CONSTANTS
    SeqSpace,   \* number of sequence numbers
    Window,     \* window_ns_ of the feedback statistics, in ticks
    MaxSent,    \* bound: packets sent in a behaviour
    MaxFlight,  \* bound: packets in flight
    MaxBurst,   \* bound: packets in a row that the network loses or spoils
    MaxRestarts,\* bound: restarts of the sending process
    Reorder     \* may the network deliver packets out of order?

ASSUME LinkAssumption ==
    /\ SeqSpace \in Nat /\ SeqSpace % 2 = 0 /\ SeqSpace > 2
    /\ {Window, MaxSent, MaxFlight, MaxBurst, MaxRestarts} \subseteq Nat
    /\ Reorder \in BOOLEAN

VARIABLES
    sent,     \* serial of the newest packet
    seq,      \* sequence number of the next packet
    net,      \* packets in flight, oldest first
    burst,    \* packets lost in a row
    restarts, \* how often the sending process has restarted
    cmd,      \* the TeleopStateBuffer
    fb,       \* the FeedbackStateBuffer
    got       \* history: serials of the packets that passed validation

vars == <<sent, seq, net, burst, restarts, cmd, fb, got>>

SeqNums == 0 .. SeqSpace - 1
Serials == 1 .. MaxSent
LinkPacket == [serial : Serials, seq : SeqNums]

\* Ages above Window are all the same to the window.
SampleAge == 0 .. Window + 1
Sample == [age : SampleAge, lost : SeqNums]

TypeOK ==
    /\ sent \in 0 .. MaxSent
    /\ seq \in SeqNums
    /\ net \in Seq(LinkPacket) /\ Len(net) <= MaxFlight
    /\ burst \in 0 .. MaxBurst
    /\ restarts \in 0 .. MaxRestarts
    /\ cmd \in [has : BOOLEAN, serial : 0 .. MaxSent, seq : SeqNums, lost : Nat]
    /\ fb \in [has : BOOLEAN, serial : 0 .. MaxSent, seq : SeqNums, lost : Nat,
               received : Nat, age : SampleAge, samples : Seq(Sample)]
    /\ got \subseteq Serials

Init ==
    /\ sent = 0
    /\ seq = 0
    /\ net = <<>>
    /\ burst = 0
    /\ restarts = 0
    /\ cmd = [has |-> FALSE, serial |-> 0, seq |-> 0, lost |-> 0]
    /\ fb = [has |-> FALSE, serial |-> 0, seq |-> 0, lost |-> 0,
             received |-> 0, age |-> 0, samples |-> <<>>]
    /\ got = {}

----------------------------------------------------------------------------
(* The buffers.                                                            *)

\* uint32_t diff = packet.seq - last_seq_
Diff(pkt, b) == (pkt.seq - b.seq) % SeqSpace

\* diff > 0x7FFFFFFF
Backwards(pkt, b) == b.has /\ Diff(pkt, b) > SeqSpace \div 2 - 1

\* The packets a gap in the numbers stands for.
LostBefore(pkt, b) ==
    IF b.has /\ ~Backwards(pkt, b) /\ Diff(pkt, b) > 1
    THEN Diff(pkt, b) - 1 ELSE 0

\* Mutant: what the comment in update() announces, and no more.
TeleopUpdate_RejectsOld(b, pkt) ==
    IF Backwards(pkt, b) THEN b
    ELSE [has |-> TRUE, serial |-> pkt.serial, seq |-> pkt.seq,
          lost |-> b.lost + LostBefore(pkt, b)]

(***************************************************************************)
(* TeleopStateBuffer::update.  A packet whose number goes backwards resets *)
(* the timing statistics (left out here) and is then stored like any       *)
(* other; a duplicate is stored again.  The loss counter is never reset.   *)
(***************************************************************************)
TeleopUpdate(b, pkt) ==
    [has |-> TRUE, serial |-> pkt.serial, seq |-> pkt.seq,
     lost |-> b.lost + LostBefore(pkt, b)]

InWindow(smp) == smp.age <= Window

\* Mutant: the sample in front of the first one to keep stays.
Trimmed_OneLess(s) ==
    SubSeq(s, Max({1, SelectInSeq(s, InWindow) - 1}), Len(s))

\* trim_locked: samples that left the window are popped from the front.  It
\* is called with a new sample at the back, which stops it.
Trimmed(s) == SubSeq(s, SelectInSeq(s, InWindow), Len(s))

\* Mutant: a duplicate is counted and stored again.
FeedbackUpdate_CountsDuplicates(b, pkt) ==
    [has |-> TRUE, serial |-> pkt.serial, seq |-> pkt.seq,
     lost |-> b.lost + LostBefore(pkt, b),
     received |-> b.received + 1,
     age |-> 0,
     samples |-> Trimmed(Append(b.samples,
                                [age |-> 0, lost |-> LostBefore(pkt, b)]))]

(***************************************************************************)
(* FeedbackStateBuffer::update.  A duplicate changes nothing; a number     *)
(* that goes backwards clears the samples.                                 *)
(***************************************************************************)
FeedbackUpdate(b, pkt) ==
    LET kept == IF Backwards(pkt, b) THEN <<>> ELSE b.samples
        smp  == [age |-> 0, lost |-> LostBefore(pkt, b)]
    IN  IF b.has /\ Diff(pkt, b) = 0 THEN b
        ELSE [has |-> TRUE, serial |-> pkt.serial, seq |-> pkt.seq,
              lost |-> b.lost + LostBefore(pkt, b),
              received |-> b.received + 1,
              age |-> 0,
              samples |-> Trimmed(Append(kept, smp))]

\* Mutant: the snapshot trusts the trimming done by update().
SnapshotSamples_Untrimmed(b) == DOMAIN b.samples

\* The samples FeedbackStateBuffer::snapshot takes into account.
SnapshotSamples(b) == {i \in DOMAIN b.samples : InWindow(b.samples[i])}

\* received and lost of FeedbackStateBuffer::snapshot; rate_hz is zero when
\* received is, and loss_percent is lost / (received + lost).
Snapshot(b) ==
    [received |-> Cardinality(SnapshotSamples(b)),
     lost |-> MapThenSumSet(LAMBDA i : b.samples[i].lost, SnapshotSamples(b))]

----------------------------------------------------------------------------
(* The sender.                                                             *)

\* seq++ of the loop, encode and sendto.
Send ==
    /\ sent < MaxSent
    /\ Len(net) < MaxFlight
    /\ sent' = sent + 1
    /\ seq' = (seq + 1) % SeqSpace
    /\ net' = Append(net, [serial |-> sent + 1, seq |-> seq])
    /\ UNCHANGED <<burst, restarts, cmd, fb, got>>

\* The sending process starts again and numbers from zero.
Restart ==
    /\ restarts < MaxRestarts
    /\ restarts' = restarts + 1
    /\ seq' = 0
    /\ UNCHANGED <<sent, net, burst, cmd, fb, got>>

----------------------------------------------------------------------------
(* The network and the receiver thread.                                    *)

\* A datagram that never arrives, or that decode_and_validate refuses.
Lose ==
    /\ net # <<>>
    /\ burst < MaxBurst
    /\ burst' = burst + 1
    /\ net' = Tail(net)
    /\ UNCHANGED <<sent, seq, restarts, cmd, fb, got>>

\* receive_loop: a valid datagram goes to the callback.  The network may
\* keep a copy and deliver it again.
Deliver(i, copy) ==
    /\ i \in 1 .. Len(net)
    /\ i = 1 \/ Reorder
    /\ net' = IF copy THEN net ELSE RemoveAt(net, i)
    /\ burst' = 0
    /\ cmd' = TeleopUpdate(cmd, net[i])
    /\ fb' = FeedbackUpdate(fb, net[i])
    /\ got' = got \cup {net[i].serial}
    /\ UNCHANGED <<sent, seq, restarts>>

Older(age) == IF age > Window THEN age ELSE age + 1

\* Time passes for the samples of the feedback window.
Tick ==
    /\ fb' = [fb EXCEPT !.age = IF fb.has THEN Older(@) ELSE @,
                        !.samples = [i \in DOMAIN fb.samples |->
                           [fb.samples[i] EXCEPT !.age = Older(@)]]]
    /\ UNCHANGED <<sent, seq, net, burst, restarts, cmd, got>>

Next ==
    \/ Send
    \/ Restart
    \/ Lose
    \/ \E i \in 1 .. MaxFlight, copy \in BOOLEAN : Deliver(i, copy)
    \/ Tick

Spec == Init /\ [][Next]_vars

----------------------------------------------------------------------------
(* Properties of an ordered stream.                                        *)

\* The serials between the first and the last packet that never made it.
Missing == IF got = {} THEN {} ELSE (Min(got) .. Max(got)) \ got

(***************************************************************************)
(* The loss counters of both buffers count exactly the missing packets,    *)
(* and the feedback statistics neither forget nor invent one: every packet *)
(* from the first to the last is received or lost, across duplicates and   *)
(* across the wrap of the sequence number, as long as the sender has not   *)
(* restarted and fewer than half a sequence space is lost in a row.        *)
(***************************************************************************)
CountsAreExact ==
    restarts = 0 =>
        /\ cmd.lost = Cardinality(Missing)
        /\ fb.lost = Cardinality(Missing)
        /\ fb.received = Cardinality(got)

\* The command buffer holds the newest packet that arrived, also when the
\* sender restarted and its numbers went backwards.
LatestIsNewest == got # {} => cmd.serial = Max(got)

\* A stalled link shows no rate and no loss, however many samples the last
\* update left in the window (snapshot() counts what is inside the window).
StalledLinkHasNoRate ==
    fb.age > Window => Snapshot(fb) = [received |-> 0, lost |-> 0]

----------------------------------------------------------------------------
(* The inductive invariant behind them.                                    *)

OrderedNetwork == ~Reorder

\* Every gap stays on the right side of the test in Backwards.
ShortBursts == MaxBurst + 1 < SeqSpace \div 2

(***************************************************************************)
(* The feedback window.  Samples are in order of arrival, none is younger  *)
(* than the newest packet, and none was outside the window when that       *)
(* packet arrived: popping from the front was enough to trim.              *)
(***************************************************************************)
WindowInv ==
    /\ ~fb.has => fb.samples = <<>>
    /\ \A i \in 1 .. Len(fb.samples) :
           /\ fb.samples[i].age \in fb.age .. Window + fb.age
           /\ \A j \in 1 .. i : fb.samples[j].age >= fb.samples[i].age

(***************************************************************************)
(* An ordered network.  The packets in flight are the newest ones; the one *)
(* in the command buffer is the newest that arrived, and between it and    *)
(* the next to arrive (or the same once more) are only the packets of the  *)
(* current burst.                                                          *)
(***************************************************************************)
StreamInv ==
    /\ \A i \in 1 .. Len(net) : net[i].serial = sent - Len(net) + i
    /\ cmd.has <=> got # {}
    /\ got # {} =>
           /\ cmd.serial \in got
           /\ \A g \in got : g <= cmd.serial
           /\ sent - Len(net) + 1 - cmd.serial \in 0 .. burst + 1

\* The number a sender that has not restarted gives to a packet.
Number(serial) == (serial - 1) % SeqSpace

\* Without a restart numbers follow from serials, both buffers agree, and the
\* counters are exact.
CountInv ==
    restarts = 0 =>
        /\ seq = Number(sent + 1)
        /\ \A i \in 1 .. Len(net) : net[i].seq = Number(net[i].serial)
        /\ cmd.has => cmd.seq = Number(cmd.serial)
        /\ fb.has = cmd.has /\ fb.serial = cmd.serial /\ fb.seq = cmd.seq
        /\ CountsAreExact

IInv ==
    /\ TypeOK
    /\ WindowInv
    /\ OrderedNetwork => StreamInv
    /\ OrderedNetwork /\ ShortBursts => CountInv

----------------------------------------------------------------------------
(* What the documentation says.                                            *)

\* docs/protocol.md: out-of-order packets are rejected, so the packet in
\* the command buffer never becomes an older one.
OutOfOrderRejected == [][cmd.has => cmd'.serial >= cmd.serial]_vars
=============================================================================
