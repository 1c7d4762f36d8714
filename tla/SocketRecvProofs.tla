--------------------------- MODULE SocketRecvProofs ---------------------------
(***************************************************************************)
(* The receiving thread, for every sequence of frames, however TCP cuts    *)
(* it, and for every size of the buffer and the queues: what comes out on  *)
(* a command port and on a report port.                                    *)
(***************************************************************************)
EXTENDS SocketRecv, SequenceTheorems, WellFoundedInduction, TLAPS

\* Where frame n begins, and the end of the stream behind the last of them.
Begin(n) == IF n \in Numbers THEN frames[n].at ELSE Total
Frames1  == 1..(Len(frames) + 1)

\* The buffer holds the last bytes that recv has returned.
Run ==
  /\ Len(buf) <= at
  /\ \A i \in 1..Len(buf) : buf[i] = at - Len(buf) + i

\* The frames of a type before n, in order.
Upto(seq, type, n) ==
  /\ \A i \in 1..Len(seq) : seq[i] \in 1..(n - 1) /\ frames[seq[i]].type = type
  /\ \A i, j \in 1..Len(seq) : i < j => seq[i] < seq[j]
  /\ \A f \in 1..(n - 1) : frames[f].type = type => \E i \in 1..Len(seq) : seq[i] = f

Magnitude(seq) == [i \in 1..Len(seq) |-> IF seq[i] < 0 THEN -seq[i] ELSE seq[i]]

\* The thread of a command port has handed out what there is before frame n, and
\* the rest of the buffer begins with it; it is not all there when recv is called.
Reached(n) ==
  /\ state \/ pc \in {"recv", "parse", "push"} =>
       Begin(n) = at - Len(buf) + (IF pc \in {"parse", "push"} THEN offset ELSE 0)
  /\ Upto(out, "answer", n)
  /\ FeedbackCap > 0 => Upto(Magnitude(fout), "feedback", n)
  /\ pc = "push" => n \in Numbers /\ size = frames[n].len /\ frames[n].type # "feedback"
  /\ state /\ pc \in {"loop", "recv"} /\ n \in Numbers => at < End(n)

CommandInv ==
  /\ pc \in {"loop", "recv", "parse", "push", "gone"}
  /\ Len(buf) <= BufSize /\ offset <= BufSize /\ size \in 0..BufSize
  /\ pc \in {"parse", "push"} => offset <= Len(buf)
  /\ pc = "push" => size > 0 /\ offset + size <= Len(buf)
  /\ FeedbackCap = 0 => fout = <<>>
  /\ why # "length"
  /\ ~spoilt => Run /\ \E n \in Frames1 : Reached(n)

short == frames[1].says = Guessed.short
Handing == {"room", "drop", "put"}

\* All that has been read is in the buffer.
First == at = Len(buf) /\ out = <<>>

\* The length is not known yet.
Learning ==
  /\ size = 0 /\ ~spoilt
  /\ Len(buf) <= HeaderLen /\ (pc # "report" => Len(buf) < HeaderLen)
  /\ ~unsure /\ pc \notin Handing

\* The ambiguous length, taken for the longer one.
Guessing == short /\ ~spoilt /\ unsure /\ size = Guessed.long /\ Len(buf) <= size /\ pc \notin Handing

\* The guess was wrong: the first report and more are in the buffer.
Corrected ==
  /\ short /\ frames[1].len = Guessed.short /\ ~unsure /\ size = Guessed.short
  /\ Len(buf) > size
  /\ spoilt <=> pc \in {"report"} \cup Handing /\ ~AtFrameEnd(at)

\* The guess was right, but not the length in the header.
GivenUp ==
  /\ short /\ frames[1].len = Guessed.long /\ ~unsure /\ size = Guessed.long
  /\ ~state /\ pc \in {"loop", "gone"}

\* Report n comes out after these: the next, or after the first of the ambiguous length
\* one behind the second.
Follows(seq, n) ==
  IF Len(seq) = 0 THEN n = 1
  ELSE IF short /\ Len(seq) = 1 THEN n > 2
  ELSE n = seq[Len(seq)] + 1

\* Reports are cut at the right places.
Aligned(n) ==
  /\ ~spoilt /\ ~unsure /\ size = frames[1].len /\ frames[1].says = frames[1].len
  /\ Begin(n) = at - Len(buf) /\ Len(buf) <= size
  /\ Follows(out, n) /\ (short => Len(out) > 0)
  /\ pc \in Handing => Len(buf) = size

\* Reports are cut at the wrong places, and the next is not handed out.
Astray ==
  /\ short /\ frames[1].len = Guessed.short /\ ~unsure /\ size = Guessed.short
  /\ spoilt /\ Len(buf) <= size /\ pc \notin Handing
  /\ \A n \in Frames1 : Begin(n) # at - Len(buf)

\* Reports come out in order, with a gap behind the first if their length is ambiguous.
InStep(seq) ==
  \A i \in 1..Len(seq) :
    /\ seq[i] > 0
    /\ i = 1 => seq[i] = 1
    /\ i > 1 => IF short /\ i = 2 THEN seq[i] > 2 ELSE seq[i] = seq[i - 1] + 1

ReportInv ==
  /\ pc \notin {"parse", "push"} /\ offset = 0 /\ Run
  /\ InStep(out)
  /\ pc = "put" => held < Cap
  /\ why = "length" => spoilt \/ frames[1].says # frames[1].len
  /\ \/ First /\ (Learning \/ Guessing \/ Corrected \/ GivenUp)
     \/ \E n \in Frames1 : Aligned(n)
     \/ Astray

-----------------------------------------------------------------------------
(* The stream. *)

LEMMA StreamType ==
  ASSUME stream \in Streams
  PROVE  /\ Len(frames) \in Nat \ {0} /\ 1 \in Numbers
         /\ \A n \in Numbers :
              /\ frames[n].len \in (HeaderLen + 1)..BufSize
              /\ frames[n].says \in (HeaderLen + 1)..BufSize
              /\ frames[n].at \in Nat
              /\ frames[n].len \in Nat /\ frames[n].len > 0
              /\ End(n) \in Nat /\ End(n) = frames[n].at + frames[n].len
              /\ frames[n].at < End(n) /\ n \in Nat /\ 1 \in 1..frames[n].len
         /\ frames[1].at = 0
         /\ \A n \in Numbers : n + 1 \in Numbers => frames[n + 1].at = End(n)
         /\ HeaderLen \in Nat \ {0} /\ BufSize \in Nat
<1>1. /\ frames \in Seq(Frame) /\ frames # <<>> /\ frames[1].at = 0
      /\ \A n \in 1..(Len(frames) - 1) : frames[n + 1].at = frames[n].at + frames[n].len
  BY SocketAssumption DEF frames
<1>2. HeaderLen \in Nat \ {0} /\ BufSize \in Nat
  BY SocketAssumption
<1>3. Len(frames) \in Nat \ {0}
  BY <1>1, EmptySeq
<1>4. \A n \in Numbers : frames[n] \in Frame
  BY <1>1, ElementOfSeq DEF Numbers
<1>5. \A n \in Numbers :
        /\ frames[n].len \in (HeaderLen + 1)..BufSize
        /\ frames[n].says \in (HeaderLen + 1)..BufSize
        /\ frames[n].at \in Nat
  BY <1>4 DEF Frame
<1>6. \A n \in Numbers : frames[n].len \in Nat /\ frames[n].len > 0
  BY <1>2, <1>5
<1>7. \A n \in Numbers : n + 1 \in Numbers => frames[n + 1].at = End(n)
  BY <1>1, <1>3 DEF Numbers, End
<1>8. 1 \in Numbers
  BY <1>3 DEF Numbers
<1>9. \A n \in Numbers : /\ End(n) \in Nat /\ End(n) = frames[n].at + frames[n].len
                        /\ frames[n].at < End(n) /\ 1 \in 1..frames[n].len
  BY <1>5, <1>6 DEF End
<1>10. \A n \in Numbers : n \in Nat
  BY <1>3 DEF Numbers
<1>11. QED
  BY <1>1, <1>2, <1>3, <1>5, <1>6, <1>7, <1>8, <1>9, <1>10

\* Frames follow each other.
LEMMA Ordered ==
  ASSUME stream \in Streams, NEW m \in Numbers, NEW n \in Numbers, m < n
  PROVE  End(m) <= frames[n].at
<1> DEFINE T == {k \in Numbers : m < k /\ ~(End(m) <= frames[k].at)}
           R == OpToRel(<, Nat)
<1>0. \A k \in Numbers : k \in Nat /\ frames[k].at \in Nat /\ End(k) \in Nat /\ frames[k].at <= End(k)
  BY StreamType
<1>1. SUFFICES ASSUME T # {} PROVE FALSE
  BY <1>1
<1>2. \A a, b \in Nat : a < b => <<a, b>> \in R
  BY DEF OpToRel
<1>3. IsWellFoundedOn(R, Nat) /\ T \subseteq Nat
  BY <1>0, NatLessThanWellFounded
<1> HIDE DEF R
<1>4. PICK k \in T : \A j \in T : <<j, k>> \notin R
  BY <1>1, <1>3, WFMin, Zenon
<1>5. k \in Numbers /\ m < k /\ ~(End(m) <= frames[k].at)
  OBVIOUS
<1>6. k - 1 \in Numbers /\ m <= k - 1
  BY <1>0, <1>5, StreamType DEF Numbers
<1>7. frames[k].at = End(k - 1)
  <2>1. (k - 1) + 1 = k
    BY <1>0, <1>5
  <2>2. QED
    BY <1>5, <1>6, <2>1, StreamType
<1>8. m # k - 1
  BY <1>0, <1>5, <1>7
<1>9. k - 1 \in T
  <2>1. frames[k - 1].at <= End(k - 1)
    BY <1>0, <1>6
  <2>2. m < k - 1
    BY <1>0, <1>5, <1>6, <1>8
  <2>3. ~(End(m) <= frames[k - 1].at)
    BY <1>0, <1>5, <1>6, <1>7, <2>1
  <2>4. QED
    BY <1>6, <2>2, <2>3
<1>10. <<k - 1, k>> \in R
  BY <1>0, <1>2, <1>5, <1>6
<1>11. QED
  BY <1>4, <1>9, <1>10

\* Where frames begin and end.
LEMMA Begins ==
  ASSUME stream \in Streams
  PROVE  /\ Total \in Nat /\ \A n \in Frames1 : Begin(n) \in 0..Total
         /\ Begin(1) = 0 /\ 1 \in Frames1
         /\ \A n \in Numbers : /\ n \in Frames1 /\ n + 1 \in Frames1
                               /\ Begin(n) = frames[n].at /\ Begin(n + 1) = End(n)
                               /\ End(n) <= Total
         /\ \A n \in Frames1 : n \in Nat /\ (n \notin Numbers => Begin(n) = Total /\ n = Len(frames) + 1)
         /\ \A m \in Numbers, n \in Frames1 : m < n => End(m) <= Begin(n)
<1>1. Len(frames) \in Nat \ {0} /\ 1 \in Numbers
  BY StreamType
<1>2. Len(frames) \in Numbers
  BY <1>1 DEF Numbers
<1>3. Total \in Nat
  BY <1>2, StreamType DEF Total
<1>4. \A n \in Numbers : frames[n].at \in Nat /\ End(n) \in Nat /\ frames[n].at <= End(n)
  BY StreamType
<1>5. \A n \in Numbers : End(n) <= Total
  <2>1. ASSUME NEW n \in Numbers PROVE End(n) <= Total
    <3>1. CASE n = Len(frames)
      BY <1>3, <3>1 DEF Total
    <3>2. CASE n # Len(frames)
      <4>1. n < Len(frames)
        BY <1>1, <3>2 DEF Numbers
      <4>2. End(n) <= frames[Len(frames)].at
        BY <1>2, <4>1, Ordered
      <4>3. QED
        BY <1>2, <1>4, <4>2 DEF Total
    <3>3. QED
      BY <3>1, <3>2
  <2>2. QED
    BY <2>1
<1>6. \A n \in Numbers : n \in Frames1 /\ n + 1 \in Frames1 /\ Begin(n) = frames[n].at
  BY <1>1 DEF Numbers, Frames1, Begin
<1>7. \A n \in Frames1 : n \in Nat /\ (n \notin Numbers => Begin(n) = Total /\ n = Len(frames) + 1)
  BY <1>1 DEF Numbers, Frames1, Begin
<1>8. \A n \in Numbers : Begin(n + 1) = End(n)
  <2>1. ASSUME NEW n \in Numbers PROVE Begin(n + 1) = End(n)
    <3>1. CASE n + 1 \in Numbers
      BY <1>6, <3>1, StreamType
    <3>2. CASE n + 1 \notin Numbers
      <4>1. n = Len(frames)
        BY <1>1, <3>2 DEF Numbers
      <4>2. QED
        BY <3>2, <4>1 DEF Begin, Total
    <3>3. QED
      BY <3>1, <3>2
  <2>2. QED
    BY <2>1
<1>9. \A n \in Frames1 : Begin(n) \in 0..Total
  <2>1. ASSUME NEW n \in Numbers PROVE Begin(n) \in 0..Total
    <3>1. Begin(n) \in Nat /\ Begin(n) <= End(n) /\ End(n) <= Total /\ End(n) \in Nat
      BY <1>4, <1>5, <1>6
    <3>2. QED
      BY <1>3, <3>1
  <2>2. QED
    BY <1>3, <1>7, <2>1
<1>10. Begin(1) = 0
  BY <1>1, <1>6, StreamType
<1>11. ASSUME NEW m \in Numbers, NEW n \in Frames1, m < n
       PROVE  End(m) <= Begin(n)
  <2>1. CASE n \in Numbers
    BY <1>6, <1>11, <2>1, Ordered
  <2>2. CASE n \notin Numbers
    BY <1>5, <1>7, <2>2
  <2>3. QED
    BY <2>1, <2>2
<1>12. QED
  BY <1>1, <1>3, <1>5, <1>6, <1>7, <1>8, <1>9, <1>10, <1>11

\* No two frames begin at the same place.
LEMMA BeginsApart ==
  ASSUME stream \in Streams, NEW m \in Numbers, NEW n \in Frames1, frames[m].at = Begin(n)
  PROVE  m = n
<1>1. m \in Nat /\ n \in Nat /\ frames[m].at < End(m)
  BY Begins, StreamType
<1>2. ASSUME m < n PROVE FALSE
  BY <1>1, <1>2, Begins, StreamType
<1>3. ASSUME n < m PROVE FALSE
  <2>1. n \in Numbers
    BY <1>1, <1>3, StreamType DEF Frames1, Numbers
  <2>2. End(n) <= frames[m].at
    BY <1>3, <2>1, Ordered
  <2>5. frames[n].at < End(n) /\ Begin(n) = frames[n].at
    BY <2>1, StreamType, Begins
  <2>3. frames[n].at \in Nat /\ End(n) \in Nat /\ frames[m].at \in Nat
    BY <2>1, StreamType
  <2>4. QED
    BY <2>2, <2>3, <2>5
<1>4. QED
  BY <1>1, <1>2, <1>3

\* The header of a frame, and what the frame gives itself for.
LEMMA HeaderIs ==
  ASSUME stream \in Streams, NEW n \in Numbers
  PROVE  /\ Length(frames[n].at + HeaderLen) = {frames[n].says}
         /\ Feedback(frames[n].at + HeaderLen) = {frames[n].type = "feedback"}
<1>1. \A f \in Numbers : frames[f].at + HeaderLen = frames[n].at + HeaderLen => f = n
  <2>1. ASSUME NEW f \in Numbers, frames[f].at + HeaderLen = frames[n].at + HeaderLen
        PROVE  f = n
    <3>1. frames[f].at = frames[n].at
      BY <2>1, StreamType, SMTT(30)
    <3>2. QED
      BY <3>1, Begins, BeginsApart
  <2>2. QED
    BY <2>1
<1>2. HeaderAt(frames[n].at + HeaderLen) = {n}
  BY <1>1 DEF HeaderAt
<1>3. QED
  BY <1>2 DEF Length, Feedback

LEMMA SaysIs ==
  ASSUME stream \in Streams, NEW n \in Frames1
  PROVE  /\ n \in Numbers => Says(Begin(n) + 1) = frames[1].says
         /\ \A p \in Nat : (\A f \in Numbers : Begin(f) # p) => Says(p + 1) = -1
<1>1. n \in Numbers => Begin(n) = frames[n].at
  BY Begins
<1>2. \A f \in Numbers : Begin(f) = frames[f].at /\ Begin(f) \in Nat
  BY Begins
<1>3. \A p \in Nat, f \in Numbers : p + 1 = frames[f].at + 1 => Begin(f) = p
  BY <1>2
<1>4. QED
  BY <1>1, <1>3 DEF Says

\* The bytes from the beginning of a frame on, as many as it has, are that frame.
LEMMA FrameIs ==
  ASSUME stream \in Streams, NEW n \in Numbers, NEW bytes,
         bytes = [i \in 1..frames[n].len |-> frames[n].at + i]
  PROVE  FrameOf(bytes) = n
<1> DEFINE fs == {f \in Numbers : bytes = Bytes(f)}
<1>1. n \in fs
  BY DEF Bytes
<1>2. \A f \in fs : f = n
  <2>1. ASSUME NEW f \in Numbers, bytes = Bytes(f) PROVE f = n
    <3>1. 1 \in 1..frames[n].len /\ frames[n].at \in Nat /\ frames[f].at \in Nat
          /\ 1 \in 1..frames[f].len
      BY StreamType
    <3>2. bytes[1] = frames[n].at + 1 /\ bytes[1] = frames[f].at + 1
      BY <2>1, <3>1 DEF Bytes
    <3>3. frames[f].at = frames[n].at
      BY <3>1, <3>2
    <3>4. QED
      BY <3>3, Begins, BeginsApart
  <2>2. QED
    BY <2>1
<1>3. FrameOf(bytes) = IF fs = {} THEN 0 ELSE CHOOSE f \in fs : TRUE
  BY DEF FrameOf
<1> HIDE DEF fs
<1>4. QED
  BY <1>1, <1>2, <1>3

-----------------------------------------------------------------------------
(* The buffer. *)

\* recv appends the next bytes.
LEMMA BufferGrows ==
  ASSUME buf \in Seq(Nat), at \in Nat, NEW n \in Nat,
         buf' = buf \o [i \in 1..n |-> at + i], at' = at + n
  PROVE  buf' \in Seq(Nat) /\ Len(buf') = Len(buf) + n /\ (Run => Run')
<1> DEFINE more == [i \in 1..n |-> at + i]
<1>1. more \in Seq(Nat) /\ Len(more) = n
  OBVIOUS
<1>2. Len(buf) \in Nat
  BY LenProperties
<1>3. /\ buf \o more \in Seq(Nat) /\ Len(buf \o more) = Len(buf) + Len(more)
      /\ \A i \in 1..(Len(buf) + Len(more)) :
           (buf \o more)[i] = IF i <= Len(buf) THEN buf[i] ELSE more[i - Len(buf)]
  BY <1>1, ConcatProperties
<1>4. \A k \in 1..n : more[k] = at + k
  OBVIOUS
<1> HIDE DEF more
<1>5. /\ buf' \in Seq(Nat) /\ Len(buf') = Len(buf) + n
      /\ \A i \in 1..(Len(buf) + n) : buf'[i] = IF i <= Len(buf) THEN buf[i] ELSE more[i - Len(buf)]
  BY <1>1, <1>3 DEF more
<1>6. ASSUME Run PROVE Run'
  <2>1. Len(buf) <= at /\ \A i \in 1..Len(buf) : buf[i] = at - Len(buf) + i
    BY <1>6 DEF Run
  <2>2. Len(buf') <= at'
    BY <1>2, <1>5, <2>1
  <2>3. ASSUME NEW i \in 1..Len(buf') PROVE buf'[i] = at' - Len(buf') + i
    <3>0. i \in 1..(Len(buf) + n) /\ at' - Len(buf') + i = at - Len(buf) + i
      BY <1>2, <1>5, <2>3
    <3>1. CASE i <= Len(buf)
      <4>1. i \in 1..Len(buf)
        BY <1>2, <3>0, <3>1
      <4>2. buf'[i] = buf[i]
        BY <1>5, <3>0, <3>1
      <4>3. QED
        BY <2>1, <3>0, <4>1, <4>2
    <3>2. CASE ~(i <= Len(buf))
      <4>1. i - Len(buf) \in 1..n
        BY <1>2, <3>0, <3>2
      <4>2. buf'[i] = more[i - Len(buf)]
        BY <1>5, <3>0, <3>2
      <4>3. buf'[i] = at + (i - Len(buf))
        BY <1>4, <4>1, <4>2
      <4>4. QED
        BY <1>2, <3>0, <4>3
    <3>3. QED
      BY <3>1, <3>2
  <2>4. QED
    BY <2>2, <2>3 DEF Run
<1>7. QED
  BY <1>5, <1>6

\* The bytes of the buffer from the beginning of a frame on are the frame.
LEMMA FrameInBuffer ==
  ASSUME stream \in Streams, buf \in Seq(Nat), at \in Nat, Run,
         NEW n \in Numbers, NEW o \in Nat, Begin(n) = at - Len(buf) + o,
         NEW l, l = frames[n].len, o + l <= Len(buf)
  PROVE  FrameOf(SubSeq(buf, o + 1, o + l)) = n
<1> DEFINE sub == SubSeq(buf, o + 1, o + l)
           t == [i \in 1..l |-> frames[n].at + i]
<1>1. /\ l \in Nat /\ l > 0 /\ frames[n].at \in Nat /\ Len(buf) \in Nat
      /\ frames[n].at = at - Len(buf) + o
  BY StreamType, Begins, LenProperties
<1>2. \A i \in 1..Len(buf) : buf[i] = at - Len(buf) + i /\ buf[i] \in Nat
  BY ElementOfSeq DEF Run
<1>3. \A i \in (o + 1)..(o + l) : i \in 1..Len(buf)
  BY <1>1
<1>4. \A i \in (o + 1)..(o + l) : buf[i] \in Nat
  BY <1>2, <1>3
<1>5. /\ sub \in Seq(Nat)
      /\ Len(sub) = IF o + 1 <= o + l THEN (o + l) - (o + 1) + 1 ELSE 0
      /\ \A i \in 1..((o + l) - (o + 1) + 1) : sub[i] = buf[(o + 1) + i - 1]
  <2>1. o + 1 \in Int /\ o + l \in Int
    BY <1>1
  <2>2. QED
    BY <1>4, <2>1, SubSeqProperties
<1>6. t \in Seq(Nat) /\ Len(t) = l
  <2>1. \A b, k \in Nat : [i \in 1..k |-> b + i] \in Seq(Nat) /\ Len([i \in 1..k |-> b + i]) = k
    OBVIOUS
  <2>2. QED
    BY <1>1, <2>1
<1>7. \A i \in 1..l : t[i] = frames[n].at + i
  OBVIOUS
<1> HIDE DEF sub, t
<1>8. Len(sub) = l
  BY <1>1, <1>5, SMTT(30)
<1>9. \A i \in 1..l : sub[i] = t[i]
  <2>1. ASSUME NEW i \in 1..l PROVE sub[i] = t[i]
    <3>1. /\ i \in 1..((o + l) - (o + 1) + 1) /\ (o + 1) + i - 1 = o + i
          /\ o + i \in 1..Len(buf)
      <4>1. o \in Nat /\ l \in Nat /\ i \in Nat /\ i >= 1 /\ i <= l /\ Len(buf) \in Nat
            /\ o + l <= Len(buf)
        BY <1>1, <2>1
      <4>2. (o + l) - (o + 1) + 1 = l /\ (o + 1) + i - 1 = o + i
        <5>1. \A a, b, c \in Nat : (a + b) - (a + 1) + 1 = b /\ (a + 1) + c - 1 = a + c
          OBVIOUS
        <5>2. QED
          BY <4>1, <5>1, Zenon
      <4>3. o + i \in Nat /\ o + i >= 1 /\ o + i <= Len(buf)
        BY <4>1
      <4>4. QED
        BY <2>1, <4>1, <4>2, <4>3
    <3>2. sub[i] = buf[o + i]
      BY <1>5, <3>1
    <3>3. buf[o + i] = at - Len(buf) + (o + i)
      BY <1>2, <3>1
    <3>4. at - Len(buf) + (o + i) = frames[n].at + i
      BY <1>1, <2>1
    <3>5. QED
      BY <1>7, <3>2, <3>3, <3>4
  <2>2. QED
    BY <2>1
<1>10. sub = t
  BY <1>5, <1>6, <1>8, <1>9, SeqEqual
<1>11. QED
  BY <1>10, FrameIs DEF sub, t

-----------------------------------------------------------------------------
(* What does not depend on the kind of the port. *)

\* The stream stays what it is.
LEMMA Still == ASSUME [Next]_vars PROVE stream' = stream
BY DEF Next, Thread, vars, env, Loop, Recv, RecvNothing, Interrupted, RecvFails, Parse, Push,
       Retry, ParseEnds, LearnSize, Report, MakeRoom, Drop, Put, Read, ClosePort, PeerCloses

LEMMA SameStream ==
  ASSUME stream' = stream
  PROVE  /\ frames' = frames /\ Numbers' = Numbers /\ Frames1' = Frames1 /\ Total' = Total
         /\ onReport' <=> onReport
         /\ short' <=> short
         /\ \A n : Begin(n)' = Begin(n) /\ End(n)' = End(n)
BY DEF frames, Numbers, Frames1, Total, onReport, short, Begin, End

Plain ==
  /\ stream \in Streams /\ at \in 0..Total
  /\ ended \in BOOLEAN /\ errno \in {"EINTR", "other"} /\ state \in BOOLEAN
  /\ pc \in {"loop", "recv", "parse", "push", "report", "room", "drop", "put", "gone"}
  /\ buf \in Seq(Nat) /\ offset \in Nat
  /\ size \in Int /\ (pc = "push" => size \in Nat)
  /\ tries \in 0..MaxTries /\ unsure \in BOOLEAN
  /\ held \in 0..Cap /\ fheld \in 0..FeedbackCap
  /\ why \in {"none", "end", "error", "full", "length", "user"} /\ spoilt \in BOOLEAN
  /\ out \in Seq(Int) /\ fout \in Seq(Int)

LEMMA InitPlain == Init => Plain
<1> SUFFICES ASSUME Init PROVE Plain
  OBVIOUS
<1>1. stream \in Streams
  BY DEF Init
<1>2. 0 \in 0..Total
  BY <1>1, Begins
<1>3. {0} \subseteq 0..MaxTries /\ {0} \subseteq 0..Cap /\ {0} \subseteq 0..FeedbackCap
  BY SocketAssumption
<1>4. buf \in Seq(Nat) /\ out \in Seq(Int) /\ fout \in Seq(Int)
  BY EmptySeq DEF Init
<1>5. at \in 0..Total /\ tries \in 0..MaxTries /\ held \in 0..Cap /\ fheld \in 0..FeedbackCap
  BY <1>2, <1>3 DEF Init
<1>6. offset \in Nat /\ size \in Int /\ (pc = "push" => size \in Nat)
  BY DEF Init
<1>7. ended \in BOOLEAN /\ state \in BOOLEAN /\ unsure \in BOOLEAN /\ spoilt \in BOOLEAN
  BY DEF Init
<1>8. QED
  BY <1>1, <1>4, <1>5, <1>6, <1>7 DEF Init, Plain

\* A step keeps the types.
LEMMA PlainNext == ASSUME Plain, [Next]_vars PROVE Plain'
<1> USE DEF env, recvVars, queueVars
<1>1. stream' = stream /\ Total' = Total /\ stream \in Streams
  BY Still, SameStream DEF Plain
<1>2. Total \in Nat /\ {Cap, MaxTries, HeaderLen} \subseteq Nat \ {0} /\ {FeedbackCap, BufSize} \subseteq Nat
  BY <1>1, SocketAssumption, Begins
<1>3. \A b : FrameOf(b) \in Int /\ -FrameOf(b) \in Int
  <2>1. \A f \in Numbers : f \in Int
    BY <1>1, StreamType
  <2>2. ASSUME NEW b PROVE FrameOf(b) \in Int
    <3> DEFINE fs == {f \in Numbers : b = Bytes(f)}
    <3>1. FrameOf(b) = IF fs = {} THEN 0 ELSE CHOOSE f \in fs : TRUE
      BY DEF FrameOf
    <3>2. \A f \in fs : f \in Int
      BY <2>1
    <3> HIDE DEF fs
    <3>3. QED
      BY <3>1, <3>2
  <2>3. QED
    BY <2>2
<1>4. \A p : \A length \in Length(p) : length \in Nat /\ length > HeaderLen
  <2>1. \A f \in Numbers : frames[f].says \in (HeaderLen + 1)..BufSize
    BY <1>1, StreamType
  <2>2. BufSize + 1 > HeaderLen
    <3>1. 1 \in Numbers
      BY <1>1, StreamType
    <3>2. QED
      BY <1>2, <2>1, <3>1
  <2>3. \A f \in Numbers : frames[f].says \in Nat /\ frames[f].says > HeaderLen
    BY <1>2, <2>1
  <2>4. QED
    BY <1>2, <2>2, <2>3 DEF Length, HeaderAt
<1>5. \A p : Says(p) \in Int
  <2>1. frames[1].says \in Int
    BY <1>1, <1>2, StreamType
  <2>2. QED
    BY <2>1 DEF Says
<1>6. Len(buf) \in Nat
  BY LenProperties DEF Plain
<1>7. CASE Loop
  BY <1>1, <1>7 DEF Loop, Plain
<1>8. CASE Recv
  <2>1. PICK n \in 1..(Total - at) :
          /\ at' = at + n
          /\ buf' = buf \o [i \in 1..n |-> at + i]
          /\ spoilt' = (spoilt \/ (onReport /\ size # 0 /\ Len(buf) > size /\ ~AtFrameEnd(at + n)))
    BY <1>8 DEF Recv
  <2>2. at \in Nat /\ n \in Nat /\ at' \in 0..Total
    BY <1>2, <2>1 DEF Plain
  <2>3. buf' \in Seq(Nat)
    BY <2>1, <2>2, BufferGrows DEF Plain
  <2>4. spoilt' \in BOOLEAN
    BY <2>1
  <2>5. QED
    BY <1>1, <1>8, <2>2, <2>3, <2>4 DEF Recv, Plain
<1>9. CASE RecvNothing
  BY <1>1, <1>9 DEF RecvNothing, Close, Plain
<1>10. CASE Interrupted
  BY <1>1, <1>10 DEF Interrupted, Plain
<1>11. CASE RecvFails
  BY <1>1, <1>11 DEF RecvFails, Close, Plain
<1>12. CASE Parse
  <2>1. PICK length \in Length(buf[offset + HeaderLen]), feedback \in Feedback(buf[offset + HeaderLen]) :
          LET bytes == SubSeq(buf, offset + 1, offset + length) IN
            IF feedback
            THEN /\ offset' = offset + length
                 /\ IF FeedbackCap = 0 THEN UNCHANGED <<fheld, fout>>
                    ELSE IF fheld < FeedbackCap
                    THEN fheld' = fheld + 1 /\ fout' = Append(fout, FrameOf(bytes))
                    ELSE UNCHANGED fheld /\ fout' = Append(fout, -FrameOf(bytes))
                 /\ UNCHANGED <<pc, size>>
            ELSE pc' = "push" /\ size' = length /\ UNCHANGED <<offset, fheld, fout>>
    BY <1>12 DEF Parse
  <2>2. length \in Nat
    BY <1>4
  <2>3. tries' \in 0..MaxTries
    BY <1>2, <1>12 DEF Parse
  <2>4. offset' \in Nat /\ size' \in Int /\ (pc' = "push" => size' \in Nat)
    BY <2>1, <2>2 DEF Plain
  <2>5. fheld' \in 0..FeedbackCap /\ fout' \in Seq(Int)
    <3>1. \A x \in Int : Append(fout, x) \in Seq(Int)
      BY DEF Plain
    <3>2. fheld < FeedbackCap => fheld + 1 \in 0..FeedbackCap
      BY <1>2 DEF Plain
    <3>3. QED
      BY <1>3, <2>1, <3>1, <3>2 DEF Plain
  <2>6. pc' \in {pc, "push"}
    BY <2>1
  <2>7. QED
    BY <1>1, <1>12, <2>3, <2>4, <2>5, <2>6 DEF Parse, Plain
<1>13. CASE Push
  <2>1. held' \in 0..Cap /\ offset' \in Nat /\ out' \in Seq(Int)
    <3>1. \A x \in Int : Append(out, x) \in Seq(Int)
      BY DEF Plain
    <3>2. QED
      BY <1>2, <1>3, <1>13, <3>1 DEF Push, Plain
  <2>2. QED
    BY <1>1, <1>13, <2>1 DEF Push, Plain
<1>14. CASE Retry
  <2>1. tries' \in 0..MaxTries
    BY <1>2, <1>14 DEF Retry, Plain
  <2>2. QED
    BY <1>1, <1>14, <2>1 DEF Retry, Close, Plain
<1>15. CASE ParseEnds
  <2>1. buf' \in Seq(Nat)
    <3>1. Left \in Int /\ Left <= Len(buf)
      BY <1>6 DEF Left, Plain
    <3>2. \A i \in 1..Left : buf[i] \in Nat
      BY <1>6, <3>1, ElementOfSeq DEF Plain
    <3>3. QED
      BY <1>15, <3>1, <3>2, SubSeqProperties DEF ParseEnds, Rest
  <2>2. QED
    BY <1>1, <1>15, <2>1 DEF ParseEnds, Plain
<1>16. CASE LearnSize
  <2>1. size' \in Int /\ unsure' \in BOOLEAN
    <3>1. Guessed.long \in Int
      BY SocketAssumption
    <3>2. QED
      BY <1>5, <1>16, <3>1 DEF LearnSize, Plain
  <2>2. QED
    BY <1>1, <1>16, <2>1 DEF LearnSize, Plain
<1>17. CASE Report
  <2>1. size' \in Int /\ unsure' \in BOOLEAN /\ state' \in BOOLEAN /\ pc' \in {"loop", "room"}
        /\ why' \in {why, "length"}
    <3>1. Guessed.short \in Int
      BY <1>2, SocketAssumption
    <3>2. QED
      BY <1>17, <3>1 DEF Report, Close, Plain
  <2>2. QED
    BY <1>1, <1>17, <2>1 DEF Report, Plain
<1>18. CASE MakeRoom
  BY <1>1, <1>18 DEF MakeRoom, Plain
<1>19. CASE Drop
  <2>1. held' \in 0..Cap
    BY <1>2, <1>19 DEF Drop, Plain
  <2>2. QED
    BY <1>1, <1>19, <2>1 DEF Drop, Plain
<1>20. CASE Put
  <2>1. held' \in 0..Cap /\ out' \in Seq(Int)
    <3>1. \A x \in Int : Append(out, x) \in Seq(Int)
      BY DEF Plain
    <3>2. CASE held < Cap
      <4>1. held' = held + 1 /\ out' = Append(out, FrameOf(SubSeq(buf, 1, size)))
        BY <1>20, <3>2 DEF Put
      <4>2. QED
        BY <1>2, <1>3, <3>1, <3>2, <4>1 DEF Plain
    <3>3. CASE ~(held < Cap)
      BY <1>20, <3>3 DEF Put, Plain
    <3>4. QED
      BY <3>2, <3>3
  <2>2. QED
    BY <1>1, <1>20, <2>1 DEF Put, Plain
<1>21. CASE Read
  <2>1. held' \in 0..Cap /\ fheld' \in 0..FeedbackCap
    BY <1>2, <1>21 DEF Read, Plain
  <2>2. QED
    BY <1>1, <1>21, <2>1 DEF Read, Plain
<1>22. CASE ClosePort
  BY <1>1, <1>22 DEF ClosePort, Plain
<1>23. CASE PeerCloses
  BY <1>1, <1>23 DEF PeerCloses, Plain
<1>24. CASE UNCHANGED vars
  BY <1>1, <1>24 DEF vars, Plain
<1>25. QED
  BY <1>7, <1>8, <1>9, <1>10, <1>11, <1>12, <1>13, <1>14, <1>15, <1>16, <1>17, <1>18, <1>19, <1>20,
     <1>21, <1>22, <1>23, <1>24 DEF Next, Thread

-----------------------------------------------------------------------------
(* A command port. *)

\* What it takes for the next frame to be handed out.
LEMMA UptoNext ==
  ASSUME stream \in Streams, NEW n \in Numbers, NEW seq \in Seq(Int), NEW type, Upto(seq, type, n)
  PROVE  /\ frames[n].type = type => Upto(Append(seq, n), type, n + 1)
         /\ frames[n].type # type => Upto(seq, type, n + 1)
<1>1. n \in Nat /\ n > 0
  BY StreamType DEF Numbers
<1>2. /\ \A i \in 1..Len(seq) : seq[i] \in 1..(n - 1) /\ frames[seq[i]].type = type
      /\ \A i, j \in 1..Len(seq) : i < j => seq[i] < seq[j]
      /\ \A f \in 1..(n - 1) : frames[f].type = type => \E i \in 1..Len(seq) : seq[i] = f
  BY DEF Upto
<1>3. 1..(n - 1) \subseteq 1..((n + 1) - 1) /\ n \in 1..((n + 1) - 1)
      /\ \A f \in 1..((n + 1) - 1) : f \in 1..(n - 1) \/ f = n
  BY <1>1
<1>4. ASSUME frames[n].type # type PROVE Upto(seq, type, n + 1)
  <2>1. \A i \in 1..Len(seq) : seq[i] \in 1..((n + 1) - 1) /\ frames[seq[i]].type = type
    BY <1>2, <1>3
  <2>2. \A f \in 1..((n + 1) - 1) : frames[f].type = type => \E i \in 1..Len(seq) : seq[i] = f
    BY <1>2, <1>3, <1>4
  <2>3. QED
    BY <1>2, <2>1, <2>2 DEF Upto
<1>5. ASSUME frames[n].type = type PROVE Upto(Append(seq, n), type, n + 1)
  <2> DEFINE new == Append(seq, n)
  <2>1. n \in Int
    BY <1>1
  <2>2. /\ new \in Seq(Int) /\ Len(new) = Len(seq) + 1 /\ new[Len(seq) + 1] = n
        /\ \A i \in 1..Len(seq) : new[i] = seq[i]
    BY <2>1, AppendProperties
  <2> HIDE DEF new
  <2>3. Len(seq) \in Nat
    BY LenProperties
  <2>4. \A i \in 1..Len(new) : i \in 1..Len(seq) \/ (i = Len(seq) + 1 /\ new[i] = n)
    BY <2>2, <2>3
  <2>5. \A i \in 1..Len(new) : new[i] \in 1..((n + 1) - 1) /\ frames[new[i]].type = type
    BY <1>2, <1>3, <1>5, <2>2, <2>4
  <2>6. ASSUME NEW i \in 1..Len(new), NEW j \in 1..Len(new), i < j PROVE new[i] < new[j]
    <3>1. i \in 1..Len(seq)
      BY <2>2, <2>3, <2>6
    <3>2. new[i] = seq[i] /\ seq[i] \in 1..(n - 1)
      BY <1>2, <2>2, <3>1
    <3>3. CASE j \in 1..Len(seq)
      BY <1>2, <2>2, <2>6, <3>1, <3>2, <3>3
    <3>4. CASE new[j] = n
      BY <1>1, <3>2, <3>4
    <3>5. QED
      BY <2>4, <3>3, <3>4
  <2>7. ASSUME NEW f \in 1..((n + 1) - 1), frames[f].type = type
        PROVE  \E i \in 1..Len(new) : new[i] = f
    <3>1. CASE f = n
      <4>1. Len(seq) + 1 \in 1..Len(new)
        BY <2>2, <2>3
      <4>2. QED
        BY <2>2, <3>1, <4>1
    <3>2. CASE f \in 1..(n - 1)
      <4>1. PICK i \in 1..Len(seq) : seq[i] = f
        BY <1>2, <2>7, <3>2
      <4>2. i \in 1..Len(new)
        BY <2>2, <2>3
      <4>3. QED
        BY <2>2, <4>1, <4>2
    <3>3. QED
      BY <1>3, <3>1, <3>2
  <2>8. Upto(new, type, n + 1)
    BY <2>5, <2>6, <2>7 DEF Upto
  <2>9. QED
    BY <2>8 DEF new
<1>6. QED
  BY <1>4, <1>5

\* Feedback that found no room counts as handed out.
LEMMA MagnitudeAppends ==
  ASSUME NEW seq \in Seq(Int), NEW n \in Nat, NEW x \in {n, -n}, n > 0
  PROVE  Magnitude(seq) \in Seq(Int) /\ Magnitude(Append(seq, x)) = Append(Magnitude(seq), n)
<1> DEFINE size1 == Len(seq)
           new == Append(seq, x)
           old == Magnitude(seq)
<1>1. x \in Int /\ size1 \in Nat
  BY LenProperties
<1>2. /\ new \in Seq(Int) /\ Len(new) = size1 + 1 /\ new[size1 + 1] = x
      /\ \A i \in 1..size1 : new[i] = seq[i]
  BY <1>1, AppendProperties
<1>3. \A i \in 1..size1 : seq[i] \in Int
  BY ElementOfSeq
<1>4. old \in Seq(Int) /\ Len(old) = size1
  <2>1. \A i \in 1..size1 : (IF seq[i] < 0 THEN -seq[i] ELSE seq[i]) \in Int
    BY <1>3
  <2>2. old = [i \in 1..size1 |-> IF seq[i] < 0 THEN -seq[i] ELSE seq[i]]
    BY DEF Magnitude
  <2>3. old \in [1..size1 -> Int]
    BY <2>1, <2>2
  <2>4. QED
    BY <1>1, <2>3
<1>5. \A i \in 1..size1 : old[i] = IF seq[i] < 0 THEN -seq[i] ELSE seq[i]
  BY DEF Magnitude
<1>6. /\ Append(old, n) \in Seq(Int) /\ Len(Append(old, n)) = size1 + 1 /\ Append(old, n)[size1 + 1] = n
      /\ \A i \in 1..size1 : Append(old, n)[i] = old[i]
  BY <1>4, AppendProperties
<1>7. Magnitude(new) = [i \in 1..(size1 + 1) |-> IF new[i] < 0 THEN -new[i] ELSE new[i]]
  BY <1>2 DEF Magnitude
<1>8. (IF x < 0 THEN -x ELSE x) = n
  OBVIOUS
<1> HIDE DEF new, old, size1
<1>9. \A i \in 1..(size1 + 1) : i \in 1..size1 \/ i = size1 + 1
  BY <1>1
<1>10. \A i \in 1..(size1 + 1) : Magnitude(new)[i] = Append(old, n)[i]
  <2>1. ASSUME NEW i \in 1..(size1 + 1) PROVE Magnitude(new)[i] = Append(old, n)[i]
    <3>1. Magnitude(new)[i] = IF new[i] < 0 THEN -new[i] ELSE new[i]
      BY <1>7
    <3>2. CASE i \in 1..size1
      <4>1. new[i] = seq[i] /\ old[i] = (IF seq[i] < 0 THEN -seq[i] ELSE seq[i])
            /\ Append(old, n)[i] = old[i]
        BY <1>2, <1>5, <1>6, <3>2
      <4>2. QED
        BY <3>1, <4>1, Zenon
    <3>3. CASE i = size1 + 1
      <4>1. new[i] = x /\ Append(old, n)[i] = n
        BY <1>2, <1>6, <3>3, Zenon
      <4>2. QED
        BY <1>8, <3>1, <4>1, Zenon
    <3>4. QED
      BY <1>9, <3>2, <3>3
  <2>2. QED
    BY <2>1
<1>11. Magnitude(new) \in Seq(Int) /\ Len(Magnitude(new)) = size1 + 1
  <2>1. \A i \in 1..(size1 + 1) : new[i] \in Int
    BY <1>1, <1>2, ElementOfSeq
  <2>2. \A i \in 1..(size1 + 1) : (IF new[i] < 0 THEN -new[i] ELSE new[i]) \in Int
    BY <2>1
  <2>3. Magnitude(new) \in [1..(size1 + 1) -> Int]
    BY <1>7, <2>2
  <2>4. QED
    BY <1>1, <2>3
<1>12. Magnitude(new) = Append(old, n)
  BY <1>6, <1>10, <1>11, SeqEqual
<1>13. QED
  BY <1>4, <1>12 DEF old, new

\* What was handed out stays in order.
LEMMA UptoStays ==
  ASSUME stream' = stream, NEW n, UNCHANGED <<out, fout>>,
         Upto(out, "answer", n), FeedbackCap > 0 => Upto(Magnitude(fout), "feedback", n)
  PROVE  Upto(out, "answer", n)' /\ (FeedbackCap > 0 => Upto(Magnitude(fout), "feedback", n)')
<1> DEFINE m == Magnitude(fout)
           o == out
<1>1. frames' = frames
  BY SameStream
<1>2. m' = m /\ o' = o
  BY DEF Magnitude
<1>3. Upto(o, "answer", n) /\ (FeedbackCap > 0 => Upto(m, "feedback", n))
  OBVIOUS
<1> HIDE DEF m, o
<1>4. \A type : /\ Upto(m, type, n) => Upto(m, type, n)'
                /\ Upto(o, type, n) => Upto(o, type, n)'
  BY <1>1, <1>2, Zenon DEF Upto
<1>5. Upto(o, "answer", n)' /\ (FeedbackCap > 0 => Upto(m, "feedback", n)')
  BY <1>3, <1>4
<1>6. QED
  BY <1>5 DEF m, o

\* Where a step leaves the buffer and what was handed out.
LEMMA CommandKept ==
  ASSUME Plain, ~onReport, CommandInv, stream' = stream,
         UNCHANGED <<at, buf, offset, size, out, fout, spoilt>>,
         state' => state,
         pc' \in {"loop", "recv", "parse", "push", "gone"},
         pc' \in {"parse", "push"} => pc' = pc,
         pc' = "recv" => pc = "recv" \/ (pc = "loop" /\ state),
         state' /\ pc' = "loop" => pc \in {"loop", "recv"},
         state' /\ pc' = "gone" => pc = "gone",
         why' # "length"
  PROVE  CommandInv'
<1>1. /\ frames' = frames /\ Numbers' = Numbers /\ Frames1' = Frames1
      /\ \A n : Begin(n)' = Begin(n) /\ End(n)' = End(n)
  BY SameStream
<1>2. ASSUME ~spoilt' PROVE Run' /\ \E n \in Frames1' : Reached(n)'
  <2>1. Run /\ \E n \in Frames1 : Reached(n)
    BY <1>2 DEF CommandInv
  <2>2. Run'
    BY <2>1 DEF Run
  <2>3. PICK n \in Frames1 : Reached(n)
    BY <2>1
  <2>4. Upto(out, "answer", n)' /\ (FeedbackCap > 0 => Upto(Magnitude(fout), "feedback", n)')
    BY <2>3, UptoStays DEF Reached
  <2>5. state' \/ pc' \in {"recv", "parse", "push"} =>
           Begin(n)' = at' - Len(buf') + (IF pc' \in {"parse", "push"} THEN offset' ELSE 0)
    <3>1. ASSUME state' \/ pc' \in {"recv", "parse", "push"}
          PROVE  /\ state \/ pc \in {"recv", "parse", "push"}
                 /\ pc' \in {"parse", "push"} <=> pc \in {"parse", "push"}
      BY <3>1 DEF CommandInv
    <3>2. QED
      BY <1>1, <2>3, <3>1 DEF Reached
  <2>6. pc' = "push" => n \in Numbers' /\ size' = frames'[n].len /\ frames'[n].type # "feedback"
    BY <1>1, <2>3 DEF Reached
  <2>7. state' /\ pc' \in {"loop", "recv"} /\ n \in Numbers' => at' < End(n)'
    BY <1>1, <2>3 DEF Reached
  <2>8. Reached(n)'
    BY <2>4, <2>5, <2>6, <2>7 DEF Reached
  <2>9. QED
    BY <1>1, <2>2, <2>8
<1>3. QED
  BY <1>2 DEF CommandInv

\* The header that the thread reads is that of the frame it has come to.
LEMMA CommandHeader ==
  ASSUME Plain, ~onReport, Run, Left >= HeaderLen, offset <= Len(buf),
         NEW n \in Frames1, Begin(n) = at - Len(buf) + offset
  PROVE  /\ n \in Numbers
         /\ Length(buf[offset + HeaderLen]) = {frames[n].len}
         /\ Feedback(buf[offset + HeaderLen]) = {frames[n].type = "feedback"}
         /\ frames[n].type \in {"answer", "feedback"}
<1>1. /\ stream \in Streams /\ HeaderLen \in Nat \ {0} /\ offset \in Nat /\ Len(buf) \in Nat
      /\ Left = Len(buf) - offset /\ Total \in Nat /\ at \in 0..Total
  BY Begins, LenProperties, SocketAssumption DEF Plain, Left
<1>2. Begin(n) < Total
  BY <1>1
<1>3. n \in Numbers
  BY <1>1, <1>2, Begins
<1>4. Begin(n) = frames[n].at /\ frames[n].at \in Nat
  BY <1>1, <1>3, Begins, StreamType
<1>5. offset + HeaderLen \in 1..Len(buf)
  BY <1>1
<1>6. buf[offset + HeaderLen] = at - Len(buf) + (offset + HeaderLen)
  BY <1>5 DEF Run
<1>7. buf[offset + HeaderLen] = frames[n].at + HeaderLen
  BY <1>1, <1>4, <1>6
<1>8. frames[n].says = frames[n].len /\ frames[n].type \in {"answer", "feedback"}
  <2>1. Commands(frames)
    BY <1>1, SocketAssumption DEF frames, onReport
  <2>2. QED
    BY <1>3, <2>1 DEF Commands, Numbers
<1>9. QED
  BY <1>1, <1>3, <1>7, <1>8, HeaderIs

LEMMA CommandRecv == ASSUME Plain, ~onReport, CommandInv, Recv PROVE CommandInv'
<1> USE DEF env, queueVars
<1>1. stream' = stream /\ stream \in Streams /\ Total \in Nat
  BY Begins DEF Recv, Plain
<1>2. /\ frames' = frames /\ Numbers' = Numbers /\ Frames1' = Frames1 /\ ~onReport'
      /\ \A n : Begin(n)' = Begin(n) /\ End(n)' = End(n)
  BY <1>1, SameStream
<1>3. PICK k \in 1..(Total - at) :
        /\ k <= BufSize - Len(buf) /\ at' = at + k
        /\ buf' = buf \o [i \in 1..k |-> at + i]
  BY DEF Recv, Room
<1>4. at \in Nat /\ k \in Nat /\ Len(buf) \in Nat /\ BufSize \in Nat /\ buf \in Seq(Nat)
  BY <1>1, <1>3, LenProperties, SocketAssumption DEF Plain
<1>5. buf' \in Seq(Nat) /\ Len(buf') = Len(buf) + k /\ (Run => Run')
  BY <1>3, <1>4, BufferGrows
<1>6. pc = "recv" /\ pc' = "parse" /\ offset' = 0 /\ size' = size /\ (spoilt' <=> spoilt) /\ why' = why
      /\ out' = out /\ fout' = fout
  <2>1. spoilt' <=> spoilt
    BY DEF Recv
  <2>2. QED
    BY <2>1 DEF Recv
<1>7. ASSUME ~spoilt' PROVE Run' /\ \E n \in Frames1' : Reached(n)'
  <2>1. Run /\ \E n \in Frames1 : Reached(n)
    BY <1>6, <1>7 DEF CommandInv
  <2>2. PICK n \in Frames1 : Reached(n)
    BY <2>1
  <2>3. Upto(out, "answer", n)' /\ (FeedbackCap > 0 => Upto(Magnitude(fout), "feedback", n)')
    BY <1>1, <1>6, <2>2, UptoStays DEF Reached
  <2>4. Begin(n) = at - Len(buf) + 0
    BY <1>6, <2>2 DEF Reached
  <2>5. Begin(n)' = at' - Len(buf') + 0
    BY <1>2, <1>3, <1>4, <1>5, <2>4
  <2>6. Reached(n)'
    BY <1>6, <2>3, <2>5 DEF Reached
  <2>7. QED
    BY <1>2, <1>5, <2>1, <2>6
<1>8. Len(buf') <= BufSize /\ 0 <= Len(buf')
  BY <1>3, <1>4, <1>5
<1>9. QED
  BY <1>4, <1>6, <1>7, <1>8 DEF CommandInv

LEMMA CommandParse == ASSUME Plain, ~onReport, CommandInv, Parse PROVE CommandInv'
<1> USE DEF env, recvVars
<1>1. stream' = stream /\ stream \in Streams
  BY DEF Parse, Plain
<1>2. /\ frames' = frames /\ Numbers' = Numbers /\ Frames1' = Frames1
      /\ \A n : Begin(n)' = Begin(n) /\ End(n)' = End(n)
  BY <1>1, SameStream
<1>3. PICK length \in Length(buf[offset + HeaderLen]), feedback \in Feedback(buf[offset + HeaderLen]) :
        /\ Left >= length
        /\ LET bytes == SubSeq(buf, offset + 1, offset + length) IN
            IF feedback
            THEN /\ offset' = offset + length
                 /\ IF FeedbackCap = 0 THEN UNCHANGED <<fheld, fout>>
                    ELSE IF fheld < FeedbackCap
                    THEN fheld' = fheld + 1 /\ fout' = Append(fout, FrameOf(bytes))
                    ELSE UNCHANGED fheld /\ fout' = Append(fout, -FrameOf(bytes))
                 /\ UNCHANGED <<pc, size>>
            ELSE pc' = "push" /\ size' = length /\ UNCHANGED <<offset, fheld, fout>>
  BY DEF Parse
<1>4. length \in Nat /\ length > 0
  <2>1. \A f \in Numbers : frames[f].says \in (HeaderLen + 1)..BufSize
    BY <1>1, StreamType
  <2>2. BufSize \in Nat /\ HeaderLen \in Nat
    BY SocketAssumption
  <2>3. \A f \in Numbers : frames[f].says \in Nat /\ frames[f].says > 0
    BY <2>1, <2>2
  <2>4. QED
    BY <2>2, <2>3 DEF Length, HeaderAt
<1>5. /\ offset \in Nat /\ Len(buf) \in Nat /\ BufSize \in Nat /\ Left = Len(buf) - offset
      /\ buf \in Seq(Nat) /\ at \in Nat /\ fout \in Seq(Int)
  BY <1>1, LenProperties, SocketAssumption, Begins DEF Left, Plain
<1>6. /\ pc = "parse" /\ state /\ state' = state /\ Left >= HeaderLen /\ buf' = buf /\ at' = at
      /\ spoilt' = spoilt /\ why' = why /\ out' = out
  BY DEF Parse, GoOn
<1>7. /\ Len(buf) <= BufSize /\ offset <= BufSize /\ size \in 0..BufSize /\ offset <= Len(buf)
      /\ (FeedbackCap = 0 => fout = <<>>) /\ why # "length"
  BY <1>6 DEF CommandInv
<1>8. offset + length <= Len(buf) /\ offset + length <= BufSize /\ length \in 0..BufSize
  BY <1>3, <1>4, <1>5, <1>7
<1>9. ASSUME ~spoilt PROVE Run' /\ \E n \in Frames1' : Reached(n)'
  <2>1. Run /\ \E n \in Frames1 : Reached(n)
    BY <1>9 DEF CommandInv
  <2>2. PICK n \in Frames1 : Reached(n)
    BY <2>1
  <2>3. Begin(n) = at - Len(buf) + offset
    BY <1>6, <2>2 DEF Reached
  <2>4. /\ n \in Numbers /\ length = frames[n].len
        /\ feedback = (frames[n].type = "feedback")
        /\ frames[n].type \in {"answer", "feedback"}
    BY <1>3, <1>6, <1>7, <2>1, <2>3, CommandHeader
  <2>5. FrameOf(SubSeq(buf, offset + 1, offset + length)) = n
    BY <1>1, <1>5, <1>8, <2>1, <2>3, <2>4, FrameInBuffer
  <2>6. Run'
    BY <1>6, <2>1 DEF Run
  <2>7. n \in Nat /\ n > 0 /\ n + 1 \in Frames1 /\ Begin(n + 1) = Begin(n) + length
    <3>1. n \in Nat /\ n > 0
      BY <1>1, <2>4, StreamType DEF Numbers
    <3>2. n + 1 \in Frames1 /\ Begin(n + 1) = End(n) /\ Begin(n) = frames[n].at
      BY <1>1, <2>4, Begins
    <3>3. QED
      BY <2>4, <3>1, <3>2 DEF End
  <2>8. Upto(out, "answer", n) /\ (FeedbackCap > 0 => Upto(Magnitude(fout), "feedback", n))
    BY <2>2 DEF Reached
  <2>9. CASE frames[n].type # "feedback"
    <3>1. ~feedback
      BY <2>4, <2>9
    <3>2. pc' = "push" /\ size' = length /\ offset' = offset /\ fout' = fout
      BY <1>3, <3>1
    <3>3. Upto(out, "answer", n)' /\ (FeedbackCap > 0 => Upto(Magnitude(fout), "feedback", n)')
      BY <1>1, <1>6, <2>8, <3>2, UptoStays
    <3>4. Begin(n)' = at' - Len(buf') + offset'
      BY <1>2, <1>6, <2>3, <3>2
    <3>5. Reached(n)'
      BY <1>2, <2>4, <2>9, <3>2, <3>3, <3>4 DEF Reached
    <3>6. QED
      BY <1>2, <2>6, <3>5
  <2>10. CASE frames[n].type = "feedback"
    <3>1. feedback
      BY <2>4, <2>10
    <3>2. pc' = pc /\ size' = size /\ offset' = offset + length
      BY <1>3, <3>1
    <3>3. Upto(out, "answer", n + 1)
      <4>1. out \in Seq(Int) /\ frames[n].type # "answer"
        BY <2>10 DEF Plain
      <4>2. QED
        BY <1>1, <2>4, <2>8, <4>1, UptoNext
    <3>4. ASSUME FeedbackCap > 0 PROVE Upto(Magnitude(fout'), "feedback", n + 1)
      <4>1. PICK x \in {n, -n} : fout' = Append(fout, x)
        <5>1. FeedbackCap # 0
          BY <3>4
        <5>2. QED
          BY <1>3, <2>5, <3>1, <5>1
      <4>2. Magnitude(fout) \in Seq(Int) /\ Magnitude(fout') = Append(Magnitude(fout), n)
        BY <1>5, <2>7, <4>1, MagnitudeAppends
      <4>3. QED
        BY <1>1, <2>4, <2>8, <2>10, <3>4, <4>2, UptoNext
    <3>5. Upto(out, "answer", n + 1)' /\ (FeedbackCap > 0 => Upto(Magnitude(fout), "feedback", n + 1)')
      BY <1>2, <1>6, <3>3, <3>4 DEF Upto, Magnitude
    <3>6. Begin(n + 1)' = at' - Len(buf') + offset'
      <4>1. Begin(n + 1)' = Begin(n + 1)
        BY <1>2
      <4>2. QED
        BY <1>4, <1>5, <1>6, <2>3, <2>7, <3>2, <4>1
    <3>7. Reached(n + 1)'
      BY <1>6, <3>2, <3>5, <3>6 DEF Reached
    <3>8. QED
      BY <1>2, <2>6, <2>7, <3>7
  <2>11. QED
    BY <2>9, <2>10
<1>10. CASE feedback
  <2>1. /\ pc' = "parse" /\ size' = size /\ offset' = offset + length
        /\ (FeedbackCap = 0 => fout' = fout)
    BY <1>3, <1>6, <1>10
  <2>2. QED
    BY <1>6, <1>7, <1>8, <1>9, <2>1 DEF CommandInv
<1>11. CASE ~feedback
  <2>1. pc' = "push" /\ size' = length /\ offset' = offset /\ fout' = fout
    BY <1>3, <1>11
  <2>2. QED
    BY <1>4, <1>6, <1>7, <1>8, <1>9, <2>1 DEF CommandInv
<1>12. QED
  BY <1>10, <1>11

LEMMA CommandPush == ASSUME Plain, ~onReport, CommandInv, Push PROVE CommandInv'
<1> USE DEF env, recvVars
<1>1. stream' = stream /\ stream \in Streams
  BY DEF Push, Plain
<1>2. /\ frames' = frames /\ Numbers' = Numbers /\ Frames1' = Frames1
      /\ \A n : Begin(n)' = Begin(n) /\ End(n)' = End(n)
  BY <1>1, SameStream
<1>3. /\ offset \in Nat /\ Len(buf) \in Nat /\ BufSize \in Nat /\ size \in Nat
      /\ buf \in Seq(Nat) /\ at \in Nat /\ out \in Seq(Int) /\ fout \in Seq(Int)
  <2>1. pc = "push"
    BY DEF Push
  <2>2. QED
    BY <1>1, <2>1, LenProperties, SocketAssumption, Begins DEF Plain
<1>4. /\ pc = "push" /\ pc' = "parse" /\ size' = size /\ offset' = offset + size
      /\ state' = state /\ buf' = buf /\ at' = at /\ spoilt' = spoilt /\ why' = why /\ fout' = fout
      /\ out' = Append(out, FrameOf(SubSeq(buf, offset + 1, offset + size)))
  BY DEF Push
<1>5. /\ Len(buf) <= BufSize /\ size \in 0..BufSize /\ offset + size <= Len(buf)
      /\ (FeedbackCap = 0 => fout = <<>>) /\ why # "length"
  BY <1>4 DEF CommandInv
<1>6. offset' <= BufSize /\ offset' <= Len(buf)
  BY <1>3, <1>4, <1>5
<1>7. ASSUME ~spoilt PROVE Run' /\ \E n \in Frames1' : Reached(n)'
  <2>1. Run /\ \E n \in Frames1 : Reached(n)
    BY <1>7 DEF CommandInv
  <2>2. PICK n \in Frames1 : Reached(n)
    BY <2>1
  <2>3. /\ Begin(n) = at - Len(buf) + offset
        /\ n \in Numbers /\ size = frames[n].len /\ frames[n].type # "feedback"
    BY <1>4, <2>2 DEF Reached
  <2>4. FrameOf(SubSeq(buf, offset + 1, offset + size)) = n
    BY <1>1, <1>3, <1>5, <2>1, <2>3, FrameInBuffer
  <2>5. frames[n].type = "answer"
    <3>1. Commands(frames)
      BY <1>1, SocketAssumption DEF frames, onReport
    <3>2. QED
      BY <2>3, <3>1 DEF Commands, Numbers
  <2>6. n \in Nat /\ n > 0 /\ n + 1 \in Frames1 /\ Begin(n + 1) = Begin(n) + size
    <3>1. n \in Nat /\ n > 0
      BY <1>1, <2>3, StreamType DEF Numbers
    <3>2. n + 1 \in Frames1 /\ Begin(n + 1) = End(n) /\ Begin(n) = frames[n].at
      BY <1>1, <2>3, Begins
    <3>3. QED
      BY <2>3, <3>1, <3>2 DEF End
  <2>7. Upto(out, "answer", n) /\ (FeedbackCap > 0 => Upto(Magnitude(fout), "feedback", n))
    BY <2>2 DEF Reached
  <2>8. Upto(out', "answer", n + 1)
    BY <1>1, <1>3, <1>4, <2>3, <2>4, <2>5, <2>7, UptoNext
  <2>9. FeedbackCap > 0 => Upto(Magnitude(fout'), "feedback", n + 1)
    <3>1. Magnitude(fout) \in Seq(Int)
      BY <1>3, <2>6, MagnitudeAppends
    <3>2. QED
      BY <1>1, <1>4, <2>3, <2>7, <3>1, UptoNext
  <2>10. Upto(out, "answer", n + 1)' /\ (FeedbackCap > 0 => Upto(Magnitude(fout), "feedback", n + 1)')
    BY <1>2, <2>8, <2>9 DEF Upto, Magnitude
  <2>11. Begin(n + 1)' = at' - Len(buf') + offset'
    <3>1. Begin(n + 1)' = Begin(n + 1)
      BY <1>2
    <3>2. QED
      BY <1>3, <1>4, <2>3, <2>6, <3>1
  <2>12. Reached(n + 1)'
    BY <1>4, <2>10, <2>11 DEF Reached
  <2>13. Run'
    BY <1>4, <2>1 DEF Run
  <2>14. QED
    BY <1>2, <2>6, <2>12, <2>13
<1>8. QED
  BY <1>4, <1>5, <1>6, <1>7 DEF CommandInv

\* What is left after the last whole frame is kept as it is when there was none, and when
\* nothing is left.
LEMMA CommandParseEnds == ASSUME Plain, ~onReport, CommandInv, ParseEnds PROVE CommandInv'
<1>1. stream' = stream /\ stream \in Streams
  BY DEF ParseEnds, Plain, env
<1>2. /\ frames' = frames /\ Numbers' = Numbers /\ Frames1' = Frames1
      /\ \A n : Begin(n)' = Begin(n) /\ End(n)' = End(n)
  BY <1>1, SameStream
<1>3. /\ offset \in Nat /\ Len(buf) \in Nat /\ BufSize \in Nat /\ HeaderLen \in Nat
      /\ buf \in Seq(Nat) /\ at \in Nat /\ Left = Len(buf) - offset
  BY <1>1, LenProperties, SocketAssumption, Begins DEF Plain, Left
<1>4. /\ pc = "parse" /\ pc' = "loop" /\ UNCHANGED <<size, offset, state, at, why, fout, out>>
      /\ buf' = SubSeq(buf, 1, Left)
      /\ ~state \/ ~(Left >= HeaderLen)
         \/ (Left >= HeaderLen /\ \E length \in Length(buf[offset + HeaderLen]) : Left < length)
  BY DEF ParseEnds, queueVars, GoOn, Rest
<1>5. spoilt' <=> spoilt \/ (offset > 0 /\ Left > 0)
  BY DEF ParseEnds
<1>6. /\ Len(buf) <= BufSize /\ offset <= BufSize /\ size \in 0..BufSize /\ offset <= Len(buf)
      /\ (FeedbackCap = 0 => fout = <<>>) /\ why # "length"
  BY <1>4 DEF CommandInv
<1>7. Left \in Nat /\ Left <= Len(buf)
  BY <1>3, <1>6
<1>8. buf' \in Seq(Nat) /\ Len(buf') = Left /\ \A i \in 1..Left : buf'[i] = buf[i]
  BY <1>3, <1>4, <1>7
<1>9. ASSUME ~spoilt' PROVE Run' /\ \E n \in Frames1' : Reached(n)'
  <2>1. Run /\ \E n \in Frames1 : Reached(n)
    BY <1>5, <1>9 DEF CommandInv
  <2>2. PICK n \in Frames1 : Reached(n)
    BY <2>1
  <2>3. Begin(n) = at - Len(buf) + offset
    BY <1>4, <2>2 DEF Reached
  <2>4. offset = 0 \/ Left = 0
    BY <1>3, <1>5, <1>7, <1>9
  <2>5. at - Len(buf) + offset = at - Left
    BY <1>3
  <2>6. Run'
    <3>1. CASE offset = 0
      <4>1. Left = Len(buf)
        BY <1>3, <3>1
      <4>2. QED
        BY <1>4, <1>8, <2>1, <4>1 DEF Run
    <3>2. CASE Left = 0
      <4>1. Len(buf') = 0 /\ at' \in Nat
        BY <1>3, <1>4, <1>8, <3>2
      <4>2. Len(buf') <= at' /\ \A i \in 1..Len(buf') : FALSE
        BY <4>1
      <4>3. QED
        BY <4>2 DEF Run
    <3>3. QED
      BY <2>4, <3>1, <3>2
  <2>7. Upto(out, "answer", n)' /\ (FeedbackCap > 0 => Upto(Magnitude(fout), "feedback", n)')
    BY <1>1, <1>4, <2>2, UptoStays DEF Reached
  <2>8. Begin(n)' = at' - Len(buf') + 0
    BY <1>2, <1>3, <1>4, <1>8, <2>3, <2>5
  <2>9. ASSUME state, n \in Numbers PROVE at < End(n)
    <3>1. /\ Begin(n) = frames[n].at /\ End(n) = frames[n].at + frames[n].len
          /\ frames[n].at \in Nat /\ frames[n].len \in Nat /\ frames[n].len > HeaderLen
      <4>1. frames[n].len \in (HeaderLen + 1)..BufSize /\ frames[n].len \in Nat
        BY <1>1, <2>9, StreamType
      <4>2. frames[n].len > HeaderLen
        BY <1>3, <4>1
      <4>3. QED
        BY <1>1, <2>9, <4>1, <4>2, Begins, StreamType
    <3>2. Left < frames[n].len
      <4>1. CASE ~(Left >= HeaderLen)
        BY <1>3, <1>7, <3>1, <4>1
      <4>2. CASE Left >= HeaderLen
        <5>1. Length(buf[offset + HeaderLen]) = {frames[n].len}
          BY <1>6, <2>1, <2>3, <4>2, CommandHeader
        <5>2. QED
          BY <1>4, <2>9, <4>2, <5>1
      <4>3. QED
        BY <4>1, <4>2
    <3>3. QED
      BY <1>3, <1>7, <2>3, <2>5, <3>1, <3>2
  <2>10. Reached(n)'
    BY <1>2, <1>4, <2>7, <2>8, <2>9 DEF Reached
  <2>11. QED
    BY <1>2, <2>6, <2>10
<1>10. Len(buf') <= BufSize
  BY <1>3, <1>6, <1>7, <1>8
<1>11. QED
  BY <1>4, <1>6, <1>9, <1>10 DEF CommandInv

\* The invariant of a command port.
LEMMA CommandNext == ASSUME Plain, ~onReport, CommandInv, [Next]_vars PROVE CommandInv'
<1> USE DEF env, recvVars, queueVars
<1>0. /\ stream' = stream /\ state \in BOOLEAN
      /\ pc \in {"loop", "recv", "parse", "push", "gone"} /\ why # "length"
  BY Still DEF Plain, CommandInv
<1>1. CASE Loop
  BY <1>0, <1>1, CommandKept DEF Loop
<1>2. CASE Recv
  BY <1>2, CommandRecv
<1>3. CASE RecvNothing
  BY <1>0, <1>3, CommandKept DEF RecvNothing, Close
<1>4. CASE Interrupted
  BY <1>0, <1>4, CommandKept DEF Interrupted
<1>5. CASE RecvFails
  BY <1>0, <1>5, CommandKept DEF RecvFails, Close
<1>6. CASE Parse
  BY <1>6, CommandParse
<1>7. CASE Push
  BY <1>7, CommandPush
<1>8. CASE Retry
  BY <1>0, <1>8, CommandKept DEF Retry, Close
<1>9. CASE ParseEnds
  BY <1>9, CommandParseEnds
<1>10. CASE LearnSize \/ Report \/ MakeRoom \/ Drop \/ Put
  BY <1>0, <1>10 DEF LearnSize, Report, MakeRoom, Drop, Put
<1>11. CASE Read
  BY <1>0, <1>11, CommandKept DEF Read
<1>12. CASE ClosePort
  BY <1>0, <1>12, CommandKept DEF ClosePort
<1>13. CASE PeerCloses
  BY <1>0, <1>13, CommandKept DEF PeerCloses
<1>14. CASE UNCHANGED vars
  BY <1>0, <1>14, CommandKept DEF vars
<1>15. QED
  BY <1>1, <1>2, <1>3, <1>4, <1>5, <1>6, <1>7, <1>8, <1>9, <1>10, <1>11, <1>12, <1>13, <1>14
  DEF Next, Thread

-----------------------------------------------------------------------------
(* A report port. *)

\* Reports have one length, and give themselves for that or for the ambiguous one.
LEMMA ReportStream ==
  ASSUME stream \in Streams, onReport
  PROVE  /\ \A n \in Numbers : frames[n].len = frames[1].len
         /\ frames[1].len \in Nat /\ frames[1].len > HeaderLen /\ frames[1].len <= BufSize
         /\ frames[1].says \in Nat /\ frames[1].says > HeaderLen /\ frames[1].says <= BufSize
         /\ frames[1].says = frames[1].len \/ (short /\ frames[1].len = Guessed.long)
         /\ Guessed.short \in Nat /\ Guessed.short > HeaderLen
         /\ Guessed.long \in Nat /\ Guessed.short < Guessed.long /\ Guessed.long <= BufSize
         /\ HeaderLen \in Nat /\ HeaderLen > 0 /\ BufSize \in Nat
         /\ \A n \in Numbers : Begin(n + 1) = Begin(n) + frames[1].len
<1>1. Uniform(frames)
  BY SocketAssumption DEF frames, onReport
<1>2. HeaderLen \in Nat /\ HeaderLen > 0 /\ BufSize \in Nat
  BY SocketAssumption
<1>3. /\ Guessed.short \in Nat /\ Guessed.short > HeaderLen
      /\ Guessed.long \in Nat /\ Guessed.short < Guessed.long /\ Guessed.long <= BufSize
  BY <1>2, SocketAssumption
<1>4. 1 \in Numbers
  BY StreamType
<1>5. /\ frames[1].len \in Nat /\ frames[1].len > HeaderLen /\ frames[1].len <= BufSize
      /\ frames[1].says \in Nat /\ frames[1].says > HeaderLen /\ frames[1].says <= BufSize
  <2>1. frames[1].len \in (HeaderLen + 1)..BufSize /\ frames[1].says \in (HeaderLen + 1)..BufSize
    BY <1>4, StreamType
  <2>2. QED
    BY <1>2, <2>1
<1>6. \A n \in Numbers : frames[n].len = frames[1].len
  BY <1>1 DEF Uniform, Numbers
<1>7. \A n \in Numbers : Begin(n + 1) = Begin(n) + frames[1].len
  BY <1>6, Begins DEF End
<1>8. QED
  BY <1>1, <1>2, <1>3, <1>5, <1>6, <1>7 DEF Uniform, short

\* One more report comes out.
LEMMA InStepAppends ==
  ASSUME NEW seq \in Seq(Int), NEW n \in Nat, n > 0, InStep(seq), Follows(seq, n)
  PROVE  /\ InStep(Append(seq, n)) /\ Len(Append(seq, n)) = Len(seq) + 1
         /\ Append(seq, n)[Len(Append(seq, n))] = n
<1> DEFINE new == Append(seq, n)
<1>1. n \in Int /\ Len(seq) \in Nat
  BY LenProperties
<1>2. /\ new \in Seq(Int) /\ Len(new) = Len(seq) + 1 /\ new[Len(seq) + 1] = n
      /\ \A i \in 1..Len(seq) : new[i] = seq[i]
  BY <1>1, AppendProperties
<1> HIDE DEF new
<1>3. \A i \in 1..Len(new) : i \in 1..Len(seq) \/ i = Len(seq) + 1
  BY <1>1, <1>2
<1>4. ASSUME NEW i \in 1..Len(new)
      PROVE  /\ new[i] > 0 /\ (i = 1 => new[i] = 1)
             /\ i > 1 => IF short /\ i = 2 THEN new[i] > 2 ELSE new[i] = new[i - 1] + 1
  <2>1. CASE i \in 1..Len(seq)
    <3>1. i > 1 => i - 1 \in 1..Len(seq)
      BY <1>1, <2>1
    <3>2. QED
      BY <1>2, <2>1, <3>1 DEF InStep
  <2>2. CASE i = Len(seq) + 1
    <3>1. new[i] = n
      BY <1>2, <2>2, Zenon
    <3>2. CASE Len(seq) = 0
      BY <2>2, <3>1, <3>2 DEF Follows
    <3>3. CASE Len(seq) # 0
      <4>1. Len(seq) \in 1..Len(seq) /\ i - 1 = Len(seq) /\ i > 1 /\ (i = 2 => Len(seq) = 1)
            /\ (Len(seq) = 1 => i = 2)
        <5> DEFINE l == Len(seq)
        <5>1. l \in Nat /\ l # 0 /\ i = l + 1
          BY <1>1, <2>2, <3>3
        <5> HIDE DEF l
        <5>2. l \in 1..l /\ i - 1 = l /\ i > 1 /\ (i = 2 => l = 1) /\ (l = 1 => i = 2)
          BY <5>1
        <5>3. QED
          BY <5>2 DEF l
      <4>2. new[i - 1] = seq[Len(seq)]
        BY <1>2, <4>1
      <4>3. QED
        BY <3>1, <3>3, <4>1, <4>2 DEF Follows
    <3>4. QED
      BY <3>2, <3>3
  <2>3. QED
    BY <1>3, <2>1, <2>2
<1>5. InStep(new)
  BY <1>4 DEF InStep
<1>6. new[Len(new)] = n
  BY <1>2
<1>7. QED
  BY <1>2, <1>5, <1>6 DEF new

\* Where a step leaves the buffer and the reports that were handed out.
LEMMA ReportKept ==
  ASSUME Plain, onReport, ReportInv, stream' = stream,
         UNCHANGED <<at, buf, offset, size, unsure, out>>, spoilt' <=> spoilt,
         state' => state,
         pc' \in {"loop", "recv", "report", "room", "drop", "put", "gone"},
         pc' = "report" <=> pc = "report",
         pc' \in Handing <=> pc \in Handing,
         pc \in {"loop", "gone"} /\ ~state => pc' \in {"loop", "gone"},
         pc' = "put" => held' < Cap,
         why' = "length" => why = "length"
  PROVE  ReportInv'
<1>1. /\ frames' = frames /\ Numbers' = Numbers /\ Frames1' = Frames1 /\ (short' <=> short)
      /\ \A n : Begin(n)' = Begin(n) /\ End(n)' = End(n)
  BY SameStream
<1>2. Run' /\ InStep(out)'
  <2>1. Run /\ InStep(out)
    BY DEF ReportInv
  <2>2. Run'
    BY <2>1 DEF Run
  <2>3. InStep(out)'
    BY <1>1, <2>1 DEF InStep
  <2>4. QED
    BY <2>2, <2>3
<1>3. ASSUME First, Learning PROVE (First /\ Learning)'
  BY <1>3 DEF First, Learning
<1>4. ASSUME First, Guessing PROVE (First /\ Guessing)'
  BY <1>1, <1>4 DEF First, Guessing
<1>5. ASSUME First, Corrected PROVE (First /\ Corrected)'
  <2>1. AtFrameEnd(at)' <=> AtFrameEnd(at)
    BY <1>1 DEF AtFrameEnd
  <2>2. QED
    BY <1>1, <1>5, <2>1 DEF First, Corrected
<1>6. ASSUME First, GivenUp PROVE (First /\ GivenUp)'
  BY <1>1, <1>6 DEF First, GivenUp
<1>7. ASSUME NEW n \in Frames1, Aligned(n) PROVE n \in Frames1' /\ Aligned(n)'
  BY <1>1, <1>7 DEF Aligned, Follows
<1>8. ASSUME Astray PROVE Astray'
  BY <1>1, <1>8 DEF Astray
<1>9. \/ (First /\ (Learning \/ Guessing \/ Corrected \/ GivenUp))'
      \/ \E n \in Frames1' : Aligned(n)'
      \/ Astray'
  BY <1>3, <1>4, <1>5, <1>6, <1>7, <1>8 DEF ReportInv
<1>10. QED
  BY <1>1, <1>2, <1>9 DEF ReportInv

LEMMA ReportRecv == ASSUME Plain, onReport, ReportInv, Recv PROVE ReportInv'
<1> USE DEF env, queueVars
<1>1. stream' = stream /\ stream \in Streams /\ Total \in Nat
  BY Begins DEF Recv, Plain
<1>2. /\ frames' = frames /\ Numbers' = Numbers /\ Frames1' = Frames1 /\ (short' <=> short)
      /\ \A n : Begin(n)' = Begin(n) /\ End(n)' = End(n)
  BY <1>1, SameStream
<1>3. PICK k \in 1..(Total - at) :
        /\ k <= Room /\ at' = at + k
        /\ buf' = buf \o [i \in 1..k |-> at + i]
        /\ spoilt' = (spoilt \/ (onReport /\ size # 0 /\ Len(buf) > size /\ ~AtFrameEnd(at + k)))
  BY DEF Recv
<1>4. at \in Nat /\ k \in Nat /\ k > 0 /\ Len(buf) \in Nat /\ buf \in Seq(Nat) /\ size \in Int
  BY <1>1, <1>3, LenProperties DEF Plain
<1>5. buf' \in Seq(Nat) /\ Len(buf') = Len(buf) + k /\ (Run => Run')
  BY <1>3, <1>4, BufferGrows
<1>6. /\ pc = "recv" /\ pc' = "report" /\ offset' = 0 /\ size' = size /\ unsure' = unsure /\ out' = out
      /\ why' = why /\ state' = state
  BY DEF Recv
<1>7. Room = LET wanted == (IF size = 0 THEN HeaderLen ELSE size) - Len(buf)
             IN  IF wanted < 0 THEN Total ELSE wanted
  BY DEF Room
<1>8. Run' /\ InStep(out)' /\ (why' = "length" => spoilt' \/ frames'[1].says # frames'[1].len)
  <2>1. Run' /\ InStep(out) /\ (why = "length" => spoilt \/ frames[1].says # frames[1].len)
    BY <1>5 DEF ReportInv
  <2>2. InStep(out)'
    BY <1>2, <1>6, <2>1 DEF InStep
  <2>3. QED
    BY <1>2, <1>3, <1>6, <2>1, <2>2
<1>9. /\ HeaderLen \in Nat /\ HeaderLen > 0 /\ Guessed.short \in Nat /\ Guessed.long \in Nat
      /\ Guessed.short > 0 /\ Guessed.long > 0 /\ frames[1].len \in Nat /\ frames[1].len > 0
  BY <1>1, ReportStream
<1>10. ASSUME size \in Nat, size > 0, Len(buf) <= size
       PROVE  Len(buf') <= size /\ (spoilt' <=> spoilt)
  <2>1. k <= size - Len(buf)
    BY <1>3, <1>4, <1>7, <1>10
  <2>2. ~(Len(buf) > size)
    BY <1>4, <1>10
  <2>3. spoilt' <=> spoilt
    BY <1>3, <2>2
  <2>4. QED
    BY <1>4, <1>5, <2>1, <2>3
<1>11. ASSUME First PROVE First'
  BY <1>3, <1>4, <1>5, <1>6, <1>11 DEF First
<1>12. ASSUME Learning PROVE Learning'
  <2>1. size = 0 /\ ~spoilt /\ Len(buf) < HeaderLen /\ ~unsure
    BY <1>6, <1>12 DEF Learning
  <2>2. k <= HeaderLen - Len(buf)
    BY <1>3, <1>4, <1>7, <1>9, <2>1
  <2>3. Len(buf') <= HeaderLen
    BY <1>4, <1>5, <1>9, <2>2
  <2>4. ~spoilt'
    BY <1>3, <2>1
  <2>5. QED
    BY <1>6, <2>1, <2>3, <2>4 DEF Learning, Handing
<1>13. ASSUME Guessing PROVE Guessing'
  <2>1. short /\ ~spoilt /\ unsure /\ size = Guessed.long /\ Len(buf) <= size
    BY <1>13 DEF Guessing
  <2>2. Len(buf') <= size /\ ~spoilt'
    BY <1>9, <1>10, <2>1
  <2>3. QED
    BY <1>2, <1>6, <2>1, <2>2 DEF Guessing, Handing
<1>14. ASSUME First, Corrected PROVE Corrected'
  <2>1. /\ short /\ frames[1].len = Guessed.short /\ ~unsure /\ size = Guessed.short
        /\ Len(buf) > size /\ ~spoilt
    BY <1>6, <1>14 DEF Corrected, Handing
  <2>2. size # 0
    BY <1>9, <2>1
  <2>3. spoilt' <=> ~AtFrameEnd(at')
    BY <1>3, <2>1, <2>2
  <2>4. AtFrameEnd(at)' <=> AtFrameEnd(at')
    BY <1>2 DEF AtFrameEnd
  <2>5. Len(buf') > size
    BY <1>4, <1>5, <2>1
  <2>6. QED
    BY <1>2, <1>6, <2>1, <2>3, <2>4, <2>5 DEF Corrected, Handing
<1>15. ASSUME GivenUp PROVE FALSE
  BY <1>6, <1>15 DEF GivenUp
<1>16. ASSUME NEW n \in Frames1, Aligned(n) PROVE n \in Frames1' /\ Aligned(n)'
  <2>1. /\ ~spoilt /\ ~unsure /\ size = frames[1].len /\ frames[1].says = frames[1].len
        /\ Begin(n) = at - Len(buf) /\ Len(buf) <= size
        /\ Follows(out, n) /\ (short => Len(out) > 0)
    BY <1>16 DEF Aligned
  <2>2. Len(buf') <= size /\ ~spoilt'
    BY <1>9, <1>10, <2>1
  <2>3. Begin(n)' = at' - Len(buf')
    <3>1. Begin(n)' = Begin(n)
      BY <1>2
    <3>2. QED
      BY <1>3, <1>4, <1>5, <2>1, <3>1
  <2>4. QED
    BY <1>2, <1>6, <2>1, <2>2, <2>3 DEF Aligned, Follows, Handing
<1>17. ASSUME Astray PROVE Astray'
  <2>1. /\ short /\ frames[1].len = Guessed.short /\ ~unsure /\ size = Guessed.short
        /\ spoilt /\ Len(buf) <= size /\ \A n \in Frames1 : Begin(n) # at - Len(buf)
    BY <1>17 DEF Astray
  <2>2. Len(buf') <= size /\ spoilt'
    BY <1>9, <1>10, <2>1
  <2>3. at' - Len(buf') = at - Len(buf)
    BY <1>3, <1>4, <1>5
  <2>4. \A n \in Frames1' : Begin(n)' # at' - Len(buf')
    BY <1>2, <2>1, <2>3
  <2>5. QED
    BY <1>2, <1>6, <2>1, <2>2, <2>4 DEF Astray, Handing
<1>18. \/ (First /\ (Learning \/ Guessing \/ Corrected \/ GivenUp))'
       \/ \E n \in Frames1' : Aligned(n)'
       \/ Astray'
  BY <1>11, <1>12, <1>13, <1>14, <1>15, <1>16, <1>17 DEF ReportInv
<1>19. QED
  BY <1>6, <1>8, <1>18 DEF ReportInv

\* The first bytes of the first report.
LEMMA FirstBegins ==
  ASSUME Plain, Run, First, Len(buf) > 0
  PROVE  Says(buf[1]) = frames[1].says
<1>1. stream \in Streams /\ at \in Nat /\ Len(buf) \in Nat
  BY Begins, LenProperties DEF Plain
<1>2. 1 \in 1..Len(buf)
  BY <1>1
<1>3. buf[1] = Begin(1) + 1
  <2>1. buf[1] = at - Len(buf) + 1 /\ at = Len(buf) /\ Begin(1) = 0
    BY <1>1, <1>2, Begins DEF Run, First
  <2>2. QED
    BY <1>1, <2>1
<1>4. 1 \in Frames1 /\ 1 \in Numbers
  BY <1>1, Begins, StreamType
<1>5. QED
  BY <1>1, <1>3, <1>4, SaysIs

LEMMA ReportLearns == ASSUME Plain, onReport, ReportInv, LearnSize PROVE ReportInv'
<1> USE DEF env, recvVars, queueVars
<1>1. stream' = stream /\ stream \in Streams /\ Len(buf) \in Nat
  BY LenProperties DEF LearnSize, Plain
<1>2. /\ frames' = frames /\ Numbers' = Numbers /\ Frames1' = Frames1 /\ (short' <=> short)
      /\ \A n : Begin(n)' = Begin(n) /\ End(n)' = End(n)
  BY <1>1, SameStream
<1>3. /\ pc = "report" /\ pc' = "loop" /\ size = 0
      /\ UNCHANGED <<at, buf, offset, out, why, state>> /\ (spoilt' <=> spoilt)
  BY DEF LearnSize
<1>4. /\ HeaderLen \in Nat /\ HeaderLen > 0 /\ Guessed.short \in Nat /\ Guessed.long \in Nat
      /\ Guessed.short > 0 /\ Guessed.long > 0 /\ frames[1].len \in Nat /\ frames[1].len > HeaderLen
      /\ Guessed.long > HeaderLen
      /\ frames[1].says = frames[1].len \/ (short /\ frames[1].len = Guessed.long)
  BY <1>1, ReportStream
<1>5. /\ First /\ ~spoilt /\ ~unsure /\ Len(buf) <= HeaderLen
  <2>1. ~Guessing /\ ~Corrected /\ ~GivenUp /\ ~Astray /\ \A n \in Frames1 : ~Aligned(n)
    BY <1>3, <1>4 DEF Guessing, Corrected, GivenUp, Astray, Aligned
  <2>2. First /\ Learning
    BY <2>1 DEF ReportInv
  <2>3. QED
    BY <2>2 DEF Learning
<1>6. First'
  BY <1>3, <1>5 DEF First
<1>7. Run' /\ InStep(out)' /\ (why' = "length" => spoilt' \/ frames'[1].says # frames'[1].len)
  <2>1. Run /\ InStep(out) /\ (why = "length" => spoilt \/ frames[1].says # frames[1].len)
    BY DEF ReportInv
  <2>2. InStep(out)'
    BY <1>2, <1>3, <2>1 DEF InStep
  <2>3. QED
    BY <1>2, <1>3, <2>1, <2>2 DEF Run
<1>8. \/ (First /\ (Learning \/ Guessing \/ Corrected \/ GivenUp))'
      \/ \E n \in Frames1' : Aligned(n)'
  <2>1. CASE Len(buf) # HeaderLen
    <3>1. size' = size /\ unsure' = unsure
      BY <2>1 DEF LearnSize
    <3>2. Len(buf') < HeaderLen /\ Len(buf') <= HeaderLen
      BY <1>1, <1>3, <1>4, <1>5, <2>1
    <3>3. Learning'
      BY <1>3, <1>5, <3>1, <3>2 DEF Learning, Handing
    <3>4. QED
      BY <1>6, <3>3
  <2>2. CASE Len(buf) = HeaderLen
    <3>1. /\ unsure' <=> (Says(buf[1]) = Guessed.short)
          /\ size' = IF unsure' THEN Guessed.long ELSE Says(buf[1])
      BY <2>2 DEF LearnSize
    <3>2. Says(buf[1]) = frames[1].says
      BY <1>4, <1>5, <2>2, FirstBegins DEF ReportInv
    <3>3. CASE short
      <4>1. unsure' /\ size' = Guessed.long
        BY <3>1, <3>2, <3>3 DEF short
      <4>2. Len(buf') <= size'
        BY <1>1, <1>3, <1>4, <1>5, <4>1
      <4>3. Guessing'
        BY <1>2, <1>3, <1>5, <3>3, <4>1, <4>2 DEF Guessing, Handing
      <4>4. QED
        BY <1>6, <4>3
    <3>4. CASE ~short
      <4>1. ~unsure' /\ size' = frames[1].len /\ frames[1].says = frames[1].len
        BY <1>4, <3>1, <3>2, <3>4 DEF short
      <4>2. Len(buf') <= size'
        BY <1>1, <1>3, <1>4, <1>5, <4>1
      <4>3. Begin(1)' = at' - Len(buf')
        BY <1>1, <1>2, <1>3, <1>5, Begins DEF First
      <4>4. Len(out') = 0
        <5>1. Len(<<>>) = 0
          OBVIOUS
        <5>2. QED
          BY <1>3, <1>5, <5>1, Zenon DEF First
      <4>5. ~short'
        BY <1>2, <1>3, <3>4
      <4>6. Aligned(1)'
        BY <1>2, <1>3, <1>5, <4>1, <4>2, <4>3, <4>4, <4>5 DEF Aligned, Follows, Handing
      <4>7. QED
        BY <1>1, <1>2, <4>6, Begins
    <3>5. QED
      BY <3>3, <3>4
  <2>3. QED
    BY <2>1, <2>2
<1>9. offset = 0
  BY DEF ReportInv
<1>10. QED
  BY <1>3, <1>7, <1>8, <1>9 DEF ReportInv

\* With the bytes of the longer size there, the guess is settled.
LEMMA GuessSettled ==
  ASSUME Plain, onReport, Run, First, short, Len(buf) = Guessed.long
  PROVE  NextBeginsEarly <=> frames[1].len = Guessed.short
<1>1. stream \in Streams /\ Total \in Nat /\ at \in 0..Total /\ at = Guessed.long
  BY Begins DEF Plain, First
<1>2. /\ Guessed.short \in Nat /\ Guessed.long \in Nat /\ Guessed.short > 0
      /\ Guessed.short < Guessed.long
      /\ frames[1].says = frames[1].len \/ (short /\ frames[1].len = Guessed.long)
  BY <1>1, ReportStream
<1>3. Guessed.short + 1 \in 1..Len(buf)
  BY <1>2
<1>4. buf[Guessed.short + 1] = at - Len(buf) + (Guessed.short + 1)
  BY <1>3 DEF Run
<1>5. buf[Guessed.short + 1] = Guessed.short + 1
  BY <1>1, <1>2, <1>4
<1>6. 1 \in Numbers /\ Begin(1) = 0 /\ End(1) = frames[1].len /\ End(1) \in Nat
      /\ Begin(1 + 1) = End(1) /\ 1 + 1 \in Frames1
  <2>1. 1 \in Numbers /\ frames[1].at = 0 /\ End(1) = frames[1].at + frames[1].len
        /\ frames[1].len \in Nat /\ End(1) \in Nat
    BY <1>1, StreamType
  <2>2. QED
    BY <1>1, <2>1, Begins
<1>7. ASSUME frames[1].len = Guessed.short PROVE NextBeginsEarly
  <2>1. Begin(1 + 1) = Guessed.short
    BY <1>6, <1>7
  <2>2. 1 + 1 \in Numbers
    <3>1. Begin(1 + 1) # Total
      BY <1>1, <1>2, <2>1
    <3>2. QED
      BY <1>1, <1>6, <3>1, Begins
  <2>3. Says(Begin(1 + 1) + 1) = frames[1].says
    BY <1>1, <1>6, <2>2, SaysIs
  <2>4. QED
    BY <1>5, <2>1, <2>3 DEF NextBeginsEarly, short
<1>8. ASSUME frames[1].len = Guessed.long PROVE ~NextBeginsEarly
  <2>1. \A f \in Numbers : Begin(f) # Guessed.short
    <3>1. ASSUME NEW f \in Numbers PROVE Begin(f) # Guessed.short
      <4>1. f \in Nat /\ f \in Frames1 /\ f >= 1 /\ Begin(f) \in 0..Total
        BY <1>1, Begins, StreamType DEF Numbers
      <4>2. CASE f = 1
        BY <1>2, <1>6, <4>2
      <4>3. CASE 1 < f
        <5>1. End(1) <= Begin(f)
          BY <1>1, <1>6, <4>1, <4>3, Begins
        <5>2. QED
          BY <1>1, <1>2, <1>6, <1>8, <4>1, <5>1
      <4>4. QED
        BY <4>1, <4>2, <4>3
    <3>2. QED
      BY <3>1
  <2>2. Says(Guessed.short + 1) = -1
    BY <1>1, <1>2, <1>6, <2>1, SaysIs
  <2>3. QED
    BY <1>2, <1>5, <2>2 DEF NextBeginsEarly
<1>9. Guessed.short # Guessed.long
  BY <1>2
<1>10. frames[1].len = Guessed.short \/ frames[1].len = Guessed.long
  BY <1>2 DEF short
<1>11. QED
  BY <1>7, <1>8, <1>9, <1>10

LEMMA ReportReport == ASSUME Plain, onReport, ReportInv, Report PROVE ReportInv'
<1> USE DEF env, recvVars, queueVars
<1>1. /\ stream' = stream /\ stream \in Streams /\ Len(buf) \in Nat /\ at \in Nat
      /\ buf \in Seq(Nat)
  BY LenProperties, Begins DEF Report, Plain
<1>2. /\ frames' = frames /\ Numbers' = Numbers /\ Frames1' = Frames1 /\ (short' <=> short)
      /\ \A n : Begin(n)' = Begin(n) /\ End(n)' = End(n)
  BY <1>1, SameStream
<1>3. /\ pc = "report" /\ UNCHANGED <<at, buf, offset, out, held>> /\ (spoilt' <=> spoilt)
      /\ offset = 0
  BY DEF Report, ReportInv
<1>4. /\ Guessed.short \in Nat /\ Guessed.long \in Nat /\ Guessed.short > 0
      /\ Guessed.short < Guessed.long /\ frames[1].len \in Nat /\ frames[1].len > 0
      /\ frames[1].says \in Nat
      /\ frames[1].says = frames[1].len \/ (short /\ frames[1].len = Guessed.long)
  BY <1>1, ReportStream
<1>5. Run /\ InStep(out) /\ (why = "length" => spoilt \/ frames[1].says # frames[1].len)
  BY DEF ReportInv
<1>6. Run' /\ InStep(out)'
  <2>1. InStep(out)'
    BY <1>2, <1>3, <1>5 DEF InStep
  <2>2. QED
    BY <1>3, <1>5, <2>1 DEF Run
<1>7. AtFrameEnd(at)' <=> AtFrameEnd(at)
  BY <1>2, <1>3 DEF AtFrameEnd
<1>8. /\ Len(buf) < size => pc' = "loop" /\ state' = state /\ size' = size
                           /\ (unsure' <=> unsure) /\ why' = why
      /\ ~(Len(buf) < size) =>
           /\ ~unsure'
           /\ unsure /\ NextBeginsEarly => pc' = "loop" /\ size' = Guessed.short /\ why' = why
           /\ ~(unsure /\ NextBeginsEarly) =>
                /\ size' = size
                /\ ~RightLength => ~state' /\ pc' = "loop" /\ why' \in {why, "length"}
                /\ RightLength => pc' = "room" /\ why' = why
  BY DEF Report, Close
<1>9. pc' \in {"loop", "room"} /\ why' \in {why, "length"}
  BY <1>8
<1>10. CASE First /\ Learning
  BY <1>10 DEF Learning, Report
<1>11. CASE First /\ Guessing
  <2>1. short /\ ~spoilt /\ unsure /\ size = Guessed.long /\ Len(buf) <= size
    BY <1>11 DEF Guessing
  <2>2. First'
    BY <1>3, <1>11 DEF First
  <2>3. CASE Len(buf) < size
    <3>1. Guessing'
      BY <1>2, <1>3, <1>8, <2>1, <2>3 DEF Guessing, Handing
    <3>2. why' = why
      BY <1>8, <2>3
    <3>3. QED
      BY <1>2, <1>3, <1>5, <1>6, <1>9, <2>2, <3>1, <3>2 DEF ReportInv
  <2>4. CASE ~(Len(buf) < size)
    <3>1. Len(buf) = Guessed.long
      BY <1>1, <1>4, <2>1, <2>4
    <3>2. NextBeginsEarly <=> frames[1].len = Guessed.short
      BY <1>5, <1>11, <2>1, <3>1, GuessSettled
    <3>3. CASE frames[1].len = Guessed.short
      <4>1. pc' = "loop" /\ size' = Guessed.short /\ why' = why /\ ~unsure'
        BY <1>8, <2>1, <2>4, <3>2, <3>3
      <4>2. Len(buf') > size'
        BY <1>3, <1>4, <3>1, <4>1
      <4>3. Corrected'
        BY <1>2, <1>3, <2>1, <3>3, <4>1, <4>2 DEF Corrected, Handing
      <4>4. QED
        BY <1>2, <1>3, <1>5, <1>6, <1>9, <2>2, <4>1, <4>3 DEF ReportInv
    <3>4. CASE frames[1].len # Guessed.short
      <4>1. frames[1].len = Guessed.long /\ frames[1].says = Guessed.short
        BY <1>4, <2>1, <3>4 DEF short
      <4>2. Len(buf) > 0
        BY <1>4, <3>1
      <4>3. Says(buf[1]) = Guessed.short
        BY <1>5, <1>11, <4>1, <4>2, FirstBegins
      <4>4. ~RightLength
        BY <1>4, <2>1, <4>3 DEF RightLength
      <4>5. size' = size /\ ~state' /\ pc' = "loop" /\ ~unsure'
        BY <1>8, <2>1, <2>4, <3>2, <3>4, <4>4
      <4>6. GivenUp'
        BY <1>2, <2>1, <4>1, <4>5 DEF GivenUp
      <4>7. frames'[1].says # frames'[1].len
        BY <1>2, <1>4, <4>1
      <4>8. QED
        BY <1>3, <1>6, <1>9, <2>2, <4>6, <4>7 DEF ReportInv
    <3>5. QED
      BY <3>3, <3>4
  <2>5. QED
    BY <2>3, <2>4
<1>12. CASE First /\ Corrected
  <2>1. /\ short /\ frames[1].len = Guessed.short /\ ~unsure /\ size = Guessed.short
        /\ Len(buf) > size /\ (spoilt <=> ~AtFrameEnd(at))
    BY <1>3, <1>12 DEF Corrected
  <2>2. ~(Len(buf) < size) /\ Len(buf) > 0
    BY <1>1, <1>4, <2>1
  <2>3. RightLength
    <3>1. Says(buf[1]) = frames[1].says
      BY <1>5, <1>12, <2>2, FirstBegins
    <3>2. QED
      BY <2>1, <3>1 DEF RightLength, short
  <2>4. size' = size /\ pc' = "room" /\ why' = why /\ ~unsure'
    BY <1>8, <2>1, <2>2, <2>3
  <2>5. First'
    BY <1>3, <1>12 DEF First
  <2>6. Corrected'
    BY <1>2, <1>3, <1>7, <2>1, <2>4 DEF Corrected, Handing
  <2>7. QED
    BY <1>2, <1>3, <1>5, <1>6, <1>9, <2>4, <2>5, <2>6 DEF ReportInv
<1>13. CASE First /\ GivenUp
  BY <1>3, <1>13 DEF GivenUp
<1>14. ASSUME NEW n \in Frames1, Aligned(n) PROVE ReportInv'
  <2>1. /\ ~spoilt /\ ~unsure /\ size = frames[1].len /\ frames[1].says = frames[1].len
        /\ Begin(n) = at - Len(buf) /\ Len(buf) <= size
        /\ Follows(out, n) /\ (short => Len(out) > 0)
    BY <1>14 DEF Aligned
  <2>2. CASE Len(buf) < size
    <3>1. pc' = "loop" /\ size' = size /\ ~unsure' /\ why' = why
      BY <1>8, <2>1, <2>2
    <3>2. Aligned(n)'
      BY <1>2, <1>3, <2>1, <3>1 DEF Aligned, Follows, Handing
    <3>3. QED
      BY <1>2, <1>3, <1>5, <1>6, <1>9, <3>1, <3>2 DEF ReportInv
  <2>3. CASE ~(Len(buf) < size)
    <3>1. Len(buf) = size /\ Len(buf) > 0
      BY <1>1, <1>4, <2>1, <2>3
    <3>2. n \in Numbers
      <4>1. Total \in Nat /\ at \in 0..Total
        BY <1>1, Begins DEF Plain
      <4>2. Begin(n) # Total
        BY <1>1, <2>1, <3>1, <4>1
      <4>3. QED
        BY <1>1, <4>2, Begins
    <3>3. buf[1] = Begin(n) + 1
      <4>1. 1 \in 1..Len(buf)
        BY <1>1, <3>1
      <4>2. buf[1] = at - Len(buf) + 1
        BY <1>5, <4>1 DEF Run
      <4>3. QED
        BY <2>1, <4>2
    <3>4. RightLength
      BY <1>1, <2>1, <3>2, <3>3, SaysIs DEF RightLength
    <3>5. size' = size /\ pc' = "room" /\ why' = why /\ ~unsure'
      BY <1>8, <2>1, <2>3, <3>4
    <3>6. Aligned(n)'
      BY <1>2, <1>3, <2>1, <3>1, <3>5 DEF Aligned, Follows
    <3>7. QED
      BY <1>2, <1>3, <1>5, <1>6, <1>9, <3>5, <3>6 DEF ReportInv
  <2>4. QED
    BY <2>2, <2>3
<1>15. CASE Astray
  <2>1. /\ short /\ frames[1].len = Guessed.short /\ ~unsure /\ size = Guessed.short
        /\ spoilt /\ Len(buf) <= size /\ \A n \in Frames1 : Begin(n) # at - Len(buf)
    BY <1>15 DEF Astray
  <2>2. CASE Len(buf) < size
    <3>1. pc' = "loop" /\ size' = size /\ ~unsure'
      BY <1>8, <2>1, <2>2
    <3>2. Astray'
      BY <1>2, <1>3, <2>1, <3>1 DEF Astray, Handing
    <3>3. QED
      BY <1>3, <1>6, <1>9, <2>1, <3>1, <3>2 DEF ReportInv
  <2>3. CASE ~(Len(buf) < size)
    <3>1. Len(buf) > 0
      BY <1>1, <1>4, <2>1, <2>3
    <3>2. buf[1] = (at - Len(buf)) + 1 /\ at - Len(buf) \in Nat
      <4>1. 1 \in 1..Len(buf)
        BY <1>1, <3>1
      <4>2. QED
        BY <1>1, <1>5, <4>1 DEF Run
    <3>3. \A f \in Numbers : Begin(f) # at - Len(buf)
      BY <1>1, <2>1, Begins
    <3>4. Says(buf[1]) = -1
      BY <1>1, <3>2, <3>3, Begins, SaysIs
    <3>5. ~RightLength
      BY <1>4, <2>1, <3>4 DEF RightLength
    <3>6. pc' = "loop" /\ size' = size /\ ~unsure'
      BY <1>8, <2>1, <2>3, <3>5
    <3>7. Astray'
      BY <1>2, <1>3, <2>1, <3>6 DEF Astray, Handing
    <3>8. QED
      BY <1>3, <1>6, <1>9, <2>1, <3>6, <3>7 DEF ReportInv
  <2>4. QED
    BY <2>2, <2>3
<1>16. QED
  BY <1>10, <1>11, <1>12, <1>13, <1>14, <1>15 DEF ReportInv

LEMMA ReportPut == ASSUME Plain, onReport, ReportInv, Put PROVE ReportInv'
<1> USE DEF env
<1>1. /\ stream' = stream /\ stream \in Streams /\ Len(buf) \in Nat /\ at \in Nat
      /\ buf \in Seq(Nat) /\ out \in Seq(Int) /\ Total \in Nat /\ at \in 0..Total
  BY LenProperties, Begins DEF Put, Plain
<1>2. /\ frames' = frames /\ Numbers' = Numbers /\ Frames1' = Frames1 /\ (short' <=> short)
      /\ \A n : Begin(n)' = Begin(n) /\ End(n)' = End(n)
  BY <1>1, SameStream
<1>3. /\ pc = "put" /\ pc' = "loop" /\ buf' = <<>> /\ offset' = offset /\ offset = 0
      /\ UNCHANGED <<at, size, unsure, why, state>> /\ (spoilt' <=> spoilt)
      /\ out' = Append(out, FrameOf(SubSeq(buf, 1, size)))
  <2>1. held < Cap
    BY DEF Put, ReportInv
  <2>2. QED
    BY <2>1 DEF Put, ReportInv
<1>4. Run /\ InStep(out) /\ (why = "length" => spoilt \/ frames[1].says # frames[1].len)
  BY DEF ReportInv
<1>5. Len(buf') = 0 /\ at' - Len(buf') = at
  <2>1. Len(<<>>) = 0
    OBVIOUS
  <2>2. Len(buf') = 0
    BY <1>3, <2>1, Zenon
  <2>3. QED
    BY <1>1, <1>3, <2>2
<1>6. Run'
  <2>1. Len(buf') <= at' /\ \A i \in 1..Len(buf') : FALSE
    BY <1>1, <1>3, <1>5
  <2>2. QED
    BY <2>1 DEF Run
<1>7. frames[1].len \in Nat /\ frames[1].len > 0 /\ \A n \in Numbers : frames[n].len = frames[1].len
      /\ Begin(n + 1) = Begin(n) + frames[1].len
  BY <1>1, ReportStream
\* The report that is handed out is frame n.
<1>8. ASSUME NEW n \in Numbers, size = frames[1].len, size <= Len(buf), Begin(n) = at - Len(buf),
             Follows(out, n)
      PROVE  /\ n \in Nat /\ n > 0
             /\ InStep(out)' /\ Len(out') = Len(out) + 1 /\ out'[Len(out')] = n
  <2>1. n \in Nat /\ n > 0
    BY <1>1, StreamType DEF Numbers
  <2>2. FrameOf(SubSeq(buf, 1, size)) = n
    <3>1. 0 \in Nat /\ Begin(n) = at - Len(buf) + 0 /\ size = frames[n].len /\ 0 + size <= Len(buf)
          /\ 0 + size = size /\ 0 + 1 = 1
      BY <1>1, <1>7, <1>8
    <3>2. FrameOf(SubSeq(buf, 0 + 1, 0 + size)) = n
      BY <1>1, <1>4, <3>1, FrameInBuffer
    <3>3. QED
      BY <3>1, <3>2
  <2>3. out' = Append(out, n)
    BY <1>3, <2>2
  <2>4. InStep(out') /\ Len(out') = Len(out) + 1 /\ out'[Len(out')] = n
    BY <1>1, <1>4, <1>8, <2>1, <2>3, InStepAppends
  <2>5. InStep(out)'
    BY <1>2, <2>4 DEF InStep
  <2>6. QED
    BY <2>1, <2>4, <2>5
<1>9. CASE First /\ Corrected
  <2>1. /\ short /\ frames[1].len = Guessed.short /\ ~unsure /\ size = Guessed.short
        /\ Len(buf) > size /\ (spoilt <=> ~AtFrameEnd(at)) /\ at = Len(buf) /\ out = <<>>
    BY <1>3, <1>9 DEF First, Corrected, Handing
  <2>2. 1 \in Numbers /\ 1 \in Frames1 /\ Begin(1) = 0 /\ Begin(1) = at - Len(buf)
    BY <1>1, <2>1, Begins, StreamType
  <2>3. Len(out) = 0
    <3>1. Len(<<>>) = 0
      OBVIOUS
    <3>2. QED
      BY <2>1, <3>1, Zenon
  <2>4. size = frames[1].len /\ size <= Len(buf) /\ Follows(out, 1)
    BY <1>1, <1>7, <2>1, <2>3 DEF Follows
  <2>5. InStep(out)' /\ Len(out') = 1
    BY <1>8, <2>2, <2>3, <2>4
  <2>6. CASE AtFrameEnd(at)
    <3>1. PICK f \in Numbers : at = End(f)
      BY <2>6 DEF AtFrameEnd
    <3>2. f \in Nat /\ f >= 1 /\ f + 1 \in Frames1 /\ Begin(f + 1) = at
      BY <1>1, <3>1, Begins, StreamType DEF Numbers
    <3>3. f + 1 > 2
      <4>1. f # 1
        BY <1>1, <1>7, <2>1, <2>2, <2>4, <3>1, StreamType
      <4>2. QED
        BY <3>2, <4>1
    <3>4. Begin(f + 1)' = at' - Len(buf') /\ Len(buf') <= size'
      BY <1>2, <1>3, <1>5, <1>7, <2>4, <3>2
    <3>5. frames'[1].says = frames'[1].len
      BY <1>2, <2>1 DEF short
    <3>6. Aligned(f + 1)'
      BY <1>2, <1>3, <2>1, <2>4, <2>5, <2>6, <3>3, <3>4, <3>5 DEF Aligned, Follows, Handing
    <3>7. QED
      BY <1>2, <1>3, <1>4, <1>6, <2>5, <3>2, <3>6 DEF ReportInv
  <2>7. CASE ~AtFrameEnd(at)
    <3>1. ASSUME NEW m \in Frames1 PROVE Begin(m) # at
      <4>1. CASE m = 1
        BY <1>1, <1>7, <2>1, <2>2, <2>4, <4>1
      <4>2. CASE m # 1
        <5>1. m - 1 \in Numbers /\ (m - 1) + 1 = m
          BY <1>1, <4>2, StreamType DEF Numbers, Frames1
        <5>2. Begin(m) = End(m - 1)
          BY <1>1, <5>1, Begins
        <5>3. QED
          BY <2>7, <5>1, <5>2 DEF AtFrameEnd
      <4>3. QED
        BY <4>1, <4>2
    <3>2. \A m \in Frames1' : Begin(m)' # at' - Len(buf')
      BY <1>2, <1>5, <3>1
    <3>3. Len(buf') <= size'
      BY <1>3, <1>5, <1>7, <2>4
    <3>4. Astray'
      BY <1>2, <1>3, <2>1, <2>7, <3>2, <3>3 DEF Astray, Handing
    <3>5. QED
      BY <1>2, <1>3, <1>4, <1>6, <2>5, <3>4 DEF ReportInv
  <2>8. QED
    BY <2>6, <2>7
<1>10. ASSUME NEW n \in Frames1, Aligned(n) PROVE ReportInv'
  <2>1. /\ ~spoilt /\ ~unsure /\ size = frames[1].len /\ frames[1].says = frames[1].len
        /\ Begin(n) = at - Len(buf) /\ Len(buf) = size
        /\ Follows(out, n) /\ (short => Len(out) > 0)
    BY <1>3, <1>10 DEF Aligned, Handing
  <2>2. n \in Numbers
    <3>1. Begin(n) # Total
      BY <1>1, <1>7, <2>1
    <3>2. QED
      BY <1>1, <3>1, Begins
  <2>3. /\ n \in Nat /\ n > 0
        /\ InStep(out)' /\ Len(out') = Len(out) + 1 /\ out'[Len(out')] = n
    <3>1. size <= Len(buf)
      BY <1>1, <2>1
    <3>2. QED
      BY <1>8, <2>1, <2>2, <3>1
  <2>4. n + 1 \in Frames1 /\ Begin(n + 1) = at
    <3>1. Begin(n + 1) = Begin(n) + frames[1].len
      BY <1>7, <2>2
    <3>2. QED
      BY <1>1, <1>7, <2>1, <2>2, <3>1, Begins
  <2>5. Begin(n + 1)' = at' - Len(buf') /\ Len(buf') <= size'
    BY <1>2, <1>3, <1>5, <1>7, <2>1, <2>4
  <2>6. Follows(out, n + 1)' /\ Len(out') > 0
    <3>1. Len(out) \in Nat
      BY <1>1, LenProperties
    <3>2. Len(out') > 0 /\ (short => Len(out') # 1)
      BY <2>1, <2>3, <3>1
    <3>3. QED
      BY <1>2, <2>3, <3>2 DEF Follows
  <2>7. Aligned(n + 1)'
    BY <1>2, <1>3, <2>1, <2>5, <2>6 DEF Aligned, Handing
  <2>8. QED
    BY <1>2, <1>3, <1>4, <1>6, <2>3, <2>4, <2>7 DEF ReportInv
<1>11. ~Astray /\ ~Learning /\ ~Guessing /\ ~GivenUp
  BY <1>3 DEF Astray, Learning, Guessing, GivenUp, Handing
<1>12. QED
  BY <1>9, <1>10, <1>11 DEF ReportInv

\* The invariant of a report port.
LEMMA ReportNext == ASSUME Plain, onReport, ReportInv, [Next]_vars PROVE ReportInv'
<1> USE DEF env, recvVars, queueVars, Handing
<1>0. /\ stream' = stream /\ state \in BOOLEAN /\ held \in 0..Cap /\ Cap \in Nat /\ Cap > 0
      /\ pc \in {"loop", "recv", "report", "room", "drop", "put", "gone"}
      /\ offset = 0 /\ (pc = "put" => held < Cap)
  BY Still, SocketAssumption DEF Plain, ReportInv
<1>1. CASE Loop
  BY <1>0, <1>1, ReportKept DEF Loop
<1>2. CASE Recv
  BY <1>2, ReportRecv
<1>3. CASE RecvNothing
  BY <1>0, <1>3, ReportKept DEF RecvNothing, Close
<1>4. CASE Interrupted
  BY <1>0, <1>4, ReportKept DEF Interrupted
<1>5. CASE RecvFails
  BY <1>0, <1>5, ReportKept DEF RecvFails, Close
<1>6. CASE Parse \/ Push \/ Retry \/ ParseEnds
  BY <1>0, <1>6 DEF Parse, Push, Retry, ParseEnds
<1>7. CASE LearnSize
  BY <1>7, ReportLearns
<1>8. CASE Report
  BY <1>8, ReportReport
<1>9. CASE MakeRoom
  <2>1. pc' = "put" => held' < Cap
    BY <1>0, <1>9 DEF MakeRoom, IsFull
  <2>2. QED
    BY <1>0, <1>9, <2>1, ReportKept DEF MakeRoom
<1>10. CASE Drop
  BY <1>0, <1>10, ReportKept DEF Drop
<1>11. CASE Put
  BY <1>11, ReportPut
<1>12. CASE Read
  <2>1. pc' = "put" => held' < Cap
    BY <1>0, <1>12 DEF Read
  <2>2. QED
    BY <1>0, <1>12, <2>1, ReportKept DEF Read
<1>13. CASE ClosePort
  BY <1>0, <1>13, ReportKept DEF ClosePort
<1>14. CASE PeerCloses
  BY <1>0, <1>14, ReportKept DEF PeerCloses
<1>15. CASE UNCHANGED vars
  BY <1>0, <1>15, ReportKept DEF vars
<1>16. QED
  BY <1>1, <1>2, <1>3, <1>4, <1>5, <1>6, <1>7, <1>8, <1>9, <1>10, <1>11, <1>12, <1>13, <1>14, <1>15
  DEF Next, Thread

-----------------------------------------------------------------------------
(* What follows. *)

IInv == Plain /\ (IF onReport THEN ReportInv ELSE CommandInv)

LEMMA IInvHolds == Spec => []IInv
<1>1. Init => IInv
  <2> SUFFICES ASSUME Init PROVE IInv
    OBVIOUS
  <2>1. Plain /\ stream \in Streams
    BY InitPlain DEF Plain
  <2>2. /\ at = 0 /\ pc = "loop" /\ buf = <<>> /\ offset = 0 /\ size = 0 /\ ~unsure /\ state
        /\ out = <<>> /\ fout = <<>> /\ why = "none" /\ ~spoilt
    BY DEF Init
  <2>3. Len(buf) = 0 /\ Len(out) = 0 /\ Len(fout) = 0
    <3>1. Len(<<>>) = 0
      OBVIOUS
    <3>2. QED
      BY <2>2, <3>1, Zenon
  <2>4. Run /\ First
    <3>1. Len(buf) <= at /\ \A i \in 1..Len(buf) : FALSE
      BY <2>2, <2>3
    <3>2. QED
      BY <2>2, <2>3, <3>1 DEF Run, First
  <2>5. HeaderLen \in Nat /\ HeaderLen > 0 /\ BufSize \in Nat
    BY SocketAssumption
  <2>6. CASE onReport
    <3>1. InStep(out)
      <4>1. \A i \in 1..Len(out) : FALSE
        BY <2>3
      <4>2. QED
        BY <4>1 DEF InStep
    <3>2. Learning
      BY <2>2, <2>3, <2>5 DEF Learning, Handing
    <3>3. QED
      BY <2>1, <2>2, <2>4, <2>6, <3>1, <3>2 DEF IInv, ReportInv
  <2>7. CASE ~onReport
    <3>1. /\ 1 \in Frames1 /\ Begin(1) = 0 /\ 1 \in Numbers /\ End(1) \in Nat /\ frames[1].at < End(1)
          /\ frames[1].at = 0
      BY <2>1, Begins, StreamType
    <3>2. \A seq, type : Len(seq) = 0 => Upto(seq, type, 1)
      <4>1. ASSUME NEW seq, NEW type, Len(seq) = 0 PROVE Upto(seq, type, 1)
        <5>1. (\A i \in 1..Len(seq) : FALSE) /\ (\A f \in 1..(1 - 1) : FALSE)
          BY <4>1
        <5>2. QED
          BY <5>1 DEF Upto
      <4>2. QED
        BY <4>1
    <3>3. Len(Magnitude(fout)) = 0
      <4>1. Magnitude(fout) = [i \in 1..0 |-> IF fout[i] < 0 THEN -fout[i] ELSE fout[i]]
        BY <2>3 DEF Magnitude
      <4>2. Magnitude(fout) = <<>>
        BY <4>1
      <4>3. Len(<<>>) = 0
        OBVIOUS
      <4>4. QED
        BY <4>2, <4>3, Zenon
    <3>4. Reached(1)
      <4>1. Begin(1) = at - Len(buf) + 0 /\ at < End(1)
        BY <2>2, <2>3, <3>1
      <4>2. QED
        BY <2>2, <2>3, <3>2, <3>3, <4>1 DEF Reached
    <3>5. Len(buf) <= BufSize /\ offset <= BufSize /\ size \in 0..BufSize
      BY <2>2, <2>3, <2>5
    <3>6. QED
      BY <2>1, <2>2, <2>4, <2>7, <3>1, <3>4, <3>5 DEF IInv, CommandInv
  <2>8. QED
    BY <2>6, <2>7
<1>2. IInv /\ [Next]_vars => IInv'
  <2> SUFFICES ASSUME IInv, [Next]_vars PROVE IInv'
    OBVIOUS
  <2>1. Plain' /\ (onReport' <=> onReport)
    BY PlainNext, Still, SameStream DEF IInv
  <2>2. CASE onReport
    BY <2>1, <2>2, ReportNext DEF IInv
  <2>3. CASE ~onReport
    BY <2>1, <2>3, CommandNext DEF IInv
  <2>4. QED
    BY <2>2, <2>3
<1>3. QED
  BY <1>1, <1>2, PTL DEF Spec

\* What the frames before n give, in order.
LEMMA UptoInOrder ==
  ASSUME stream \in Streams, NEW seq \in Seq(Int), NEW type, NEW n \in Frames1, Upto(seq, type, n)
  PROVE  InOrder(seq, type)
<1>1. n \in Nat /\ Len(frames) \in Nat /\ n <= Len(frames) + 1 /\ Len(seq) \in Nat
  BY Begins, StreamType, LenProperties DEF Frames1
<1>2. \A f \in 1..(n - 1) : f \in Numbers
  BY <1>1 DEF Numbers
<1>3. /\ \A i \in 1..Len(seq) : seq[i] \in 1..(n - 1) /\ frames[seq[i]].type = type
      /\ \A i, j \in 1..Len(seq) : i < j => seq[i] < seq[j]
      /\ \A f \in 1..(n - 1) : frames[f].type = type => \E i \in 1..Len(seq) : seq[i] = f
  BY DEF Upto
<1>4. ASSUME NEW i \in 1..Len(seq), NEW f \in 1..seq[i], frames[f].type = type
      PROVE  \E j \in 1..i : seq[j] = f
  <2>1. seq[i] \in 1..(n - 1)
    BY <1>3
  <2>2. f \in 1..(n - 1) /\ f <= seq[i]
    BY <1>1, <2>1
  <2>3. PICK j \in 1..Len(seq) : seq[j] = f
    BY <1>3, <1>4, <2>2
  <2>4. ~(i < j)
    <3>1. i < j => seq[i] < seq[j]
      BY <1>3
    <3>2. QED
      BY <1>1, <2>1, <2>2, <2>3, <3>1
  <2>5. j \in 1..i
    BY <1>1, <2>4
  <2>6. QED
    BY <2>3, <2>5
<1>5. QED
  BY <1>2, <1>3, <1>4 DEF InOrder

\* The types, and that only a read without a limit brings more than the buffer holds.
THEOREM TypeCorrect == Spec => []TypeOK
<1>1. IInv => TypeOK
  <2> SUFFICES ASSUME IInv PROVE TypeOK
    OBVIOUS
  <2>1. Plain /\ stream \in Streams
    BY DEF IInv, Plain
  <2>2. BufSize \in Nat /\ Len(buf) \in Nat
    BY <2>1, SocketAssumption, LenProperties DEF Plain
  <2>3. CASE ~onReport
    <3>1. Len(buf) <= BufSize /\ offset <= BufSize /\ size \in 0..BufSize
      BY <2>3 DEF IInv, CommandInv
    <3>2. offset \in 0..BufSize /\ size \in 0..(BufSize + 1) /\ ~(Len(buf) > BufSize)
      BY <2>1, <2>2, <3>1 DEF Plain
    <3>3. QED
      BY <2>1, <3>2 DEF Plain, TypeOK
  <2>4. CASE onReport
    <3>1. ReportInv /\ offset = 0
      BY <2>4 DEF IInv, ReportInv
    <3>2. /\ frames[1].len \in Nat /\ frames[1].len <= BufSize /\ Guessed.short \in Nat
          /\ Guessed.long \in Nat /\ Guessed.short < Guessed.long /\ Guessed.long <= BufSize
          /\ HeaderLen \in Nat /\ HeaderLen < frames[1].len
      BY <2>1, <2>4, ReportStream
    <3>3. size \in {0, Guessed.short, Guessed.long, frames[1].len}
      BY <3>1 DEF ReportInv, Learning, Guessing, Corrected, GivenUp, Aligned, Astray
    <3>4. short \/ Len(buf) <= HeaderLen \/ (size = frames[1].len /\ Len(buf) <= size)
      BY <3>1 DEF ReportInv, Learning, Guessing, Corrected, GivenUp, Aligned, Astray
    <3>5. Len(buf) > BufSize => short
      BY <2>2, <3>2, <3>4
    <3>6. offset \in 0..BufSize /\ size \in 0..(BufSize + 1)
      BY <2>2, <3>1, <3>2, <3>3
    <3>7. QED
      BY <2>1, <2>4, <3>5, <3>6 DEF Plain, TypeOK, short
  <2>5. QED
    BY <2>3, <2>4
<1>2. QED
  BY <1>1, IInvHolds, PTL

\* However TCP cuts the stream of a command port, answers and feedback come out whole,
\* each once and in order.
THEOREM InOrderOut == Spec => []AnswersInOrder
<1>1. IInv => AnswersInOrder
  <2> SUFFICES ASSUME IInv, ~onReport, ~spoilt
               PROVE  InOrder(out, "answer") /\ InOrder(Magnitude(fout), "feedback")
    BY DEF AnswersInOrder, Magnitude
  <2>1. stream \in Streams /\ out \in Seq(Int) /\ fout \in Seq(Int) /\ FeedbackCap \in Nat
    BY SocketAssumption DEF IInv, Plain
  <2>2. PICK n \in Frames1 : Reached(n)
    BY DEF IInv, CommandInv
  <2>3. InOrder(out, "answer")
    BY <2>1, <2>2, UptoInOrder DEF Reached
  <2>4. Magnitude(fout) \in Seq(Int)
    <3>1. 1 \in Nat /\ 1 \in {1, -1} /\ 1 > 0
      OBVIOUS
    <3>2. QED
      BY <2>1, <3>1, MagnitudeAppends
  <2>5. InOrder(Magnitude(fout), "feedback")
    <3>1. CASE FeedbackCap > 0
      BY <2>1, <2>2, <2>4, <3>1, UptoInOrder DEF Reached
    <3>2. CASE FeedbackCap = 0
      <4>1. fout = <<>>
        BY <3>2 DEF IInv, CommandInv
      <4>2. Magnitude(fout) = [i \in 1..Len(fout) |-> IF fout[i] < 0 THEN -fout[i] ELSE fout[i]]
        BY DEF Magnitude
      <4>3. Magnitude(fout) = <<>>
        BY <4>1, <4>2
      <4>4. Len(<<>>) = 0
        OBVIOUS
      <4>5. Len(Magnitude(fout)) = 0
        BY <4>3, <4>4, Zenon
      <4>6. \A i \in 1..Len(Magnitude(fout)) : FALSE
        BY <4>5
      <4>7. QED
        BY <4>6 DEF InOrder
    <3>3. QED
      BY <2>1, <3>1, <3>2
  <2>6. QED
    BY <2>3, <2>5
<1>2. QED
  BY <1>1, IInvHolds, PTL

\* The thread of a command port calls recv only when no whole frame is in its buffer.
THEOREM NoFrameWaits == Spec => []NoneLeftBehind
<1>1. IInv => NoneLeftBehind
  <2> SUFFICES ASSUME IInv, ~onReport, ~spoilt, pc = "recv", state,
                      NEW f \in Numbers, NEW i \in 1..Len(buf), buf[i] = End(f)
               PROVE  FALSE
    BY DEF NoneLeftBehind
  <2>1. stream \in Streams /\ Total \in Nat /\ at \in Nat /\ Len(buf) \in Nat
    BY Begins, LenProperties DEF IInv, Plain
  <2>2. PICK n \in Frames1 : Reached(n)
    BY DEF IInv, CommandInv
  <2>3. Begin(n) = at - Len(buf) + 0 /\ (n \in Numbers => at < End(n))
    BY <2>2 DEF Reached
  <2>4. buf[i] = at - Len(buf) + i
    BY DEF IInv, CommandInv, Run
  <2>5. End(f) \in Nat /\ Begin(n) < End(f) /\ End(f) <= at
    <3>1. End(f) \in Nat
      BY <2>1, StreamType
    <3>2. End(f) = at - Len(buf) + i
      BY <2>4
    <3>3. i \in Nat /\ i >= 1 /\ i <= Len(buf)
      BY <2>1
    <3>4. QED
      BY <2>1, <2>3, <3>1, <3>2, <3>3
  <2>6. f \in Nat /\ n \in Nat /\ Begin(n) \in Nat
    BY <2>1, Begins
  <2>7. CASE f < n
    BY <2>1, <2>5, <2>6, <2>7, Begins
  <2>8. CASE f = n
    BY <2>1, <2>3, <2>5, <2>8
  <2>9. CASE n < f
    <3>1. n \in Numbers
      BY <2>1, <2>6, <2>9, StreamType DEF Numbers, Frames1
    <3>2. End(n) <= frames[f].at
      BY <2>1, <2>9, <3>1, Ordered
    <3>3. frames[f].at < End(f) /\ frames[f].at \in Nat /\ End(n) \in Nat
      BY <2>1, <3>1, StreamType
    <3>4. QED
      BY <2>1, <2>3, <2>5, <3>1, <3>2, <3>3
  <2>10. QED
    BY <2>6, <2>7, <2>8, <2>9
<1>2. QED
  BY <1>1, IInvHolds, PTL

\* Every report that goes into the queue is one that the arm sent, whole, and the next after
\* the one before, but for the gap behind the first report of the ambiguous length.
THEOREM InStepOut == Spec => []ReportsInStep
<1>1. IInv => ReportsInStep
  BY DEF IInv, ReportInv, InStep, short, ReportsInStep
<1>2. QED
  BY <1>1, IInvHolds, PTL

\* A port is closed for the length of a report only when the arm gives a wrong one, or
\* the read after the ambiguous length ended within a report.
THEOREM StaysOpen == Spec => []SameSizeStaysOpen
<1>1. IInv => SameSizeStaysOpen
  BY DEF IInv, ReportInv, CommandInv, SameSizeStaysOpen
<1>2. QED
  BY <1>1, IInvHolds, PTL
=============================================================================
