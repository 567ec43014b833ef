------------------------------ MODULE TalkProofs ------------------------------
(***************************************************************************)
(* Proofs about one conversation, for any request, any sizes of buffers    *)
(* and streams, and any portions in which bytes arrive.                    *)
(***************************************************************************)
EXTENDS Talk, SequenceTheorems, WellFoundedInduction, TLAPS

Byte == STRING \cup {CR, LF, "e", "k", "c", "b", "p"}
Texts == Seq(Byte)

-----------------------------------------------------------------------------
(* FlattenSeq: its recursion is unfolded with least counterexamples.       *)

LEMMA LeastElement ==
  ASSUME NEW S, S \subseteq Nat, S # {}
  PROVE  \E x \in S : \A y \in S : x <= y
<1> DEFINE Less == {ss \in Nat \X Nat : ss[1] < ss[2]}
<1>1. IsWellFoundedOn(Less, Nat)
    BY NatLessThanWellFounded DEF OpToRel
<1> HIDE DEF Less
<1>2. PICK x \in S : \A y \in S : ~ (<<y, x>> \in Less)
    BY <1>1, WFMin
<1>3. \A y \in S : ~(y < x)
    BY <1>2 DEF Less
<1>4. QED
    BY <1>3

\* f[k] is what the first k of seqs make in a row.
IsFlat(f, seqs, n) ==
  f = [k \in 1..n |-> IF k = 1 THEN seqs[k] ELSE f[k - 1] \o seqs[k]]

LEMMA FlatExists ==
  ASSUME NEW seqs, NEW n \in Nat
  PROVE  \E f : IsFlat(f, seqs, n)
<1> DEFINE None == {m \in Nat : \A f : ~IsFlat(f, seqs, m)}
<1>1. SUFFICES ASSUME None # {} PROVE FALSE
    OBVIOUS
<1>2. PICK m \in None : \A y \in None : m <= y
    BY <1>1, LeastElement
<1>3. m # 0
  <2>1. IsFlat(<<>>, seqs, 0)
      BY DEF IsFlat
  <2>2. QED
      BY <1>2, <2>1
<1>4. m - 1 \in Nat /\ m - 1 \notin None
    BY <1>2, <1>3
<1>5. PICK f : IsFlat(f, seqs, m - 1)
    BY <1>4
<1>6. PICK last : last = IF m = 1 THEN seqs[m] ELSE f[m - 1] \o seqs[m]
    OBVIOUS
<1>7. PICK g : g = [k \in 1..m |-> IF k = m THEN last ELSE f[k]]
    OBVIOUS
<1>8. \A k \in 1..m : g[k] = IF k = 1 THEN seqs[k] ELSE g[k - 1] \o seqs[k]
  <2>1. SUFFICES ASSUME NEW k \in 1..m
                 PROVE  g[k] = IF k = 1 THEN seqs[k] ELSE g[k - 1] \o seqs[k]
      OBVIOUS
  <2>2. CASE k = m
    <3>1. g[k] = last
        BY <1>7, <2>2
    <3>2. k # 1 => g[k - 1] = f[k - 1]
        BY <1>4, <1>7, <2>2
    <3>3. QED
        BY <1>6, <2>2, <3>1, <3>2
  <2>3. CASE k # m
    <3>1. k \in 1..(m - 1) /\ (k # 1 => k - 1 \in 1..m /\ k - 1 # m)
        BY <1>4, <2>3
    <3>2. g[k] = f[k] /\ (k # 1 => g[k - 1] = f[k - 1])
        BY <1>7, <2>3, <3>1
    <3>3. f[k] = IF k = 1 THEN seqs[k] ELSE f[k - 1] \o seqs[k]
        BY <1>5, <3>1 DEF IsFlat
    <3>4. QED
        BY <3>2, <3>3
  <2>4. QED
      BY <2>2, <2>3
<1>9. IsFlat(g, seqs, m)
  <2>1. g = [k \in 1..m |-> g[k]]
      BY <1>7
  <2>2. QED
      BY <1>8, <2>1 DEF IsFlat
<1>10. QED
    BY <1>2, <1>9

\* A sequence with one more element makes the same of the first n.
LEMMA FlatAgree ==
  ASSUME NEW S, NEW n \in Nat \ {0}, NEW ss, NEW tt, NEW f, NEW g,
         IsFlat(f, ss, n), IsFlat(g, tt, n + 1),
         \A k \in 1..n : ss[k] = tt[k] /\ ss[k] \in Seq(S)
  PROVE  f[n] = g[n] /\ f[n] \in Seq(S)
<1> DEFINE Differ == {k \in 1..n : ~(f[k] = g[k] /\ f[k] \in Seq(S))}
<1>1. SUFFICES ASSUME Differ # {} PROVE FALSE
    OBVIOUS
<1>2. Differ \subseteq Nat
    OBVIOUS
<1>3. PICK k \in Differ : \A y \in Differ : k <= y
    BY <1>1, <1>2, LeastElement
<1>4. k \in 1..n /\ k \in 1..(n + 1)
    BY <1>3
<1>5. /\ f[k] = IF k = 1 THEN ss[k] ELSE f[k - 1] \o ss[k]
      /\ g[k] = IF k = 1 THEN tt[k] ELSE g[k - 1] \o tt[k]
    BY <1>4 DEF IsFlat
<1>6. ss[k] = tt[k] /\ ss[k] \in Seq(S)
    BY <1>4
<1>7. CASE k = 1
    BY <1>3, <1>5, <1>6, <1>7
<1>8. CASE k # 1
  <2>1. k - 1 \in 1..n /\ k - 1 \notin Differ
      BY <1>2, <1>3, <1>4, <1>8
  <2>2. f[k - 1] = g[k - 1] /\ f[k - 1] \in Seq(S)
      BY <2>1
  <2>3. f[k - 1] \o ss[k] \in Seq(S)
      BY <1>6, <2>2, ConcatProperties
  <2>4. QED
      BY <1>3, <1>5, <1>6, <1>8, <2>2, <2>3
<1>9. QED
    BY <1>7, <1>8

LEMMA FlattenIsFlat ==
  ASSUME NEW seqs, Len(seqs) \in Nat \ {0}
  PROVE  \E f : IsFlat(f, seqs, Len(seqs)) /\ FlattenSeq(seqs) = f[Len(seqs)]
<1> DEFINE g == CHOOSE f : f = [k \in 1..Len(seqs) |->
                                  IF k = 1 THEN seqs[k] ELSE f[k - 1] \o seqs[k]]
<1>1. \E f : f = [k \in 1..Len(seqs) |-> IF k = 1 THEN seqs[k] ELSE f[k - 1] \o seqs[k]]
    BY FlatExists DEF IsFlat
<1>2. g = [k \in 1..Len(seqs) |-> IF k = 1 THEN seqs[k] ELSE g[k - 1] \o seqs[k]]
    BY <1>1
<1>3. FlattenSeq(seqs) = g[Len(seqs)]
    BY DEF FlattenSeq
<1> HIDE DEF g
<1>4. QED
    BY <1>2, <1>3 DEF IsFlat

LEMMA FlattenEmpty == FlattenSeq(<<>>) = <<>>
BY DEF FlattenSeq

LEMMA FlattenAppend ==
  ASSUME NEW S, NEW ss \in Seq(Seq(S)), NEW x \in Seq(S)
  PROVE  FlattenSeq(ss) \in Seq(S) /\ FlattenSeq(Append(ss, x)) = FlattenSeq(ss) \o x
<1>1. PICK n \in Nat : n = Len(ss)
    OBVIOUS
<1>2. PICK tt : tt = Append(ss, x)
    OBVIOUS
<1>3. Len(tt) = n + 1 /\ tt[n + 1] = x /\ \A k \in 1..n : tt[k] = ss[k] /\ ss[k] \in Seq(S)
    BY <1>1, <1>2
<1>4. PICK g : IsFlat(g, tt, n + 1) /\ FlattenSeq(tt) = g[n + 1]
    BY <1>3, FlattenIsFlat
<1>5. g[n + 1] = IF n + 1 = 1 THEN x ELSE g[n] \o x
  <2>1. n + 1 \in 1..(n + 1) /\ (n + 1) - 1 = n
      OBVIOUS
  <2>2. QED
      BY <1>3, <1>4, <2>1 DEF IsFlat
<1>6. CASE n = 0
  <2>1. ss = <<>>
      BY <1>1, <1>6, EmptySeq
  <2>2. FlattenSeq(ss) = <<>>
      BY <2>1, FlattenEmpty
  <2>3. <<>> \o x = x /\ <<>> \in Seq(S)
      OBVIOUS
  <2>4. QED
      BY <1>2, <1>4, <1>5, <1>6, <2>2, <2>3
<1>7. CASE n # 0
  <2>1. PICK f : IsFlat(f, ss, n) /\ FlattenSeq(ss) = f[n]
      BY <1>1, <1>7, FlattenIsFlat
  <2>2. f[n] = g[n] /\ f[n] \in Seq(S)
    <3>1. n \in Nat \ {0}
        BY <1>7
    <3>2. \A k \in 1..n : ss[k] = tt[k] /\ ss[k] \in Seq(S)
        BY <1>3
    <3>3. IsFlat(f, ss, n) /\ IsFlat(g, tt, n + 1)
        BY <1>4, <2>1
    <3> HIDE <1>1, <1>2
    <3>4. QED
        BY <3>1, <3>2, <3>3, FlatAgree
  <2>3. g[n + 1] = g[n] \o x
      BY <1>5, <1>7
  <2>4. FlattenSeq(tt) = FlattenSeq(ss) \o x
      BY <1>4, <2>1, <2>2, <2>3
  <2>5. QED
      BY <1>2, <2>1, <2>2, <2>4
<1>8. QED
    BY <1>6, <1>7

-----------------------------------------------------------------------------
(* The types of the variables, and what the primitives do to the data.     *)

DataInv ==
  /\ asks \in Requests /\ reset \in BOOLEAN /\ holds \subseteq Writer
  /\ net \in [Reader -> Texts] /\ said \in [Reader -> Texts]
  /\ rio \in [Reader -> Texts] /\ usrbuf \in [Reader -> Texts]
  /\ todo \in [Writer -> Texts] /\ lines \in [Reader -> Seq(Texts)]

PlaceInv ==
  /\ listener \in {"none", "bound", "listening"}
  /\ client \in {"connect", "header", "body", "close", "done", "failed"}
  /\ server \in {"down", "accept", "line", "headers", "refused", "refork", "queued",
                 "fork", "close", "killed", "exit"}

SizeInv ==
  \A s \in Reader : /\ Len(net[s]) <= SendBuffer /\ Len(rio[s]) <= RIO_BUFSIZE
                    /\ Len(usrbuf[s]) < MAXLINE - 1

LEMMA CutInTwo ==
  ASSUME NEW S, NEW t \in Seq(S), NEW k \in 0..Len(t)
  PROVE  /\ SubSeq(t, 1, k) \in Seq(S) /\ Len(SubSeq(t, 1, k)) = k
         /\ SubSeq(t, k + 1, Len(t)) \in Seq(S) /\ Len(SubSeq(t, k + 1, Len(t))) = Len(t) - k
         /\ t = SubSeq(t, 1, k) \o SubSeq(t, k + 1, Len(t))
<1>1. Len(t) \in Nat
    OBVIOUS
<1>2. /\ SubSeq(t, 1, k) \in Seq(S) /\ Len(SubSeq(t, 1, k)) = k
      /\ SubSeq(t, k + 1, Len(t)) \in Seq(S) /\ Len(SubSeq(t, k + 1, Len(t))) = Len(t) - k
    BY <1>1
<1>3. SubSeq(t, 1, k) \o SubSeq(t, k + 1, Len(t)) = SubSeq(t, 1, Len(t))
  <2>1. 1 \in 1..(Len(t) + 1) /\ k \in (1 - 1)..Len(t) /\ Len(t) \in k..Len(t)
      BY <1>1
  <2>2. QED
      BY <2>1, ConcatAdjacentSubSeq
<1>4. QED
    BY <1>2, <1>3, SubSeqFull

LEMMA OtherSide ==
  ASSUME NEW w \in Writer
  PROVE  Other(w) \in Reader /\ (Other(w) = "client" <=> w # "client")
BY DEF Writer, Reader, Other

LEMMA Messages ==
  /\ \A r \in Requests : r.bytes \in Texts /\ r.bytes # <<>>
  /\ Error \in Texts /\ Header \in Texts /\ Body \in Texts /\ CgiHeader \in Texts
  /\ CgiBody \in Texts /\ Header \o Body \in Texts /\ Log \in Texts /\ <<>> \in Texts
<1>1. \A r \in Requests : r.bytes \in Texts /\ r.bytes # <<>>
    BY TalkAssumption, SeqMonotonic DEF Byte, Texts
<1>2. Error \in Texts /\ Header \in Texts
    BY DEF Byte, Texts, Error, Header
<1>3. CgiBody \in Texts /\ CgiHeader \in Texts /\ Body \in Texts
    BY DEF Byte, Texts, Body, CgiHeader, CgiBody
<1>4. Header \o Body \in Texts
    BY <1>2, <1>3 DEF Texts
<1>5. Log \in Texts /\ <<>> \in Texts
    BY DEF Byte, Texts, Log
<1>6. QED
    BY <1>1, <1>2, <1>3, <1>4, <1>5

LEMMA SayTypes ==
  ASSUME DataInv, NEW w \in Writer, NEW message \in Texts, Say(w, message)
  PROVE  /\ todo' \in [Writer -> Texts] /\ said' \in [Reader -> Texts]
         /\ todo'[w] = message /\ \A v \in Writer : v # w => todo'[v] = todo[v]
         /\ said'[Other(w)] = said[Other(w)] \o message
         /\ \A s \in Reader : s # Other(w) => said'[s] = said[s]
<1>1. Other(w) \in Reader
    BY OtherSide
<1>2. said[Other(w)] \o message \in Texts
    BY <1>1, ConcatProperties DEF DataInv, Texts
<1>3. QED
    BY <1>1, <1>2 DEF Say, DataInv

\* write takes some bytes, which the reader gets unless it has gone.
LEMMA WriteTakesSome ==
  ASSUME DataInv, NEW w \in Writer, WriteSome(w)
  PROVE  \E sent \in Texts, left \in Texts :
           /\ todo[w] = sent \o left /\ todo' = [todo EXCEPT ![w] = left]
           /\ \/ PeerGone(w) /\ reset' = TRUE /\ net' = net
              \/ /\ ~PeerGone(w) /\ reset' = FALSE
                 /\ net' = [net EXCEPT ![Other(w)] = @ \o sent]
                 /\ Len(net[Other(w)]) + Len(sent) <= SendBuffer
<1>1. PICK k \in 1..Len(todo[w]) :
        /\ PeerGone(w) \/ Len(net[Other(w)]) + k <= SendBuffer
        /\ todo' = [todo EXCEPT ![w] = SubSeq(todo[w], k + 1, Len(todo[w]))]
        /\ net' = IF PeerGone(w) THEN net
                  ELSE [net EXCEPT ![Other(w)] = @ \o SubSeq(todo[w], 1, k)]
    BY DEF WriteSome, Advance
<1>2. PICK text \in Texts : text = todo[w]
    BY DEF DataInv
<1>3. /\ SubSeq(text, 1, k) \in Texts /\ Len(SubSeq(text, 1, k)) = k
      /\ SubSeq(text, k + 1, Len(text)) \in Texts
      /\ text = SubSeq(text, 1, k) \o SubSeq(text, k + 1, Len(text))
    BY <1>1, <1>2, CutInTwo DEF Texts
<1>4. reset' = PeerGone(w) /\ PeerGone(w) \in BOOLEAN
    BY DEF WriteSome, PeerGone
<1>5. QED
    BY <1>1, <1>2, <1>3, <1>4

\* read takes some bytes off the stream.
LEMMA RefillTakesSome ==
  ASSUME DataInv, NEW s \in Reader, Refill(s)
  PROVE  /\ rio[s] = <<>>
         /\ \E got \in Texts, left \in Texts :
              /\ net[s] = got \o left /\ Len(got) <= RIO_BUFSIZE /\ Len(left) <= Len(net[s])
              /\ rio' = [rio EXCEPT ![s] = got] /\ net' = [net EXCEPT ![s] = left]
<1>1. PICK k \in Reads(Len(net[s])) :
        /\ rio' = [rio EXCEPT ![s] = SubSeq(net[s], 1, k)]
        /\ net' = [net EXCEPT ![s] = SubSeq(net[s], k + 1, Len(net[s]))]
    BY DEF Refill
<1>2. PICK text \in Texts : text = net[s]
    BY DEF DataInv
<1>3. k \in 0..Len(text) /\ k <= RIO_BUFSIZE /\ Len(text) \in Nat
    BY <1>1, <1>2 DEF Reads, Texts
<1>4. /\ SubSeq(text, 1, k) \in Texts /\ Len(SubSeq(text, 1, k)) = k
      /\ SubSeq(text, k + 1, Len(text)) \in Texts
      /\ Len(SubSeq(text, k + 1, Len(text))) = Len(text) - k
      /\ text = SubSeq(text, 1, k) \o SubSeq(text, k + 1, Len(text))
    BY <1>3, CutInTwo, ZenonT(90) DEF Texts
<1>5. rio[s] = <<>>
    BY DEF Refill
<1>6. Len(text) - k <= Len(text)
    BY <1>3
<1>7. QED
    BY <1>1, <1>2, <1>3, <1>4, <1>5, <1>6

\* A close loses nothing, or resets the connection and cuts what is under way.
LEMMA HangupCuts ==
  ASSUME DataInv, NEW w \in Writer, NEW s \in Reader, Hangup(w, s)
  PROVE  /\ holds' = holds \ {w} /\ reset' \in BOOLEAN /\ (reset => reset')
         /\ net' \in [Reader -> Texts]
         /\ ~reset' => net' = net
         /\ reset' => reset \/ (holds \cap Peer(Other(s)) = {w} /\ net[s] # <<>>)
         /\ \A r \in Reader : \E cut \in Texts : net[r] = net'[r] \o cut
         /\ \A r \in Reader : Len(net'[r]) <= Len(net[r])
<1>1. holds' = holds \ {w}
    BY DEF Hangup
<1>2. \A r \in Reader : net[r] \in Texts /\ net[r] \o <<>> = net[r] /\ <<>> \o net[r] = net[r]
                        /\ Len(net[r]) \in Nat
    BY DEF DataInv, Texts
<1>3. <<>> \in Texts /\ Len(<<>>) = 0
    BY DEF Texts
<1>4. CASE UNCHANGED <<reset, net>>
  <2>1. reset' = reset /\ net' = net /\ reset \in BOOLEAN /\ net' \in [Reader -> Texts]
      BY <1>4 DEF DataInv
  <2>2. \A r \in Reader : net[r] = net'[r] \o <<>>
      BY <1>2, <2>1
  <2>3. \A r \in Reader : Len(net'[r]) <= Len(net[r])
      BY <1>2, <2>1
  <2>4. QED
      BY <1>1, <1>3, <2>1, <2>2, <2>3
<1>5. CASE ~UNCHANGED <<reset, net>>
  <2>1. /\ holds \cap Peer(Other(s)) = {w} /\ net[s] # <<>> /\ reset' = TRUE
        /\ \E k \in 0..Len(net[Other(s)]) :
             net' = [net EXCEPT ![s] = <<>>, ![Other(s)] = SubSeq(@, 1, k)]
      BY <1>5 DEF Hangup
  <2>2. Other(s) \in Reader /\ Other(s) # s
      BY DEF Other, Reader
  <2>3. PICK text \in Texts : text = net[Other(s)]
      BY <2>2 DEF DataInv
  <2>4. PICK k \in 0..Len(text) : net' = [net EXCEPT ![s] = <<>>, ![Other(s)] = SubSeq(text, 1, k)]
      BY <2>1, <2>2, <2>3
  <2>5. /\ SubSeq(text, 1, k) \in Texts /\ Len(SubSeq(text, 1, k)) = k
        /\ SubSeq(text, k + 1, Len(text)) \in Texts
        /\ text = SubSeq(text, 1, k) \o SubSeq(text, k + 1, Len(text))
      BY CutInTwo, ZenonT(90) DEF Texts
  <2>6. /\ net' \in [Reader -> Texts] /\ net'[s] = <<>> /\ net'[Other(s)] = SubSeq(text, 1, k)
        /\ \A r \in Reader : r = s \/ r = Other(s)
    <3>1. \A r \in Reader : r = s \/ r = Other(s)
        BY DEF Reader, Other
    <3>2. QED
        BY <1>3, <2>2, <2>4, <2>5, <3>1 DEF DataInv
  <2>7. \A r \in Reader : \E cut \in Texts : net[r] = net'[r] \o cut
      BY <1>2, <2>3, <2>5, <2>6
  <2>8. \A r \in Reader : Len(net'[r]) <= Len(net[r])
    <3>1. k <= Len(text)
        BY DEF Texts
    <3>2. QED
        BY <1>2, <1>3, <2>3, <2>5, <2>6, <3>1
  <2>9. QED
      BY <1>1, <2>1, <2>6, <2>7, <2>8
<1>6. QED
    BY <1>4, <1>5

\* One byte moves from the buffer of the rio_t to the line.
LEMMA OneByte ==
  ASSUME DataInv, NEW s \in Reader, rio[s] # <<>>
  PROVE  \E b \in Byte, rest \in Texts :
           /\ Head(rio[s]) = b /\ Tail(rio[s]) = rest /\ rio[s] = <<b>> \o rest
           /\ Append(usrbuf[s], b) = usrbuf[s] \o <<b>> /\ Append(usrbuf[s], b) \in Texts
           /\ <<b>> \in Texts /\ Len(rest) <= Len(rio[s])
           /\ Len(Append(usrbuf[s], b)) = Len(usrbuf[s]) + 1
<1>1. PICK text \in Texts : text = rio[s]
    BY DEF DataInv
<1>2. PICK line \in Texts : line = usrbuf[s]
    BY DEF DataInv
<1>3. text # <<>> /\ Len(text) \in Nat /\ text \in Seq(Byte) /\ line \in Seq(Byte)
    BY <1>1 DEF Texts
<1>4. /\ Head(text) \in Byte /\ Tail(text) \in Texts /\ Len(Tail(text)) = Len(text) - 1
      /\ text = <<Head(text)>> \o Tail(text)
    BY <1>3 DEF Texts
<1>5. /\ Append(line, Head(text)) = line \o <<Head(text)>> /\ Append(line, Head(text)) \in Texts
      /\ <<Head(text)>> \in Texts /\ Len(Append(line, Head(text))) = Len(line) + 1
    BY <1>3, <1>4 DEF Texts
<1>6. Len(Tail(text)) <= Len(text)
    BY <1>3, <1>4
<1>7. QED
    BY <1>1, <1>2, <1>4, <1>5, <1>6

LEMMA TakeByteMoves ==
  ASSUME DataInv, NEW s \in Reader, TakeByte(s)
  PROVE  \E b \in Byte, rest \in Texts :
           /\ rio[s] = <<b>> \o rest /\ rio' = [rio EXCEPT ![s] = rest]
           /\ usrbuf' = [usrbuf EXCEPT ![s] = usrbuf[s] \o <<b>>]
           /\ usrbuf[s] \o <<b>> \in Texts /\ <<b>> \in Texts
           /\ ~LineFull(usrbuf[s] \o <<b>>) /\ Len(rest) <= Len(rio[s])
           /\ Len(usrbuf[s] \o <<b>>) = Len(usrbuf[s]) + 1
<1>1. /\ rio[s] # <<>> /\ ~LineFull(Append(usrbuf[s], Head(rio[s])))
      /\ usrbuf' = [usrbuf EXCEPT ![s] = Append(usrbuf[s], Head(rio[s]))]
      /\ rio' = [rio EXCEPT ![s] = Tail(rio[s])]
    BY DEF TakeByte
<1>2. QED
    BY <1>1, OneByte

\* rio_readlineb returns a full line, or at the end of file what there is.
LEMMA ReturnsLine ==
  ASSUME DataInv, NEW s \in Reader, NEW line, Returns(s, line)
  PROVE  /\ line \in Texts /\ usrbuf' = [usrbuf EXCEPT ![s] = <<>>]
         /\ lines' = IF line = <<>> THEN lines ELSE [lines EXCEPT ![s] = Append(@, line)]
         /\ \/ \E b \in Byte, rest \in Texts :
                 /\ rio[s] = <<b>> \o rest /\ rio' = [rio EXCEPT ![s] = rest]
                 /\ line = usrbuf[s] \o <<b>> /\ <<b>> \in Texts /\ LineFull(line) /\ line # <<>>
                 /\ Len(rest) <= Len(rio[s]) /\ Len(line) = Len(usrbuf[s]) + 1
            \/ AtEOF(s) /\ line = usrbuf[s] /\ rio' = rio
<1>1. /\ usrbuf' = [usrbuf EXCEPT ![s] = <<>>]
      /\ lines' = IF line = <<>> THEN lines ELSE [lines EXCEPT ![s] = Append(@, line)]
    BY DEF Returns
<1>2. CASE rio[s] # <<>> /\ line = Append(usrbuf[s], Head(rio[s])) /\ LineFull(line)
           /\ rio' = [rio EXCEPT ![s] = Tail(rio[s])]
  <2>1. PICK b \in Byte, rest \in Texts :
          /\ Head(rio[s]) = b /\ Tail(rio[s]) = rest /\ rio[s] = <<b>> \o rest
          /\ Append(usrbuf[s], b) = usrbuf[s] \o <<b>> /\ Append(usrbuf[s], b) \in Texts
          /\ <<b>> \in Texts /\ Len(rest) <= Len(rio[s])
          /\ Len(Append(usrbuf[s], b)) = Len(usrbuf[s]) + 1
      BY <1>2, OneByte
  <2>2. Len(line) # 0
      BY <1>2, <2>1 DEF DataInv, Texts
  <2>3. line # <<>>
      BY <2>2
  <2>4. QED
      BY <1>1, <1>2, <2>1, <2>3
<1>3. CASE AtEOF(s) /\ line = usrbuf[s] /\ rio' = rio
    BY <1>1, <1>3 DEF DataInv
<1>4. QED
    BY <1>2, <1>3 DEF Returns

LEMMA ReturnsTypes ==
  ASSUME DataInv, NEW s \in Reader, NEW line, Returns(s, line)
  PROVE  /\ rio' \in [Reader -> Texts] /\ usrbuf' \in [Reader -> Texts]
         /\ lines' \in [Reader -> Seq(Texts)]
         /\ SizeInv => \A r \in Reader : /\ Len(rio'[r]) <= RIO_BUFSIZE
                                         /\ Len(usrbuf'[r]) < MAXLINE - 1
<1>1. /\ line \in Texts /\ usrbuf' = [usrbuf EXCEPT ![s] = <<>>]
      /\ lines' = IF line = <<>> THEN lines ELSE [lines EXCEPT ![s] = Append(@, line)]
    BY ReturnsLine
<1>2. <<>> \in Texts /\ Len(<<>>) = 0
    BY DEF Texts
<1>3. usrbuf' \in [Reader -> Texts]
    BY <1>1, <1>2 DEF DataInv
<1>4. lines' \in [Reader -> Seq(Texts)]
  <2>1. Append(lines[s], line) \in Seq(Texts)
      BY <1>1 DEF DataInv
  <2>2. QED
      BY <1>1, <2>1 DEF DataInv
<1>5. PICK rest \in Texts : rio' = [rio EXCEPT ![s] = rest] /\ Len(rest) <= Len(rio[s])
  <2>1. rio[s] \in Texts /\ rio \in [Reader -> Texts] /\ Len(rio[s]) \in Nat
      BY DEF DataInv, Texts
  <2>2. rio = [rio EXCEPT ![s] = rio[s]] /\ Len(rio[s]) <= Len(rio[s])
      BY <2>1
  <2>3. QED
      BY <2>1, <2>2, ReturnsLine
<1>6. rio' \in [Reader -> Texts]
    BY <1>5 DEF DataInv
<1>7. ASSUME SizeInv, NEW r \in Reader
      PROVE  Len(rio'[r]) <= RIO_BUFSIZE /\ Len(usrbuf'[r]) < MAXLINE - 1
  <2>1. Len(rio[r]) \in Nat /\ Len(rio[s]) \in Nat /\ Len(rest) \in Nat /\ RIO_BUFSIZE \in Nat
        /\ Len(rio[r]) <= RIO_BUFSIZE /\ Len(rio[s]) <= RIO_BUFSIZE
        /\ Len(usrbuf[r]) < MAXLINE - 1 /\ MAXLINE \in Nat /\ MAXLINE > 2
      BY <1>7, TalkAssumption DEF DataInv, Texts, SizeInv
  <2>2. rio'[r] = (IF r = s THEN rest ELSE rio[r]) /\ usrbuf'[r] = IF r = s THEN <<>> ELSE usrbuf[r]
      BY <1>1, <1>5 DEF DataInv
  <2>3. QED
      BY <1>2, <1>5, <2>1, <2>2
<1>8. QED
    BY <1>3, <1>4, <1>6, <1>7

-----------------------------------------------------------------------------
(* The types are kept.                                                     *)

TypeInv == DataInv /\ PlaceInv /\ SizeInv

LEMMA WriteTypes ==
  ASSUME TypeInv, NEW w \in Writer, WriteSome(w) \/ WriteKills(w)
  PROVE  TypeInv'
<1>1. CASE WriteSome(w)
  <2>1. PICK sent \in Texts, left \in Texts :
          /\ todo[w] = sent \o left /\ todo' = [todo EXCEPT ![w] = left]
          /\ \/ PeerGone(w) /\ reset' = TRUE /\ net' = net
             \/ /\ ~PeerGone(w) /\ reset' = FALSE
                /\ net' = [net EXCEPT ![Other(w)] = @ \o sent]
                /\ Len(net[Other(w)]) + Len(sent) <= SendBuffer
      BY <1>1, WriteTakesSome DEF TypeInv
  <2>2. UNCHANGED <<asks, listener, client, server, holds, said, rio, usrbuf, lines>>
      BY <1>1 DEF WriteSome, read
  <2>3. Other(w) \in Reader
      BY OtherSide
  <2>4. net[Other(w)] \o sent \in Texts
        /\ Len(net[Other(w)] \o sent) = Len(net[Other(w)]) + Len(sent)
      BY <2>3, ConcatProperties DEF TypeInv, DataInv, Texts
  <2>5. DataInv'
      BY <2>1, <2>2, <2>3, <2>4 DEF TypeInv, DataInv
  <2>6. \A s \in Reader : Len(net'[s]) <= SendBuffer
    <3>1. net \in [Reader -> Texts] /\ \A s \in Reader : Len(net[s]) <= SendBuffer
        BY DEF TypeInv, DataInv, SizeInv
    <3>2. CASE net' = net
        BY <3>1, <3>2
    <3>3. CASE net' = [net EXCEPT ![Other(w)] = @ \o sent]
               /\ Len(net[Other(w)]) + Len(sent) <= SendBuffer
        BY <2>3, <2>4, <3>1, <3>3
    <3>4. QED
        BY <2>1, <3>2, <3>3
  <2>7. SizeInv' /\ PlaceInv'
      BY <2>2, <2>6 DEF TypeInv, SizeInv, PlaceInv
  <2>8. QED
      BY <2>5, <2>7 DEF TypeInv
<1>2. CASE WriteKills(w)
  <2>1. <<>> \in Texts
      BY DEF Texts
  <2>2. DataInv'
      BY <1>2, <2>1 DEF WriteKills, read, TypeInv, DataInv
  <2>3. PlaceInv' /\ SizeInv'
      BY <1>2 DEF WriteKills, read, TypeInv, PlaceInv, SizeInv
  <2>4. QED
      BY <2>2, <2>3 DEF TypeInv
<1>3. QED
    BY <1>1, <1>2

LEMMA ReadTypes ==
  ASSUME TypeInv, NEW s \in Reader, Refill(s) \/ ReadFails(s) \/ TakeByte(s)
  PROVE  TypeInv'
<1>1. CASE Refill(s)
  <2>1. PICK got \in Texts, left \in Texts :
          /\ net[s] = got \o left /\ Len(got) <= RIO_BUFSIZE /\ Len(left) <= Len(net[s])
          /\ rio' = [rio EXCEPT ![s] = got] /\ net' = [net EXCEPT ![s] = left]
      BY <1>1, RefillTakesSome DEF TypeInv
  <2>2. UNCHANGED <<asks, listener, client, server, holds, reset, todo, said, usrbuf, lines>>
      BY <1>1 DEF Refill
  <2>3. DataInv'
      BY <2>1, <2>2 DEF TypeInv, DataInv
  <2>4. Len(left) \in Nat /\ Len(net[s]) \in Nat /\ SendBuffer \in Nat /\ Len(net[s]) <= SendBuffer
      BY TalkAssumption DEF TypeInv, DataInv, SizeInv, Texts
  <2>5. Len(left) <= SendBuffer
      BY <2>1, <2>4
  <2>6. SizeInv'
      BY <2>1, <2>2, <2>5 DEF TypeInv, DataInv, SizeInv
  <2>7. QED
      BY <2>2, <2>3, <2>6 DEF TypeInv, PlaceInv
<1>2. CASE ReadFails(s)
  <2>1. UNCHANGED <<asks, listener, net, reset, todo, said, rio, usrbuf, lines>>
        /\ holds' = holds \ {s} /\ client' \in {client, "failed"} /\ server' \in {server, "exit"}
      BY <1>2 DEF ReadFails, read
  <2>2. DataInv' /\ SizeInv'
      BY <2>1 DEF TypeInv, DataInv, SizeInv
  <2>3. PlaceInv'
      BY <2>1 DEF TypeInv, PlaceInv
  <2>4. QED
      BY <2>2, <2>3 DEF TypeInv
<1>3. CASE TakeByte(s)
  <2>1. PICK b \in Byte, rest \in Texts :
           /\ rio[s] = <<b>> \o rest /\ rio' = [rio EXCEPT ![s] = rest]
           /\ usrbuf' = [usrbuf EXCEPT ![s] = usrbuf[s] \o <<b>>]
           /\ usrbuf[s] \o <<b>> \in Texts /\ <<b>> \in Texts
           /\ ~LineFull(usrbuf[s] \o <<b>>) /\ Len(rest) <= Len(rio[s])
           /\ Len(usrbuf[s] \o <<b>>) = Len(usrbuf[s]) + 1
      BY <1>3, TakeByteMoves DEF TypeInv
  <2>2. UNCHANGED <<asks, listener, client, server, net, holds, reset, todo, said, lines>>
      BY <1>3 DEF TakeByte, talk
  <2>3. DataInv'
      BY <2>1, <2>2 DEF TypeInv, DataInv
  <2>4. /\ Len(rest) \in Nat /\ Len(rio[s]) \in Nat /\ RIO_BUFSIZE \in Nat /\ Len(rio[s]) <= RIO_BUFSIZE
        /\ Len(usrbuf[s]) \in Nat /\ Len(usrbuf[s]) < MAXLINE - 1 /\ MAXLINE \in Nat
      BY TalkAssumption DEF TypeInv, DataInv, SizeInv, Texts
  <2>5. Len(rest) <= RIO_BUFSIZE
      BY <2>1, <2>4
  <2>6. Len(usrbuf[s] \o <<b>>) < MAXLINE - 1
    <3>1. Len(usrbuf[s] \o <<b>>) # MAXLINE - 1
        BY <2>1 DEF LineFull
    <3>2. QED
        BY <2>1, <2>4, <3>1
  <2>7. SizeInv'
      BY <2>1, <2>2, <2>5, <2>6 DEF TypeInv, DataInv, SizeInv
  <2>8. QED
      BY <2>2, <2>3, <2>7 DEF TypeInv, PlaceInv
<1>4. QED
    BY <1>1, <1>2, <1>3

\* Steps that say a message and otherwise only move from place to place.
LEMMA SayKeepsTypes ==
  ASSUME TypeInv, NEW w \in Writer, NEW message \in Texts, Say(w, message),
         UNCHANGED <<asks, listener, net, reset, rio, usrbuf, lines>>,
         holds' \subseteq Writer, PlaceInv'
  PROVE  TypeInv'
<1>1. todo' \in [Writer -> Texts] /\ said' \in [Reader -> Texts]
    BY SayTypes DEF TypeInv
<1>2. DataInv'
    BY <1>1 DEF TypeInv, DataInv
<1>3. QED
    BY <1>2 DEF TypeInv, SizeInv

LEMMA HangupKeepsTypes ==
  ASSUME TypeInv, NEW w \in Writer, NEW s \in Reader, Hangup(w, s),
         UNCHANGED <<asks, listener, said, rio, usrbuf, lines>>,
         todo' \in [Writer -> Texts], PlaceInv'
  PROVE  TypeInv'
<1>1. /\ holds' = holds \ {w} /\ reset' \in BOOLEAN /\ net' \in [Reader -> Texts]
      /\ \A r \in Reader : Len(net'[r]) <= Len(net[r])
    BY HangupCuts DEF TypeInv
<1>2. DataInv'
    BY <1>1 DEF TypeInv, DataInv
<1>3. \A r \in Reader : Len(net'[r]) <= SendBuffer
  <2>1. SUFFICES ASSUME NEW r \in Reader PROVE Len(net'[r]) <= SendBuffer
      OBVIOUS
  <2>2. /\ Len(net'[r]) \in Nat /\ Len(net[r]) \in Nat /\ Len(net[r]) <= SendBuffer
        /\ SendBuffer \in Nat
      BY <1>1, TalkAssumption, SMTT(40) DEF TypeInv, DataInv, SizeInv, Texts
  <2>3. QED
      BY <1>1, <2>2
<1>4. SizeInv'
    BY <1>3 DEF TypeInv, SizeInv
<1>5. QED
    BY <1>2, <1>4 DEF TypeInv

\* Steps that read a line, and may say something.
LEMMA ReturnsKeepTypes ==
  ASSUME TypeInv, NEW s \in Reader, NEW line, Returns(s, line),
         UNCHANGED <<asks, listener, net, holds, reset>>,
         todo' \in [Writer -> Texts], said' \in [Reader -> Texts], PlaceInv'
  PROVE  TypeInv'
<1>1. /\ rio' \in [Reader -> Texts] /\ usrbuf' \in [Reader -> Texts]
      /\ lines' \in [Reader -> Seq(Texts)]
      /\ \A r \in Reader : Len(rio'[r]) <= RIO_BUFSIZE /\ Len(usrbuf'[r]) < MAXLINE - 1
    BY ReturnsTypes DEF TypeInv
<1>2. DataInv'
    BY <1>1 DEF TypeInv, DataInv
<1>3. SizeInv'
    BY <1>1 DEF TypeInv, SizeInv
<1>4. QED
    BY <1>2, <1>3 DEF TypeInv

LEMMA PreProcessTypes ==
  ASSUME TypeInv, PreProcess
  PROVE  TypeInv'
<1>1. "server" \in Reader /\ "server" \in Writer
    BY DEF Reader, Writer
<1>2. PICK line : Returns("server", line)
    BY DEF PreProcess, RequestLine, RequestHeader
<1>3. UNCHANGED <<asks, listener, client, net, holds, reset>>
    BY DEF PreProcess, RequestLine, RequestHeader
<1>4. /\ server' \in {server, "headers", "refused", "queued"}
      /\ UNCHANGED <<todo, said>> \/ Say("server", Error)
    BY DEF PreProcess, RequestLine, RequestHeader
<1>5. todo' \in [Writer -> Texts] /\ said' \in [Reader -> Texts]
  <2>1. CASE UNCHANGED <<todo, said>>
      BY <2>1 DEF TypeInv, DataInv
  <2>2. CASE Say("server", Error)
      BY <1>1, <2>2, Messages, SayTypes DEF TypeInv
  <2>3. QED
      BY <1>4, <2>1, <2>2
<1>6. PlaceInv'
    BY <1>3, <1>4 DEF TypeInv, PlaceInv
<1>7. QED
    BY <1>1, <1>2, <1>3, <1>5, <1>6, ReturnsKeepTypes

LEMMA ServeTypes ==
  ASSUME TypeInv, Serve \/ CgiExits
  PROVE  TypeInv'
<1>1. {"server", "cgi"} \subseteq Writer /\ "server" \in Reader
    BY DEF Reader, Writer
<1>2. UNCHANGED <<asks, listener, client, rio, usrbuf, lines>>
    BY DEF Serve, ServeRefused, ServeStatic, ServeDynamic, ForkRefused, ForkCgi, ServeFails, CloseConn,
           CgiExits, read
<1>3. server' \in {server, "close", "exit", "refork", "fork", "accept"}
    BY DEF Serve, ServeRefused, ServeStatic, ServeDynamic, ForkRefused, ForkCgi, ServeFails, CloseConn, CgiExits
<1>4. PlaceInv'
    BY <1>2, <1>3 DEF TypeInv, PlaceInv
<1>5. CASE Serve \/ CgiExits
  <2>1. \/ \E w \in {"server", "cgi"}, m \in Texts :
             Say(w, m) /\ UNCHANGED <<net, reset>> /\ holds' \subseteq Writer
        \/ \E w \in {"server", "cgi"} : Hangup(w, "server") /\ UNCHANGED <<todo, said>>
    <3>1. CASE ServeRefused
        BY <3>1, Messages DEF ServeRefused, TypeInv, DataInv
    <3>2. CASE ServeStatic
        BY <3>2, Messages DEF ServeStatic, TypeInv, DataInv
    <3>3. CASE ServeDynamic
        BY <3>3, Messages DEF ServeDynamic, TypeInv, DataInv
    <3>4. CASE ForkCgi
        BY <1>1, <3>4, Messages DEF ForkCgi, TypeInv, DataInv
    <3>7. CASE ForkRefused
        BY <1>1, <3>7, Messages DEF ForkRefused, TypeInv, DataInv
    <3>5. CASE ServeFails \/ CloseConn \/ CgiExits
        BY <3>5 DEF ServeFails, CloseConn, CgiExits
    <3>6. QED
        BY <1>5, <3>1, <3>2, <3>3, <3>4, <3>5, <3>7 DEF Serve
  <2>2. CASE \E w \in {"server", "cgi"}, m \in Texts :
               Say(w, m) /\ UNCHANGED <<net, reset>> /\ holds' \subseteq Writer
      BY <1>1, <1>2, <1>4, <2>2, SayKeepsTypes
  <2>3. CASE \E w \in {"server", "cgi"} : Hangup(w, "server") /\ UNCHANGED <<todo, said>>
    <3>1. todo' \in [Writer -> Texts]
        BY <2>3 DEF TypeInv, DataInv
    <3>2. QED
        BY <1>1, <1>2, <1>4, <2>3, <3>1, HangupKeepsTypes
  <2>4. QED
      BY <2>1, <2>2, <2>3
<1>6. QED
    BY <1>5 DEF Serve

LEMMA ListenerTypes ==
  ASSUME TypeInv, Bind \/ Listen \/ Accept
  PROVE  TypeInv'
<1>1. "server" \in Writer /\ "server" \in Reader
    BY DEF Reader, Writer
<1>2. CASE Bind \/ Listen
    BY <1>2 DEF Bind, Listen, talk, read, TypeInv, DataInv, PlaceInv, SizeInv
<1>3. CASE Accept
  <2>1. UNCHANGED <<asks, listener, client, todo, said, rio, usrbuf, lines>>
        /\ server' \in {"line", "exit"}
      BY <1>3 DEF Accept, read
  <2>2. PlaceInv' /\ todo' \in [Writer -> Texts]
      BY <2>1 DEF TypeInv, PlaceInv, DataInv
  <2>3. CASE UNCHANGED <<net, holds, reset>>
      BY <2>1, <2>2, <2>3 DEF TypeInv, DataInv, SizeInv
  <2>4. CASE Hangup("server", "server")
      BY <1>1, <2>1, <2>2, <2>4, HangupKeepsTypes
  <2>5. QED
      BY <1>3, <2>3, <2>4 DEF Accept
<1>4. QED
    BY <1>2, <1>3

LEMMA ClientTypes ==
  ASSUME TypeInv, Connect \/ PrintHeader \/ PrintBody \/ CloseClient
  PROVE  TypeInv'
<1>1. "client" \in Writer /\ "client" \in Reader /\ {"client", "server"} \subseteq Writer
    BY DEF Reader, Writer
<1>2. CASE Connect
  <2>1. UNCHANGED <<asks, listener, server, net, reset, rio, usrbuf, lines>>
        /\ client' \in {"header", "failed"}
      BY <1>2 DEF Connect, read
  <2>2. PlaceInv'
      BY <2>1 DEF TypeInv, PlaceInv
  <2>3. CASE Say("client", asks.bytes) /\ holds' = {"client", "server"}
    <3>1. asks.bytes \in Texts
        BY Messages DEF TypeInv, DataInv
    <3>2. QED
        BY <1>1, <2>1, <2>2, <2>3, <3>1, SayKeepsTypes
  <2>4. CASE UNCHANGED <<holds, todo, said>>
      BY <2>1, <2>2, <2>4 DEF TypeInv, DataInv, SizeInv
  <2>5. QED
      BY <1>2, <2>3, <2>4 DEF Connect
<1>3. CASE PrintHeader \/ PrintBody
  <2>1. PICK line : Returns("client", line)
      BY <1>3 DEF PrintHeader, PrintBody
  <2>2. /\ UNCHANGED <<asks, listener, server, net, holds, reset, todo, said>>
        /\ client' \in {"header", "body", "close"}
      BY <1>3 DEF PrintHeader, PrintBody, talk
  <2>3. PlaceInv' /\ todo' \in [Writer -> Texts] /\ said' \in [Reader -> Texts]
      BY <2>2 DEF TypeInv, PlaceInv, DataInv
  <2>4. QED
      BY <1>1, <2>1, <2>2, <2>3, ReturnsKeepTypes
<1>4. CASE CloseClient
  <2>1. /\ UNCHANGED <<asks, listener, server, said, rio, usrbuf, lines>> /\ client' = "done"
        /\ todo' = [todo EXCEPT !["client"] = <<>>] /\ Hangup("client", "client")
      BY <1>4 DEF CloseClient, read
  <2>2. <<>> \in Texts
      BY DEF Texts
  <2>3. PlaceInv' /\ todo' \in [Writer -> Texts]
      BY <2>1, <2>2 DEF TypeInv, PlaceInv, DataInv
  <2>4. QED
      BY <1>1, <2>1, <2>3, HangupKeepsTypes
<1>5. QED
    BY <1>2, <1>3, <1>4

\* A step of the system is one of these.
LEMMA Steps ==
  ASSUME Next
  PROVE  \/ \E w \in Writer : WriteSome(w) \/ WriteKills(w)
         \/ \E s \in Reader : Refill(s) \/ ReadFails(s) \/ TakeByte(s)
         \/ PreProcess \/ Serve \/ CgiExits
         \/ Bind \/ Listen \/ Accept
         \/ Connect \/ PrintHeader \/ PrintBody \/ CloseClient
BY DEF Next, ServerStep, ClientStep, CgiStep, Rio, Reader, Writer

LEMMA TypeInvStep ==
  ASSUME TypeInv, [Next]_vars
  PROVE  TypeInv'
<1>1. CASE UNCHANGED vars
    BY <1>1 DEF vars, talk, read, TypeInv, DataInv, PlaceInv, SizeInv
<1>2. CASE Next
    BY <1>2, Steps, WriteTypes, ReadTypes, PreProcessTypes, ServeTypes, ListenerTypes, ClientTypes
<1>3. QED
    BY <1>1, <1>2

LEMMA TypeInvInit ==
  ASSUME Init
  PROVE  TypeInv
<1>1. <<>> \in Texts /\ <<>> \in Seq(Texts) /\ Len(<<>>) = 0
    BY DEF Texts
<1>2. DataInv
    BY <1>1 DEF Init, DataInv
<1>3. PlaceInv
    BY DEF Init, PlaceInv
<1>4. SizeInv
    BY <1>1, TalkAssumption DEF Init, SizeInv
<1>5. QED
    BY <1>2, <1>3, <1>4 DEF TypeInv

\* A stream never holds more than the kernel's buffer, a rio_t not more than
\* rio_buf, and a line that is being read leaves room for its last byte and NUL.
THEOREM TypeCorrect == Spec => []TypeOK
<1>1. TypeInv => TypeOK
    BY DEF TypeInv, DataInv, PlaceInv, SizeInv, TypeOK
<1>2. QED
    BY <1>1, TypeInvInit, TypeInvStep, PTL DEF Spec

-----------------------------------------------------------------------------
(* Who has the connection open, and who has something to write.            *)

Serving == {"line", "headers", "refused", "refork", "queued", "fork", "close"}

OpenInv ==
  /\ listener = "bound" => server = "down"
  /\ "client" \in holds <=> client \in {"header", "body", "close"}
  /\ server \in Serving => "server" \in holds

TodoInv ==
  /\ server \in {"down", "accept", "line", "headers", "queued"} => todo["server"] = <<>>
  /\ todo["cgi"] # <<>> => "cgi" \in holds
  /\ "cgi" \in holds => /\ todo["server"] = <<>>
                        /\ server \in {"close", "accept", "killed", "exit"}
                        /\ server = "accept" => "server" \notin holds

StartInv ==
  client = "connect" =>
    /\ holds = {} /\ ~reset
    /\ \A w \in Writer : todo[w] = <<>>
    /\ \A s \in Reader : /\ said[s] = <<>> /\ lines[s] = <<>> /\ usrbuf[s] = <<>>
                         /\ rio[s] = <<>> /\ net[s] = <<>>

HoldsInv == OpenInv /\ TodoInv /\ StartInv

\* Before the connection only the server moves, and only to its accept.
LEMMA BeforeConnect ==
  ASSUME TypeInv, HoldsInv, client = "connect", Next
  PROVE  Bind \/ Listen \/ Connect
<1>1. /\ holds = {} /\ server \notin Serving
      /\ \A w \in Writer : todo[w] = <<>>
    BY DEF HoldsInv, StartInv, OpenInv
<1>2. \A w \in Writer : ~(WriteSome(w) \/ WriteKills(w))
    BY <1>1 DEF WriteSome, WriteKills
<1>3. \A s \in Reader : ~InLine(s)
    BY <1>1 DEF InLine, Serving, Reader
<1>4. \A s \in Reader : ~(Refill(s) \/ ReadFails(s) \/ TakeByte(s))
    BY <1>3 DEF Refill, ReadFails, TakeByte
<1>5. ~PreProcess /\ ~Serve /\ ~CgiExits /\ ~Accept
    BY <1>1 DEF PreProcess, RequestLine, RequestHeader, Serving, Accept, CgiExits, Serve,
                ServeRefused, ServeStatic, ServeDynamic, ForkRefused, ForkCgi, ServeFails, CloseConn
<1>6. ~PrintHeader /\ ~PrintBody /\ ~CloseClient
    BY DEF PrintHeader, PrintBody, CloseClient
<1>7. QED
    BY <1>2, <1>4, <1>5, <1>6, Steps

LEMMA StartInvStep ==
  ASSUME TypeInv, HoldsInv, Next
  PROVE  StartInv'
<1>1. CASE client = "connect"
  <2>1. CASE Bind \/ Listen
      BY <2>1 DEF Bind, Listen, talk, read, HoldsInv, StartInv
  <2>2. CASE Connect
      BY <1>1, <2>2 DEF Connect, read, HoldsInv, StartInv
  <2>3. QED
      BY <1>1, <2>1, <2>2, BeforeConnect
<1>2. CASE client # "connect"
  <2>1. client' # "connect"
    <3>1. client' \in {client, "failed", "header", "body", "close", "done"}
      <4>1. ASSUME NEW w \in Writer, WriteSome(w) \/ WriteKills(w)
            PROVE  client' \in {client, "failed"}
          BY <4>1 DEF WriteSome, WriteKills
      <4>2. ASSUME NEW s \in Reader, Refill(s) \/ ReadFails(s) \/ TakeByte(s)
            PROVE  client' \in {client, "failed"}
          BY <4>2 DEF Refill, ReadFails, TakeByte
      <4>3. CASE PreProcess \/ Bind \/ Listen \/ Accept
          BY <4>3 DEF PreProcess, RequestLine, RequestHeader, Bind, Listen, Accept
      <4>4. CASE Serve \/ CgiExits
          BY <4>4 DEF Serve, ServeRefused, ServeStatic, ServeDynamic, ForkRefused, ForkCgi, ServeFails,
                      CloseConn, CgiExits
      <4>5. CASE Connect \/ PrintHeader \/ PrintBody \/ CloseClient
          BY <4>5 DEF Connect, PrintHeader, PrintBody, CloseClient
      <4>6. QED
          BY <4>1, <4>2, <4>3, <4>4, <4>5, Steps
    <3>2. QED
        BY <1>2, <3>1
  <2>2. QED
      BY <2>1 DEF StartInv
<1>3. QED
    BY <1>1, <1>2

LEMMA RioHolds ==
  ASSUME TypeInv, HoldsInv
  PROVE  /\ \A w \in Writer : WriteSome(w) \/ WriteKills(w) => OpenInv' /\ TodoInv'
         /\ \A s \in Reader : Refill(s) \/ ReadFails(s) \/ TakeByte(s) => OpenInv' /\ TodoInv'
<1> USE DEF TypeInv, PlaceInv, HoldsInv
<1>0. holds \subseteq {"client", "server", "cgi"} /\ todo \in [{"client", "server", "cgi"} -> Texts]
    BY DEF DataInv, Writer, Reader
<1>1. ASSUME NEW w \in Writer, WriteSome(w)
      PROVE  OpenInv' /\ TodoInv'
  <2>1. UNCHANGED <<listener, client, server, holds>>
      BY <1>1 DEF WriteSome
  <2>2. todo[w] # <<>> /\ \A v \in Writer : todo'[v] # todo[v] => v = w
      BY <1>1 DEF WriteSome, DataInv
  <2>3. \A v \in Writer : todo[v] = <<>> => todo'[v] = <<>>
      BY <2>2
  <2>4. OpenInv'
      BY <2>1 DEF OpenInv, Serving
  <2>5. TodoInv'
      BY <2>1, <2>3 DEF TodoInv, Writer, Reader
  <2>6. QED
      BY <2>4, <2>5
<1>2. ASSUME NEW w \in Writer, WriteKills(w)
      PROVE  OpenInv' /\ TodoInv'
  <2>1. /\ todo' = [todo EXCEPT ![w] = <<>>] /\ holds' = holds \ {w} /\ listener' = listener
        /\ client' = (IF w = "client" THEN "failed" ELSE client)
        /\ server' = (IF w = "server" THEN "killed" ELSE server)
        /\ todo[w] # <<>> /\ (w = "server" => server # "down") /\ w \in {"client", "server", "cgi"}
      BY <1>2 DEF WriteKills, Up, Writer, Reader
  <2>2. OpenInv'
      BY <1>0, <2>1 DEF OpenInv, Serving
  <2>3. TodoInv'
      BY <1>0, <2>1 DEF TodoInv
  <2>4. QED
      BY <2>2, <2>3
<1>3. ASSUME NEW s \in Reader, Refill(s) \/ TakeByte(s)
      PROVE  OpenInv' /\ TodoInv'
    BY <1>3 DEF Refill, TakeByte, talk, OpenInv, TodoInv, Serving
<1>4. ASSUME NEW s \in Reader, ReadFails(s)
      PROVE  OpenInv' /\ TodoInv'
  <2>1. /\ UNCHANGED <<listener, todo>> /\ holds' = holds \ {s} /\ s \in {"client", "server"}
        /\ client' = (IF s = "client" THEN "failed" ELSE client)
        /\ server' = (IF s = "server" THEN "exit" ELSE server)
        /\ (s = "server" => server \in {"line", "headers"})
      BY <1>4 DEF ReadFails, InLine, Reader
  <2>2. OpenInv'
      BY <1>0, <2>1 DEF OpenInv, Serving
  <2>3. TodoInv'
      BY <1>0, <2>1 DEF TodoInv
  <2>4. QED
      BY <2>2, <2>3
<1>5. QED
    BY <1>1, <1>2, <1>3, <1>4

\* What Say, Hangup or neither does to the messages and the open ends.
LEMMA EndsMove ==
  ASSUME TypeInv
  PROVE  /\ \A m : Say("server", m) => todo' = [todo EXCEPT !["server"] = m]
         /\ \A m : Say("cgi", m) => todo' = [todo EXCEPT !["cgi"] = m]
         /\ \A m : Say("client", m) => todo' = [todo EXCEPT !["client"] = m]
         /\ \A w, s : Hangup(w, s) => holds' = holds \ {w}
BY DEF Say, Hangup

LEMMA ServerHolds ==
  ASSUME TypeInv, HoldsInv, PreProcess \/ Serve \/ CgiExits \/ Bind \/ Listen \/ Accept
  PROVE  OpenInv' /\ TodoInv'
<1> USE DEF TypeInv, PlaceInv, HoldsInv
<1>0. holds \subseteq {"client", "server", "cgi"} /\ todo \in [{"client", "server", "cgi"} -> Texts]
    BY DEF DataInv, Writer, Reader
<1>1. CASE PreProcess
  <2>1. /\ UNCHANGED <<listener, client, holds>> /\ server \in {"line", "headers"}
        /\ server' \in {"headers", "refused", "queued"}
        /\ todo' # todo => server' = "refused"
        /\ todo' = todo \/ Say("server", Error)
      BY <1>1 DEF PreProcess, RequestLine, RequestHeader
  <2>2. todo' = todo \/ todo' = [todo EXCEPT !["server"] = Error]
      BY <2>1, EndsMove
  <2>3. QED
      BY <1>0, <2>1, <2>2 DEF OpenInv, TodoInv, Serving
<1>2. CASE ServeRefused \/ ServeStatic \/ ServeDynamic
  <2>1. /\ UNCHANGED <<listener, client>> /\ server \in {"refused", "queued"}
        /\ \/ holds' = holds /\ server' \in {"close", "refork", "fork"} /\ \E m : Say("server", m)
           \/ server' = "exit" /\ todo' = todo /\ Hangup("server", "server")
      BY <1>2 DEF ServeRefused, ServeStatic, ServeDynamic
  <2>2. \/ holds' = holds /\ server' \in {"close", "refork", "fork"}
           /\ \E m : todo' = [todo EXCEPT !["server"] = m]
        \/ server' = "exit" /\ todo' = todo /\ holds' = holds \ {"server"}
      BY <2>1, EndsMove
  <2>3. QED
      BY <1>0, <2>1, <2>2 DEF OpenInv, TodoInv, Serving
<1>3. CASE ForkRefused \/ ForkCgi
  <2>1. /\ UNCHANGED <<listener, client>> /\ server \in {"refork", "fork"}
        /\ todo["server"] = <<>> /\ server' = "close" /\ holds' = holds \cup {"cgi"}
        /\ \E m : todo' = [todo EXCEPT !["cgi"] = m]
      BY <1>3, EndsMove DEF ForkRefused, ForkCgi, Quiet
  <2>2. QED
      BY <1>0, <2>1 DEF OpenInv, TodoInv, Serving
<1>4. CASE ServeFails \/ CloseConn
  <2>1. /\ UNCHANGED <<listener, client, todo>> /\ holds' = holds \ {"server"}
        /\ \/ server \in {"queued", "refork", "fork"} /\ server' = "exit"
           \/ server = "close" /\ todo["server"] = <<>> /\ server' = "accept"
      BY <1>4, EndsMove DEF ServeFails, CloseConn, Quiet
  <2>2. QED
      BY <1>0, <2>1 DEF OpenInv, TodoInv, Serving
<1>5. CASE CgiExits
  <2>1. UNCHANGED <<listener, client, server, todo>> /\ holds' = holds \ {"cgi"} /\ todo["cgi"] = <<>>
      BY <1>5, EndsMove DEF CgiExits, Quiet
  <2>2. QED
      BY <1>0, <2>1 DEF OpenInv, TodoInv, Serving
<1>6. CASE Bind \/ Listen
    BY <1>6 DEF Bind, Listen, talk, OpenInv, TodoInv, Serving
<1>7. CASE Accept
  <2>1. /\ UNCHANGED <<listener, client, todo>> /\ server = "accept" /\ "server" \in holds
        /\ \/ server' = "line" /\ holds' = holds
           \/ server' = "exit" /\ holds' = holds \ {"server"}
      BY <1>7, EndsMove DEF Accept
  <2>2. QED
      BY <1>0, <2>1 DEF OpenInv, TodoInv, Serving
<1>8. QED
    BY <1>1, <1>2, <1>3, <1>4, <1>5, <1>6, <1>7 DEF Serve

LEMMA ClientHolds ==
  ASSUME TypeInv, HoldsInv, Connect \/ PrintHeader \/ PrintBody \/ CloseClient
  PROVE  OpenInv' /\ TodoInv'
<1> USE DEF TypeInv, PlaceInv, HoldsInv
<1>0. holds \subseteq {"client", "server", "cgi"} /\ todo \in [{"client", "server", "cgi"} -> Texts]
    BY DEF DataInv, Writer, Reader
<1>1. CASE Connect
  <2>1. /\ UNCHANGED <<listener, server>> /\ client = "connect" /\ holds = {}
        /\ \/ client' = "header" /\ holds' = {"client", "server"}
              /\ todo' = [todo EXCEPT !["client"] = asks.bytes]
           \/ client' = "failed" /\ UNCHANGED <<holds, todo>>
      BY <1>1, EndsMove DEF Connect, StartInv
  <2>2. todo["cgi"] = <<>>
      BY <2>1 DEF TodoInv
  <2>3. QED
      BY <1>0, <2>1, <2>2 DEF OpenInv, TodoInv, Serving
<1>2. CASE PrintHeader \/ PrintBody
    BY <1>2 DEF PrintHeader, PrintBody, talk, OpenInv, TodoInv, Serving
<1>3. CASE CloseClient
  <2>1. /\ UNCHANGED <<listener, server>> /\ client' = "done" /\ holds' = holds \ {"client"}
        /\ todo' = [todo EXCEPT !["client"] = <<>>]
      BY <1>3, EndsMove DEF CloseClient
  <2>2. QED
      BY <1>0, <2>1 DEF OpenInv, TodoInv, Serving
<1>4. QED
    BY <1>1, <1>2, <1>3

LEMMA HoldsInvStep ==
  ASSUME TypeInv, HoldsInv, [Next]_vars
  PROVE  HoldsInv'
<1>1. CASE UNCHANGED vars
    BY <1>1 DEF vars, talk, read, HoldsInv, OpenInv, TodoInv, StartInv
<1>2. CASE Next
  <2>1. OpenInv' /\ TodoInv'
      BY <1>2, Steps, RioHolds, ServerHolds, ClientHolds
  <2>2. QED
      BY <1>2, <2>1, StartInvStep DEF HoldsInv
<1>3. QED
    BY <1>1, <1>2

LEMMA HoldsInvInit ==
  ASSUME Init
  PROVE  HoldsInv
BY DEF Init, HoldsInv, OpenInv, TodoInv, StartInv, Serving, Writer, Reader

-----------------------------------------------------------------------------
(* What was said is what was heard and what is still to be written.        *)

Stream(s) ==
  \E rest \in Texts : /\ said[s] = Heard(s) \o rest
                      /\ ~reset /\ "client" \in holds => rest = Pending(s)
StreamInv == \A s \in Reader : Stream(s)

LEMMA JoinTexts ==
  ASSUME NEW a \in Texts, NEW b \in Texts
  PROVE  a \o b \in Texts /\ a \o <<>> = a /\ <<>> \o a = a /\ <<>> \in Texts
BY ConcatProperties, ConcatEmptySeq DEF Texts

LEMMA JoinInAnyOrder ==
  ASSUME NEW a \in Texts, NEW b \in Texts, NEW c \in Texts
  PROVE  (a \o b) \o c = a \o (b \o c)
BY ConcatAssociative DEF Texts

LEMMA HeardTypes ==
  ASSUME DataInv, NEW s \in Reader
  PROVE  /\ Delivered(s) \in Texts /\ Heard(s) \in Texts /\ Pending(s) \in Texts
         /\ usrbuf[s] \in Texts /\ rio[s] \in Texts /\ net[s] \in Texts
<1>1. usrbuf[s] \in Texts /\ rio[s] \in Texts /\ net[s] \in Texts
    BY DEF DataInv
<1>2. Delivered(s) \in Texts
  <2>1. lines[s] \in Seq(Seq(Byte)) /\ <<>> \in Seq(Byte)
      BY DEF DataInv, Texts
  <2>2. QED
      BY <2>1, FlattenAppend DEF Delivered, Texts
<1>3. Heard(s) \in Texts
  <2>1. Delivered(s) \o usrbuf[s] \in Texts
      BY <1>1, <1>2, JoinTexts
  <2>2. Delivered(s) \o usrbuf[s] \o rio[s] \in Texts
      BY <1>1, <2>1, JoinTexts
  <2>3. QED
      BY <1>1, <2>2, JoinTexts DEF Heard
<1>4. Pending(s) \in Texts
  <2>1. todo["client"] \in Texts /\ todo["server"] \in Texts /\ todo["cgi"] \in Texts
      BY DEF DataInv, Writer, Reader
  <2>2. QED
      BY <2>1, JoinTexts DEF Pending
<1>5. QED
    BY <1>1, <1>2, <1>3, <1>4

LEMMA SameHeard ==
  ASSUME NEW s \in Reader, lines'[s] = lines[s], usrbuf'[s] = usrbuf[s], rio'[s] = rio[s],
         net'[s] = net[s]
  PROVE  Heard(s)' = Heard(s) /\ Delivered(s)' = Delivered(s)
BY DEF Heard, Delivered

\* Moving bytes from the stream to the rio_t, to the line, to the caller
\* changes nothing of what was heard.
LEMMA RefillHeard ==
  ASSUME DataInv, NEW s \in Reader, Refill(s), NEW r \in Reader
  PROVE  Heard(r)' = Heard(r)
<1>1. PICK got \in Texts, left \in Texts :
        /\ net[s] = got \o left /\ rio' = [rio EXCEPT ![s] = got]
        /\ net' = [net EXCEPT ![s] = left]
    BY RefillTakesSome
<1>2. UNCHANGED <<usrbuf, lines>> /\ rio[s] = <<>>
    BY DEF Refill
<1>3. CASE r # s
    BY <1>1, <1>2, <1>3, SameHeard DEF DataInv
<1>4. CASE r = s
  <2>1. rio'[r] = got /\ net'[r] = left
      BY <1>1, <1>4 DEF DataInv
  <2>2. PICK line \in Texts : line = Delivered(r) \o usrbuf[r]
      BY HeardTypes, JoinTexts
  <2>3. Heard(r) = (line \o <<>>) \o (got \o left)
      BY <1>1, <1>2, <1>4, <2>2 DEF Heard
  <2>4. Heard(r)' = (line \o got) \o left
      BY <1>2, <2>1, <2>2 DEF Heard, Delivered
  <2>5. line \o (got \o left) = (line \o got) \o left
      BY JoinInAnyOrder
  <2>6. line \o <<>> = line
      BY JoinTexts
  <2>7. QED
      BY <2>3, <2>4, <2>5, <2>6
<1>5. QED
    BY <1>3, <1>4

LEMMA TakeByteHeard ==
  ASSUME DataInv, NEW s \in Reader, TakeByte(s), NEW r \in Reader
  PROVE  Heard(r)' = Heard(r)
<1>1. PICK b \in Byte, rest \in Texts :
        /\ rio[s] = <<b>> \o rest /\ rio' = [rio EXCEPT ![s] = rest]
        /\ usrbuf' = [usrbuf EXCEPT ![s] = usrbuf[s] \o <<b>>] /\ <<b>> \in Texts
    BY TakeByteMoves
<1>2. UNCHANGED <<net, lines>>
    BY DEF TakeByte, talk
<1>3. CASE r # s
    BY <1>1, <1>2, <1>3, SameHeard DEF DataInv
<1>4. CASE r = s
  <2>1. rio'[r] = rest /\ usrbuf'[r] = usrbuf[r] \o <<b>> /\ rio[r] = <<b>> \o rest
      BY <1>1, <1>4 DEF DataInv
  <2>2. PICK one \in Texts : one = <<b>>
      BY <1>1
  <2>3. PICK done \in Texts, begun \in Texts : done = Delivered(r) /\ begun = usrbuf[r]
      BY HeardTypes
  <2>4. PICK line \in Texts : line = done \o begun
      BY JoinTexts
  <2>5. done \o (begun \o one) = line \o one
    <3>1. done \o (begun \o one) = (done \o begun) \o one
        BY JoinInAnyOrder, ZenonT(90)
    <3>2. QED
        BY <2>4, <3>1
  <2>6. line \o (one \o rest) = (line \o one) \o rest
      BY JoinInAnyOrder, ZenonT(90)
  <2>7. Heard(r) = line \o (one \o rest) \o net[r]
      BY <2>1, <2>2, <2>3, <2>4 DEF Heard
  <2>8. Heard(r)' = (line \o one) \o rest \o net[r]
      BY <1>2, <2>1, <2>2, <2>3, <2>5 DEF Heard, Delivered
  <2>9. QED
      BY <2>6, <2>7, <2>8
<1>5. QED
    BY <1>3, <1>4

\* What Returns adds to what s was given.
LEMMA ReturnsDelivers ==
  ASSUME DataInv, NEW s \in Reader, NEW line, Returns(s, line)
  PROVE  /\ Delivered(s)' = Delivered(s) \o line
         /\ \A r \in Reader : r # s => /\ Delivered(r)' = Delivered(r) /\ usrbuf'[r] = usrbuf[r]
                                       /\ rio'[r] = rio[r] /\ lines'[r] = lines[r]
         /\ usrbuf'[s] = <<>> /\ line \in Texts
<1>1. /\ line \in Texts /\ usrbuf' = [usrbuf EXCEPT ![s] = <<>>]
      /\ lines' = IF line = <<>> THEN lines ELSE [lines EXCEPT ![s] = Append(@, line)]
    BY ReturnsLine
<1>2. \A r \in Reader : r # s => rio'[r] = rio[r]
  <2>1. rio' = rio \/ \E rest \in Texts : rio' = [rio EXCEPT ![s] = rest]
      BY ReturnsLine
  <2>2. QED
      BY <2>1 DEF DataInv
<1>3. Delivered(s)' = Delivered(s) \o line
  <2>1. CASE line = <<>>
      BY <1>1, <2>1, HeardTypes, JoinTexts DEF Delivered
  <2>2. CASE line # <<>>
    <3>1. lines'[s] = Append(lines[s], line)
        BY <1>1, <2>2 DEF DataInv
    <3>2. lines[s] \in Seq(Seq(Byte)) /\ line \in Seq(Byte)
        BY <1>1 DEF DataInv, Texts
    <3>3. QED
        BY <3>1, <3>2, FlattenAppend DEF Delivered
  <2>3. QED
      BY <2>1, <2>2
<1>4. \A r \in Reader : r # s => usrbuf'[r] = usrbuf[r] /\ lines'[r] = lines[r]
    BY <1>1 DEF DataInv
<1>5. \A r \in Reader : r # s => Delivered(r)' = Delivered(r)
    BY <1>4 DEF Delivered
<1>6. usrbuf'[s] = <<>>
    BY <1>1 DEF DataInv
<1>7. QED
    BY <1>1, <1>2, <1>3, <1>4, <1>5, <1>6

LEMMA ReturnsHeard ==
  ASSUME DataInv, NEW s \in Reader, NEW line, Returns(s, line), net' = net, NEW r \in Reader
  PROVE  Heard(r)' = Heard(r)
<1>1. CASE r # s
    BY <1>1, ReturnsDelivers DEF Heard
<1>2. CASE r = s
  <2>1. Delivered(r)' = Delivered(r) \o line /\ usrbuf'[r] = <<>> /\ line \in Texts
      BY <1>2, ReturnsDelivers
  <2>2. PICK whole \in Texts : whole = Delivered(r) \o line
      BY <2>1, HeardTypes, JoinTexts
  <2>3. Heard(r)' = whole \o rio'[r] \o net[r]
      BY <2>1, <2>2, JoinTexts DEF Heard
  <2>4. CASE \E b \in Byte, rest \in Texts :
                 /\ rio[s] = <<b>> \o rest /\ rio' = [rio EXCEPT ![s] = rest]
                 /\ line = usrbuf[s] \o <<b>> /\ <<b>> \in Texts
    <3>1. PICK b \in Byte, rest \in Texts :
                 /\ rio[r] = <<b>> \o rest /\ rio'[r] = rest
                 /\ line = usrbuf[r] \o <<b>> /\ <<b>> \in Texts
        BY <1>2, <2>4 DEF DataInv
    <3>2. PICK one \in Texts : one = <<b>>
        BY <3>1
    <3>3. PICK done \in Texts, filled \in Texts : done = Delivered(r) /\ filled = usrbuf[r]
        BY HeardTypes
    <3>4. PICK begun \in Texts : begun = done \o filled
        BY JoinTexts
    <3>5. whole = begun \o one
      <4>1. done \o (filled \o one) = (done \o filled) \o one
          BY JoinInAnyOrder, ZenonT(90)
      <4>2. QED
          BY <2>2, <3>1, <3>2, <3>3, <3>4, <4>1
    <3>6. begun \o (one \o rest) = (begun \o one) \o rest
        BY JoinInAnyOrder, ZenonT(90)
    <3>7. Heard(r) = begun \o (one \o rest) \o net[r]
        BY <3>1, <3>2, <3>3, <3>4 DEF Heard
    <3>8. QED
        BY <2>3, <3>1, <3>5, <3>6, <3>7
  <2>5. CASE line = usrbuf[s] /\ rio' = rio
      BY <1>2, <2>2, <2>3, <2>5 DEF Heard
  <2>6. \/ \E b \in Byte, rest \in Texts :
              /\ rio[s] = <<b>> \o rest /\ rio' = [rio EXCEPT ![s] = rest]
              /\ line = usrbuf[s] \o <<b>> /\ <<b>> \in Texts
        \/ line = usrbuf[s] /\ rio' = rio
    <3>1. \/ \E b \in Byte, rest \in Texts :
                /\ rio[s] = <<b>> \o rest /\ rio' = [rio EXCEPT ![s] = rest]
                /\ line = usrbuf[s] \o <<b>> /\ <<b>> \in Texts /\ LineFull(line) /\ line # <<>>
                /\ Len(rest) <= Len(rio[s]) /\ Len(line) = Len(usrbuf[s]) + 1
          \/ AtEOF(s) /\ line = usrbuf[s] /\ rio' = rio
        BY ReturnsLine
    <3>2. QED
        BY <3>1
  <2>7. QED
      BY <2>4, <2>5, <2>6
<1>3. QED
    BY <1>1, <1>2

\* A step that moves no message, or one after which nothing need arrive.
LEMMA StreamKept ==
  ASSUME NEW s \in Reader, Stream(s), Heard(s)' = Heard(s), said'[s] = said[s],
         ~reset' /\ "client" \in holds' =>
           ~reset /\ "client" \in holds /\ Pending(s)' = Pending(s)
  PROVE  Stream(s)'
<1>1. PICK rest \in Texts : /\ said[s] = Heard(s) \o rest
                            /\ ~reset /\ "client" \in holds => rest = Pending(s)
    BY DEF Stream
<1>2. said'[s] = Heard(s)' \o rest /\ (~reset' /\ "client" \in holds' => rest = Pending(s)')
    BY <1>1
<1>3. QED
    BY <1>2 DEF Stream

\* A message is begun when nothing else is on its way out.
LEMMA StreamGrows ==
  ASSUME DataInv, NEW s \in Reader, Stream(s), Heard(s)' = Heard(s), NEW m \in Texts,
         said'[s] = said[s] \o m, Pending(s) = <<>>, Pending(s)' = m,
         UNCHANGED reset, "client" \in holds' => "client" \in holds
  PROVE  Stream(s)'
<1>1. PICK rest \in Texts : /\ said[s] = Heard(s) \o rest
                            /\ ~reset /\ "client" \in holds => rest = Pending(s)
    BY DEF Stream
<1>2. rest \o m \in Texts /\ (Heard(s) \o rest) \o m = Heard(s) \o (rest \o m) /\ <<>> \o m = m
  <2>1. Heard(s) \in Texts
      BY HeardTypes
  <2>2. rest \o m \in Texts /\ <<>> \o m = m
      BY JoinTexts
  <2>3. (Heard(s) \o rest) \o m = Heard(s) \o (rest \o m)
      BY <2>1, JoinInAnyOrder, ZenonT(90)
  <2>4. QED
      BY <2>2, <2>3
<1>3. said'[s] = Heard(s)' \o (rest \o m)
    BY <1>1, <1>2
<1>4. ~reset' /\ "client" \in holds' => rest \o m = Pending(s)'
    BY <1>1, <1>2
<1>5. QED
    BY <1>2, <1>3, <1>4 DEF Stream

\* A hangup may cut what is under way, with a reset.
LEMMA StreamCut ==
  ASSUME DataInv, StreamInv, NEW w \in Writer, NEW t \in Reader, Hangup(w, t),
         UNCHANGED <<said, rio, usrbuf, lines>>,
         \A s \in Reader : ~reset' /\ "client" \in holds' => Pending(s)' = Pending(s)
  PROVE  StreamInv'
<1>1. SUFFICES ASSUME NEW s \in Reader PROVE Stream(s)'
    BY DEF StreamInv
<1>2. /\ holds' = holds \ {w} /\ (reset => reset') /\ net' \in [Reader -> Texts]
      /\ reset' \in BOOLEAN /\ (~reset' => net' = net) /\ \E cut \in Texts : net[s] = net'[s] \o cut
    BY HangupCuts
<1>3. Stream(s)
    BY DEF StreamInv
<1>4. CASE ~reset'
  <2>1. Heard(s)' = Heard(s)
      BY <1>2, <1>4 DEF Heard, Delivered
  <2>2. QED
      BY <1>2, <1>3, <1>4, <2>1, StreamKept
<1>5. CASE reset'
  <2>1. PICK cut \in Texts : net[s] = net'[s] \o cut
      BY <1>2
  <2>2. PICK taken \in Texts : taken = Delivered(s) \o usrbuf[s] \o rio[s]
      BY HeardTypes, JoinTexts
  <2>3. PICK under \in Texts : under = net'[s]
      BY <1>2
  <2>4. PICK rest \in Texts : said[s] = Heard(s) \o rest
      BY <1>3 DEF Stream
  <2>5. Heard(s) = taken \o (under \o cut) /\ Heard(s)' = taken \o under
      BY <2>1, <2>2, <2>3 DEF Heard, Delivered
  <2>6. taken \o (under \o cut) = (taken \o under) \o cut /\ taken \o under \in Texts
        /\ cut \o rest \in Texts
    <3>1. taken \o (under \o cut) = (taken \o under) \o cut
        BY JoinInAnyOrder
    <3>2. taken \o under \in Texts /\ cut \o rest \in Texts
        BY JoinTexts
    <3>3. QED
        BY <3>1, <3>2
  <2>7. ((taken \o under) \o cut) \o rest = (taken \o under) \o (cut \o rest)
      BY <2>6, JoinInAnyOrder, ZenonT(90)
  <2>8. said'[s] = Heard(s)' \o (cut \o rest)
      BY <2>4, <2>5, <2>6, <2>7
  <2>9. QED
      BY <1>5, <2>6, <2>8 DEF Stream
<1>6. QED
    BY <1>2, <1>4, <1>5

\* What write takes was at the head of what is still to be written.
LEMMA WritePending ==
  ASSUME TypeInv, HoldsInv, NEW w \in Writer, todo[w] # <<>>, NEW sent \in Texts, NEW left \in Texts,
         todo[w] = sent \o left, todo' = [todo EXCEPT ![w] = left], NEW s \in Reader
  PROVE  Pending(s) = (IF s = Other(w) THEN sent \o Pending(s)' ELSE Pending(s)')
<1>1. /\ todo["client"] \in Texts /\ todo["server"] \in Texts /\ todo["cgi"] \in Texts
      /\ todo'["client"] = (IF w = "client" THEN left ELSE todo["client"])
      /\ todo'["server"] = (IF w = "server" THEN left ELSE todo["server"])
      /\ todo'["cgi"] = (IF w = "cgi" THEN left ELSE todo["cgi"])
    BY DEF TypeInv, DataInv, Writer, Reader
<1>2. w \in {"client", "server", "cgi"} /\ s \in {"client", "server"}
    BY DEF Writer, Reader
<1>3. CASE w = "client"
    BY <1>1, <1>2, <1>3 DEF Pending, Other
<1>4. CASE w = "server"
  <2>1. PICK other \in Texts : other = todo["cgi"]
      BY <1>1
  <2>2. (sent \o left) \o other = sent \o (left \o other)
      BY JoinInAnyOrder
  <2>3. QED
      BY <1>1, <1>2, <1>4, <2>1, <2>2 DEF Pending, Other
<1>5. CASE w = "cgi"
  <2>1. todo["server"] = <<>>
      BY <1>5 DEF HoldsInv, TodoInv
  <2>2. <<>> \o todo["cgi"] = todo["cgi"] /\ <<>> \o left = left
      BY <1>1, JoinTexts
  <2>3. QED
      BY <1>1, <1>2, <1>5, <2>1, <2>2 DEF Pending, Other
<1>6. QED
    BY <1>2, <1>3, <1>4, <1>5

LEMMA WriteStream ==
  ASSUME TypeInv, HoldsInv, StreamInv, NEW w \in Writer, WriteSome(w) \/ WriteKills(w)
  PROVE  StreamInv'
<1>1. SUFFICES ASSUME NEW s \in Reader PROVE Stream(s)'
    BY DEF StreamInv
<1>2. Stream(s)
    BY DEF StreamInv
<1>3. CASE WriteSome(w)
  <2>1. PICK sent \in Texts, left \in Texts :
          /\ todo[w] = sent \o left /\ todo' = [todo EXCEPT ![w] = left]
          /\ \/ PeerGone(w) /\ reset' = TRUE /\ net' = net
             \/ /\ ~PeerGone(w) /\ reset' = FALSE
                /\ net' = [net EXCEPT ![Other(w)] = @ \o sent]
                /\ Len(net[Other(w)]) + Len(sent) <= SendBuffer
      BY <1>3, WriteTakesSome DEF TypeInv
  <2>2. /\ UNCHANGED <<asks, listener, client, server, holds, said, rio, usrbuf, lines>>
        /\ ~reset /\ todo[w] # <<>> /\ Up(w)
      BY <1>3 DEF WriteSome, read
  <2>3. PICK rest \in Texts : /\ said[s] = Heard(s) \o rest
                              /\ "client" \in holds => rest = Pending(s)
      BY <1>2, <2>2 DEF Stream
  <2>4. CASE PeerGone(w) /\ reset' = TRUE /\ net' = net
      BY <1>2, <2>2, <2>4, StreamKept, SameHeard
  <2>5. CASE /\ ~PeerGone(w) /\ reset' = FALSE
             /\ net' = [net EXCEPT ![Other(w)] = @ \o sent]
    <3>1. "client" \in holds
      <4>1. CASE w = "client"
          BY <2>2, <4>1 DEF Up, HoldsInv, OpenInv
      <4>2. CASE w # "client"
          BY <2>5, <4>2 DEF PeerGone, Peer
      <4>3. QED
          BY <4>1, <4>2
    <3>2. Pending(s) = (IF s = Other(w) THEN sent \o Pending(s)' ELSE Pending(s)')
        BY <2>1, <2>2, WritePending
    <3>3. CASE s # Other(w)
      <4>1. net'[s] = net[s]
          BY <2>5, <3>3 DEF TypeInv, DataInv
      <4>2. Heard(s)' = Heard(s)
          BY <2>2, <4>1, SameHeard
      <4>3. QED
          BY <1>2, <2>2, <3>1, <3>2, <3>3, <4>2, StreamKept
    <3>4. CASE s = Other(w)
      <4>1. PICK under \in Texts : under = net[s]
          BY DEF TypeInv, DataInv
      <4>2. PICK taken \in Texts : taken = Delivered(s) \o usrbuf[s] \o rio[s]
          BY HeardTypes, JoinTexts DEF TypeInv
      <4>3. net'[s] = under \o sent
          BY <2>5, <3>4, <4>1 DEF TypeInv, DataInv
      <4>4. Heard(s) = taken \o under /\ Heard(s)' = taken \o (under \o sent)
          BY <2>2, <4>1, <4>2, <4>3 DEF Heard, Delivered
      <4>5. PICK heard \in Texts : heard = taken \o under
          BY JoinTexts
      <4>6. taken \o (under \o sent) = heard \o sent
          BY <4>5, JoinInAnyOrder, ZenonT(90)
      <4>7. PICK more \in Texts : more = Pending(s)'
        <5>1. todo' \in [Writer -> Texts]
            BY <2>1 DEF TypeInv, DataInv
        <5>2. todo'["client"] \in Texts /\ todo'["server"] \in Texts /\ todo'["cgi"] \in Texts
            BY <5>1 DEF Writer, Reader
        <5>3. QED
            BY <5>2, JoinTexts DEF Pending
      <4>8. heard \o (sent \o more) = (heard \o sent) \o more
          BY JoinInAnyOrder, ZenonT(90)
      <4>9. said'[s] = Heard(s)' \o more
          BY <2>2, <2>3, <3>1, <3>2, <3>4, <4>4, <4>5, <4>6, <4>7, <4>8
      <4>10. QED
          BY <4>7, <4>9 DEF Stream
    <3>5. QED
        BY <3>3, <3>4
  <2>6. QED
      BY <2>1, <2>4, <2>5
<1>4. CASE WriteKills(w)
  <2>1. UNCHANGED <<net, reset, said, rio, usrbuf, lines>> /\ reset
      BY <1>4 DEF WriteKills, read
  <2>2. QED
      BY <1>2, <2>1, StreamKept, SameHeard
<1>5. QED
    BY <1>3, <1>4

LEMMA ReadStream ==
  ASSUME TypeInv, StreamInv, NEW s \in Reader, Refill(s) \/ ReadFails(s) \/ TakeByte(s)
  PROVE  StreamInv'
<1>1. SUFFICES ASSUME NEW r \in Reader PROVE Stream(r)'
    BY DEF StreamInv
<1>2. Stream(r)
    BY DEF StreamInv
<1>3. CASE Refill(s) \/ TakeByte(s)
  <2>1. UNCHANGED <<holds, reset, todo, said>>
      BY <1>3 DEF Refill, TakeByte, talk
  <2>2. Heard(r)' = Heard(r)
      BY <1>3, RefillHeard, TakeByteHeard DEF TypeInv
  <2>3. Pending(r)' = Pending(r)
      BY <2>1 DEF Pending
  <2>4. QED
      BY <1>2, <2>1, <2>2, <2>3, StreamKept
<1>4. CASE ReadFails(s)
  <2>1. UNCHANGED <<net, reset, said, rio, usrbuf, lines>> /\ reset
      BY <1>4 DEF ReadFails, read
  <2>2. QED
      BY <1>2, <2>1, StreamKept, SameHeard
<1>5. QED
    BY <1>3, <1>4

\* A message begun by the server's side of the connection.
LEMMA AnswerStream ==
  ASSUME TypeInv, HoldsInv, StreamInv, NEW w \in {"server", "cgi"}, NEW m \in Texts, Say(w, m),
         todo["server"] = <<>>, "cgi" \notin holds, UNCHANGED reset,
         "client" \in holds' => "client" \in holds,
         \A r \in Reader : Heard(r)' = Heard(r)
  PROVE  StreamInv'
<1>1. todo["cgi"] = <<>>
    BY DEF HoldsInv, TodoInv
<1>2. w \in Writer /\ Other(w) = "client" /\ {"client", "server", "cgi"} = Writer
    BY DEF Writer, Reader, Other
<1>3. /\ todo'[w] = m /\ \A v \in Writer : v # w => todo'[v] = todo[v]
      /\ said'["client"] = said["client"] \o m /\ said'["server"] = said["server"]
  <2>1. /\ todo'[w] = m /\ \A v \in Writer : v # w => todo'[v] = todo[v]
        /\ said'[Other(w)] = said[Other(w)] \o m
        /\ \A s \in Reader : s # Other(w) => said'[s] = said[s]
      BY <1>2, SayTypes DEF TypeInv
  <2>2. QED
      BY <1>2, <2>1 DEF Reader
<1>4. Stream("client")'
  <2>1. <<>> \o m = m /\ m \o <<>> = m /\ <<>> \o <<>> = <<>>
      BY JoinTexts
  <2>2. Pending("client") = <<>> /\ Pending("client")' = m
    <3>1. Pending("client") = <<>>
        BY <1>1, <2>1 DEF Pending
    <3>2. CASE w = "server"
        BY <1>1, <1>2, <1>3, <2>1, <3>2 DEF Pending
    <3>3. CASE w = "cgi"
        BY <1>1, <1>2, <1>3, <2>1, <3>3 DEF Pending
    <3>4. QED
        BY <3>1, <3>2, <3>3
  <2>3. "client" \in Reader /\ Stream("client")
      BY DEF StreamInv, Reader
  <2>4. QED
      BY <1>3, <2>2, <2>3, StreamGrows DEF TypeInv
<1>5. Stream("server")'
  <2>1. "server" \in Reader /\ Stream("server")
      BY DEF StreamInv, Reader
  <2>2. Pending("server")' = Pending("server")
      BY <1>2, <1>3 DEF Pending
  <2>3. QED
      BY <1>3, <2>1, <2>2, StreamKept
<1>6. QED
    BY <1>4, <1>5 DEF StreamInv, Reader

LEMMA PreProcessStream ==
  ASSUME TypeInv, HoldsInv, StreamInv, PreProcess
  PROVE  StreamInv'
<1>1. "server" \in Reader
    BY DEF Reader
<1>2. PICK line : Returns("server", line)
    BY DEF PreProcess, RequestLine, RequestHeader
<1>3. UNCHANGED <<net, holds, reset>> /\ server \in {"line", "headers"}
      /\ (UNCHANGED <<todo, said>> \/ Say("server", Error))
    BY DEF PreProcess, RequestLine, RequestHeader
<1>4. \A r \in Reader : Heard(r)' = Heard(r)
    BY <1>1, <1>2, <1>3, ReturnsHeard DEF TypeInv
<1>5. CASE UNCHANGED <<todo, said>>
  <2>1. \A r \in Reader : Pending(r)' = Pending(r) /\ Stream(r)
      BY <1>5 DEF Pending, StreamInv
  <2>2. QED
      BY <1>3, <1>4, <1>5, <2>1, StreamKept DEF StreamInv
<1>6. CASE Say("server", Error)
  <2>1. todo["server"] = <<>> /\ "cgi" \notin holds
      BY <1>3 DEF HoldsInv, TodoInv
  <2>2. QED
      BY <1>3, <1>4, <1>6, <2>1, Messages, AnswerStream
<1>7. QED
    BY <1>3, <1>5, <1>6

LEMMA ServeStream ==
  ASSUME TypeInv, HoldsInv, StreamInv, Serve \/ CgiExits
  PROVE  StreamInv'
<1>1. "server" \in Reader /\ {"server", "cgi"} \subseteq Writer
    BY DEF Reader, Writer
<1>2. UNCHANGED <<rio, usrbuf, lines>>
    BY DEF Serve, ServeRefused, ServeStatic, ServeDynamic, ForkRefused, ForkCgi, ServeFails, CloseConn,
           CgiExits, read
<1>3. \/ \E w \in {"server", "cgi"}, m \in Texts :
           /\ Say(w, m) /\ UNCHANGED <<net, reset>> /\ ("client" \in holds' => "client" \in holds)
           /\ todo["server"] = <<>> /\ "cgi" \notin holds
      \/ \E w \in {"server", "cgi"} : Hangup(w, "server") /\ UNCHANGED <<todo, said>>
  <2> USE DEF TypeInv, PlaceInv, HoldsInv, TodoInv
  <2>1. CASE ServeRefused
      BY <2>1, Messages DEF ServeRefused, Quiet
  <2>2. CASE ServeStatic
      BY <2>2, Messages DEF ServeStatic
  <2>3. CASE ServeDynamic
      BY <2>3, Messages DEF ServeDynamic
  <2>4. CASE ForkCgi
      BY <2>4, Messages DEF ForkCgi, Quiet
  <2>5. CASE ServeFails \/ CloseConn \/ CgiExits
      BY <2>5 DEF ServeFails, CloseConn, CgiExits
  <2>6. CASE ForkRefused
      BY <2>6, Messages DEF ForkRefused, Quiet
  <2>7. QED
      BY <2>1, <2>2, <2>3, <2>4, <2>5, <2>6 DEF Serve
<1>4. ASSUME NEW w \in {"server", "cgi"}, NEW m \in Texts,
             Say(w, m), UNCHANGED <<net, reset>>, "client" \in holds' => "client" \in holds,
             todo["server"] = <<>>, "cgi" \notin holds
      PROVE  StreamInv'
  <2>1. \A r \in Reader : Heard(r)' = Heard(r)
      BY <1>2, <1>4, SameHeard
  <2>2. QED
      BY <1>4, <2>1, AnswerStream
<1>5. ASSUME NEW w \in {"server", "cgi"}, Hangup(w, "server"), UNCHANGED <<todo, said>>
      PROVE  StreamInv'
  <2>1. \A s \in Reader : Pending(s)' = Pending(s)
      BY <1>5 DEF Pending
  <2>2. QED
      BY <1>1, <1>2, <1>5, <2>1, StreamCut DEF TypeInv
<1>6. QED
    BY <1>3, <1>4, <1>5

LEMMA ListenerStream ==
  ASSUME TypeInv, StreamInv, Bind \/ Listen \/ Accept
  PROVE  StreamInv'
<1>1. "server" \in Reader /\ "server" \in Writer
    BY DEF Reader, Writer
<1>2. UNCHANGED <<todo, said, rio, usrbuf, lines>>
    BY DEF Bind, Listen, Accept, talk, read
<1>3. \A s \in Reader : Pending(s)' = Pending(s) /\ Stream(s)
    BY <1>2 DEF Pending, StreamInv
<1>4. CASE UNCHANGED <<net, holds, reset>>
    BY <1>2, <1>3, <1>4, StreamKept, SameHeard DEF StreamInv
<1>5. CASE Hangup("server", "server")
    BY <1>1, <1>2, <1>3, <1>5, StreamCut DEF TypeInv
<1>6. QED
    BY <1>4, <1>5 DEF Bind, Listen, Accept, talk

LEMMA ClientStream ==
  ASSUME TypeInv, HoldsInv, StreamInv, Connect \/ PrintHeader \/ PrintBody \/ CloseClient
  PROVE  StreamInv'
<1>1. "client" \in Reader /\ "client" \in Writer /\ Reader = {"client", "server"}
    BY DEF Reader, Writer
<1>2. CASE Connect
  <2>1. /\ client = "connect" /\ UNCHANGED <<net, reset, rio, usrbuf, lines>>
        /\ Say("client", asks.bytes) \/ UNCHANGED <<holds, todo, said>>
      BY <1>2 DEF Connect, read
  <2>2. CASE UNCHANGED <<holds, todo, said>>
    <3>1. \A s \in Reader : Pending(s)' = Pending(s) /\ Stream(s)
        BY <2>2 DEF Pending, StreamInv
    <3>2. QED
        BY <2>1, <2>2, <3>1, StreamKept, SameHeard DEF StreamInv
  <2>3. CASE Say("client", asks.bytes)
    <3>1. PICK m \in Texts : m = asks.bytes
        BY Messages DEF TypeInv, DataInv
    <3>2. /\ todo'["client"] = m /\ \A v \in Writer : v # "client" => todo'[v] = todo[v]
          /\ said'["server"] = said["server"] \o m /\ said'["client"] = said["client"]
        BY <1>1, <2>3, <3>1, SayTypes DEF TypeInv, Other
    <3>3. /\ \A w \in Writer : todo[w] = <<>>
          /\ \A s \in Reader : /\ said[s] = <<>> /\ lines[s] = <<>> /\ usrbuf[s] = <<>>
                               /\ rio[s] = <<>> /\ net[s] = <<>>
        BY <2>1 DEF HoldsInv, StartInv
    <3>4. <<>> \o m = m /\ <<>> \o <<>> = <<>> /\ <<>> \in Texts
        BY JoinTexts
    <3>5. \A s \in Reader : Heard(s)' = <<>>
        BY <2>1, <3>3, <3>4, FlattenEmpty DEF Heard, Delivered
    <3>6. Stream("server")'
      <4>1. said'["server"] = Heard("server")' \o m /\ m = Pending("server")'
          BY <1>1, <3>2, <3>3, <3>4, <3>5 DEF Pending
      <4>2. QED
          BY <4>1 DEF Stream
    <3>7. Stream("client")'
      <4>1. todo'["server"] = <<>> /\ todo'["cgi"] = <<>>
          BY <3>2, <3>3 DEF Writer, Reader
      <4>2. said'["client"] = Heard("client")' \o <<>> /\ <<>> = Pending("client")'
          BY <1>1, <3>2, <3>3, <3>4, <3>5, <4>1 DEF Pending
      <4>3. QED
          BY <3>4, <4>2 DEF Stream
    <3>8. QED
        BY <1>1, <3>6, <3>7 DEF StreamInv
  <2>4. QED
      BY <2>1, <2>2, <2>3
<1>3. CASE PrintHeader \/ PrintBody
  <2>1. PICK line : Returns("client", line)
      BY <1>3 DEF PrintHeader, PrintBody
  <2>2. UNCHANGED <<net, holds, reset, todo, said>>
      BY <1>3 DEF PrintHeader, PrintBody, talk
  <2>3. \A r \in Reader : Heard(r)' = Heard(r)
      BY <1>1, <2>1, <2>2, ReturnsHeard DEF TypeInv
  <2>4. \A r \in Reader : Pending(r)' = Pending(r) /\ Stream(r)
      BY <2>2 DEF Pending, StreamInv
  <2>5. QED
      BY <2>2, <2>3, <2>4, StreamKept DEF StreamInv
<1>4. CASE CloseClient
  <2>1. UNCHANGED <<said, rio, usrbuf, lines>> /\ Hangup("client", "client")
      BY <1>4 DEF CloseClient, read
  <2>2. "client" \notin holds'
      BY <2>1 DEF Hangup
  <2>3. QED
      BY <1>1, <2>1, <2>2, StreamCut DEF TypeInv
<1>5. QED
    BY <1>2, <1>3, <1>4

LEMMA StreamInvStep ==
  ASSUME TypeInv, HoldsInv, StreamInv, [Next]_vars
  PROVE  StreamInv'
<1>1. CASE UNCHANGED vars
    BY <1>1 DEF vars, talk, read, StreamInv, Stream, Heard, Delivered, Pending
<1>2. CASE Next
    BY <1>2, Steps, WriteStream, ReadStream, PreProcessStream, ServeStream, ListenerStream,
       ClientStream
<1>3. QED
    BY <1>1, <1>2

LEMMA StreamInvInit ==
  ASSUME Init
  PROVE  StreamInv
<1>1. <<>> \o <<>> = <<>> /\ <<>> \in Texts
    BY JoinTexts DEF Texts
<1>2. \A s \in Reader : Heard(s) = <<>> /\ said[s] = <<>> /\ Pending(s) = <<>>
    BY <1>1, FlattenEmpty DEF Init, Heard, Delivered, Pending, Writer, Reader
<1>3. QED
    BY <1>1, <1>2 DEF StreamInv, Stream

LEMMA InvarianceOfStreams == Spec => [](TypeInv /\ HoldsInv /\ StreamInv)
<1>1. Init => TypeInv /\ HoldsInv /\ StreamInv
    BY TypeInvInit, HoldsInvInit, StreamInvInit
<1>2. TypeInv /\ HoldsInv /\ StreamInv /\ [Next]_vars => (TypeInv /\ HoldsInv /\ StreamInv)'
    BY TypeInvStep, HoldsInvStep, StreamInvStep
<1>3. QED
    BY <1>1, <1>2, PTL DEF Spec

\* However the kernel cuts the streams into pieces, and however many bytes a
\* read or a write takes, what a side has read is what the other had to write,
\* in order and each byte once: of an answer that a CGI program goes on to
\* write, and of a conversation that was reset, too.
THEOREM StreamExactHolds == Spec => []StreamExact
<1>1. ASSUME TypeInv, StreamInv PROVE StreamExact
  <2>1. SUFFICES ASSUME NEW s \in Reader
                 PROVE  /\ IsPrefix(Heard(s), said[s])
                        /\ ~reset /\ "client" \in holds => Heard(s) \o Pending(s) = said[s]
      BY DEF StreamExact
  <2>2. PICK heard \in Texts : heard = Heard(s)
      BY <1>1, HeardTypes DEF TypeInv
  <2>3. PICK rest \in Texts : /\ said[s] = heard \o rest
                              /\ ~reset /\ "client" \in holds => rest = Pending(s)
      BY <1>1, <2>2 DEF StreamInv, Stream
  <2>4. IsPrefix(heard, heard \o rest)
    <3>1. Len(heard) \in Nat /\ Len(rest) \in Nat /\ Len(heard \o rest) = Len(heard) + Len(rest)
        BY ConcatProperties DEF Texts
    <3>2. QED
        BY <3>1, ConcatProperties DEF IsPrefix, Texts
  <2>5. QED
      BY <2>2, <2>3, <2>4
<1>2. TypeInv /\ StreamInv => StreamExact
    BY <1>1
<1>3. QED
    BY <1>2, InvarianceOfStreams, PTL

-----------------------------------------------------------------------------
(* Lines end where the bytes say, or with the stream.                      *)

\* The stream to s has ended, and s has read it.
Over(s) == PeerGone(s) /\ rio[s] = <<>> /\ net[s] = <<>> /\ usrbuf[s] = <<>>

LineInv(s) ==
  /\ \A b \in 1..Len(usrbuf[s]) : usrbuf[s][b] # LF
  /\ \A k \in 1..Len(lines[s]) :
       /\ \A b \in 1..(Len(lines[s][k]) - 1) : lines[s][k][b] # LF
       /\ LineFull(lines[s][k]) \/ (k = Len(lines[s]) /\ Over(s))
LinesInv == \A s \in Reader : LineInv(s)

\* What a step does to what is read.
LEMMA ReadingSteps ==
  ASSUME TypeInv, Next
  PROVE  \/ UNCHANGED <<rio, usrbuf, lines>>
         \/ \E s \in Reader : Refill(s) /\ UNCHANGED <<usrbuf, lines>>
         \/ \E s \in Reader : TakeByte(s)
         \/ \E s \in Reader : \E line : Returns(s, line) /\ UNCHANGED <<net, holds, reset>>
<1>1. ASSUME NEW w \in Writer, WriteSome(w) \/ WriteKills(w)
      PROVE  UNCHANGED <<rio, usrbuf, lines>>
    BY <1>1 DEF WriteSome, WriteKills, read
<1>2. ASSUME NEW s \in Reader, Refill(s) \/ ReadFails(s)
      PROVE  UNCHANGED <<rio, usrbuf, lines>> \/ (Refill(s) /\ UNCHANGED <<usrbuf, lines>>)
    BY <1>2 DEF Refill, ReadFails, read
<1>3. CASE PreProcess
    BY <1>3 DEF PreProcess, RequestLine, RequestHeader, Reader
<1>4. CASE Serve \/ CgiExits
    BY <1>4 DEF Serve, ServeRefused, ServeStatic, ServeDynamic, ForkRefused, ForkCgi, ServeFails, CloseConn,
                CgiExits, read
<1>5. CASE Bind \/ Listen \/ Accept \/ Connect \/ CloseClient
    BY <1>5 DEF Bind, Listen, Accept, Connect, CloseClient, read
<1>6. CASE PrintHeader \/ PrintBody
    BY <1>6 DEF PrintHeader, PrintBody, talk, Reader
<1>7. QED
    BY <1>1, <1>2, <1>3, <1>4, <1>5, <1>6, Steps

\* What a step does to a stream that has run dry.
LEMMA PeersStayGone ==
  ASSUME TypeInv, HoldsInv, Next, client # "connect", NEW s \in Reader, PeerGone(s)
  PROVE  PeerGone(s)'
<1> USE DEF HoldsInv, OpenInv
<1>1. holds' \subseteq holds \/ (server \in {"refork", "fork"} /\ holds' = holds \cup {"cgi"})
  <2>1. ASSUME NEW w \in Writer, WriteSome(w) \/ WriteKills(w)
        PROVE  holds' \subseteq holds
      BY <2>1 DEF WriteSome, WriteKills
  <2>2. ASSUME NEW r \in Reader, Refill(r) \/ ReadFails(r) \/ TakeByte(r)
        PROVE  holds' \subseteq holds
      BY <2>2 DEF Refill, ReadFails, TakeByte, talk
  <2>3. CASE PreProcess \/ Bind \/ Listen
      BY <2>3 DEF PreProcess, RequestLine, RequestHeader, Bind, Listen, talk
  <2>4. CASE Serve
      BY <2>4 DEF Serve, ServeRefused, ServeStatic, ServeDynamic, ForkRefused, ForkCgi, ServeFails,
                  CloseConn, Hangup
  <2>5. CASE CgiExits \/ Accept \/ CloseClient
      BY <2>5 DEF CgiExits, Accept, CloseClient, Hangup
  <2>6. CASE PrintHeader \/ PrintBody
      BY <2>6 DEF PrintHeader, PrintBody, talk
  <2>7. ~Connect
      BY DEF Connect
  <2>8. QED
      BY <2>1, <2>2, <2>3, <2>4, <2>5, <2>6, <2>7, Steps
<1>2. CASE holds' \subseteq holds
    BY <1>2 DEF PeerGone, Peer
<1>3. CASE server \in {"refork", "fork"} /\ holds' = holds \cup {"cgi"}
    BY <1>3 DEF PeerGone, Peer, Serving, Reader
<1>4. QED
    BY <1>1, <1>2, <1>3

\* Who writes has the connection open.
LEMMA WriterHolds ==
  ASSUME TypeInv, HoldsInv, NEW w \in Writer, WriteSome(w)
  PROVE  w \in holds
<1>1. todo[w] # <<>> /\ Up(w) /\ w \in {"client", "server", "cgi"}
    BY DEF WriteSome, Writer, Reader
<1>2. CASE w = "client"
    BY <1>1, <1>2 DEF Up, HoldsInv, OpenInv
<1>3. CASE w = "server"
    BY <1>1, <1>3 DEF Up, HoldsInv, OpenInv, TodoInv, Serving, TypeInv, PlaceInv
<1>4. CASE w = "cgi"
    BY <1>1, <1>4 DEF HoldsInv, TodoInv
<1>5. QED
    BY <1>1, <1>2, <1>3, <1>4

LEMMA HangupDry ==
  ASSUME DataInv, NEW w \in Writer, NEW t \in Reader, Hangup(w, t), NEW s \in Reader, net[s] = <<>>
  PROVE  net'[s] = <<>>
<1>1. net'[s] \in Texts /\ Len(net'[s]) <= Len(net[s])
    BY HangupCuts
<1>2. Len(net[s]) = 0 /\ Len(net'[s]) \in Nat
    BY <1>1 DEF Texts
<1>3. Len(net'[s]) = 0
    BY <1>1, <1>2
<1>4. QED
    BY <1>1, <1>3, EmptySeq DEF Texts

LEMMA NothingArrives ==
  ASSUME TypeInv, HoldsInv, Next, NEW s \in Reader, PeerGone(s), net[s] = <<>>
  PROVE  net'[s] = <<>>
<1>1. {"client", "server", "cgi"} = Writer /\ {"client", "server"} = Reader
    BY DEF Reader, Writer
<1>2. ASSUME NEW w \in Writer, WriteSome(w)
      PROVE  net'[s] = <<>>
  <2>1. \/ net' = net
        \/ \E sent \in Texts : net' = [net EXCEPT ![Other(w)] = @ \o sent]
      BY <1>2, WriteTakesSome DEF TypeInv
  <2>2. s # Other(w)
    <3>1. w \in holds
        BY <1>2, WriterHolds
    <3>2. QED
        BY <1>1, <3>1 DEF PeerGone, Peer, Other
  <2>3. QED
      BY <2>1, <2>2 DEF TypeInv, DataInv
<1>3. ASSUME NEW w \in Writer, WriteKills(w)
      PROVE  net'[s] = <<>>
    BY <1>3 DEF WriteKills
<1>4. ASSUME NEW r \in Reader, Refill(r) \/ ReadFails(r) \/ TakeByte(r)
      PROVE  net'[s] = <<>>
  <2>1. net' = net \/ \E left \in Texts : net[r] # <<>> /\ net' = [net EXCEPT ![r] = left]
    <3>1. CASE Refill(r)
      <4>1. net[r] # <<>>
          BY <3>1 DEF Refill
      <4>2. \E left \in Texts : net' = [net EXCEPT ![r] = left]
          BY <3>1, RefillTakesSome DEF TypeInv
      <4>3. QED
          BY <4>1, <4>2
    <3>2. QED
        BY <1>4, <3>1 DEF ReadFails, TakeByte, talk
  <2>2. QED
      BY <2>1 DEF TypeInv, DataInv
<1>5. CASE PreProcess \/ Bind \/ Listen \/ Connect \/ PrintHeader \/ PrintBody
    BY <1>5 DEF PreProcess, RequestLine, RequestHeader, Bind, Listen, talk, Connect, PrintHeader,
                PrintBody
<1>6. CASE Serve \/ CgiExits \/ Accept \/ CloseClient
  <2>1. net' = net \/ Hangup("server", "server") \/ Hangup("cgi", "server")
        \/ Hangup("client", "client")
      BY <1>6 DEF Serve, ServeRefused, ServeStatic, ServeDynamic, ForkRefused, ForkCgi, ServeFails, CloseConn,
                  CgiExits, Accept, CloseClient
  <2>2. QED
      BY <1>1, <2>1, HangupDry DEF TypeInv
<1>7. QED
    BY <1>2, <1>3, <1>4, <1>5, <1>6, Steps

LEMMA OverStays ==
  ASSUME TypeInv, HoldsInv, Next, client # "connect", NEW s \in Reader, Over(s)
  PROVE  Over(s)' /\ lines'[s] = lines[s]
<1>1. PeerGone(s)' /\ net'[s] = <<>>
    BY PeersStayGone, NothingArrives DEF Over
<1>2. rio'[s] = <<>> /\ usrbuf'[s] = <<>> /\ lines'[s] = lines[s]
  <2>1. CASE UNCHANGED <<rio, usrbuf, lines>>
      BY <2>1 DEF Over
  <2>2. CASE \E r \in Reader : Refill(r) /\ UNCHANGED <<usrbuf, lines>>
    <3>1. PICK r \in Reader : Refill(r) /\ UNCHANGED <<usrbuf, lines>>
        BY <2>2
    <3>2. r # s /\ \E got \in Texts : rio' = [rio EXCEPT ![r] = got]
      <4>1. r # s
          BY <3>1 DEF Refill, Over
      <4>2. QED
          BY <3>1, <4>1, RefillTakesSome DEF TypeInv
    <3>3. QED
        BY <3>1, <3>2 DEF Over, TypeInv, DataInv
  <2>3. CASE \E r \in Reader : TakeByte(r)
      BY <2>3 DEF TakeByte, Over, TypeInv, DataInv
  <2>4. CASE \E r \in Reader : \E line : Returns(r, line)
    <3>1. PICK r \in Reader : \E line : Returns(r, line)
        BY <2>4
    <3>2. CASE r # s
        BY <3>1, <3>2, ReturnsDelivers DEF Over, TypeInv
    <3>3. CASE r = s
        BY <3>1, <3>3 DEF Returns, Over, TypeInv, DataInv
    <3>4. QED
        BY <3>2, <3>3
  <2>5. QED
      BY <2>1, <2>2, <2>3, <2>4, ReadingSteps
<1>3. QED
    BY <1>1, <1>2 DEF Over

LEMMA LastByte ==
  ASSUME NEW S, NEW text \in Seq(S), NEW b \in S
  PROVE  /\ Len(text \o <<b>>) = Len(text) + 1 /\ Last(text \o <<b>>) = b
         /\ (text \o <<b>>)[Len(text) + 1] = b
         /\ \A k \in 1..Len(text) : (text \o <<b>>)[k] = text[k]
<1>1. Len(text \o <<b>>) = Len(text) + 1 /\ Len(text) \in Nat
    BY ConcatProperties
<1>2. (text \o <<b>>)[Len(text) + 1] = b
    BY <1>1, ConcatProperties
<1>3. \A k \in 1..Len(text) : (text \o <<b>>)[k] = text[k]
    BY ConcatProperties
<1>4. QED
    BY <1>1, <1>2, <1>3 DEF Last

LEMMA LineInvKept ==
  ASSUME NEW s \in Reader, LineInv(s), usrbuf'[s] = usrbuf[s], lines'[s] = lines[s],
         Over(s) /\ lines[s] # <<>> => Over(s)'
  PROVE  LineInv(s)'
<1>1. lines[s] = <<>> => Len(lines[s]) = 0
    OBVIOUS
<1>2. QED
    BY <1>1 DEF LineInv, LineFull

LEMMA TakeByteLines ==
  ASSUME TypeInv, HoldsInv, NEW s \in Reader, LineInv(s), TakeByte(s)
  PROVE  LineInv(s)'
<1>1. PICK b \in Byte : /\ usrbuf' = [usrbuf EXCEPT ![s] = usrbuf[s] \o <<b>>]
                        /\ ~LineFull(usrbuf[s] \o <<b>>) /\ rio[s] # <<>>
  <2>1. rio[s] # <<>>
      BY DEF TakeByte
  <2>2. QED
      BY <2>1, TakeByteMoves DEF TypeInv
<1>2. PICK text \in Seq(Byte) : text = usrbuf[s]
    BY DEF TypeInv, DataInv, Texts
<1>3. PICK line : line = text \o <<b>>
    OBVIOUS
<1>4. /\ Len(line) = Len(text) + 1 /\ Last(line) = b /\ line[Len(text) + 1] = b
      /\ \A k \in 1..Len(text) : line[k] = text[k]
  <2>1. /\ Len(text \o <<b>>) = Len(text) + 1 /\ Last(text \o <<b>>) = b
        /\ (text \o <<b>>)[Len(text) + 1] = b
        /\ \A k \in 1..Len(text) : (text \o <<b>>)[k] = text[k]
      BY LastByte
  <2>2. QED
      BY <1>3, <2>1
<1>5. usrbuf'[s] = line /\ b # LF
    BY <1>1, <1>2, <1>3, <1>4 DEF LineFull, TypeInv, DataInv
<1>6. \A k \in 1..Len(line) : line[k] # LF
  <2>1. \A k \in 1..Len(text) : text[k] # LF
      BY <1>2 DEF LineInv
  <2>2. \A k \in 1..(Len(text) + 1) : k = Len(text) + 1 \/ k \in 1..Len(text)
      OBVIOUS
  <2>3. QED
      BY <1>4, <1>5, <2>1, <2>2
<1>7. lines' = lines /\ ~Over(s)
    BY <1>1 DEF TakeByte, Over
<1>8. QED
    BY <1>5, <1>6, <1>7 DEF LineInv, LineFull

LEMMA ReturnsLines ==
  ASSUME TypeInv, NEW s \in Reader, LineInv(s), NEW line, Returns(s, line),
         UNCHANGED <<net, holds, reset>>
  PROVE  LineInv(s)'
<1>1. /\ line \in Texts /\ usrbuf' = [usrbuf EXCEPT ![s] = <<>>]
      /\ lines' = IF line = <<>> THEN lines ELSE [lines EXCEPT ![s] = Append(@, line)]
    BY ReturnsLine DEF TypeInv
<1>2. \/ /\ rio[s] # <<>> /\ LineFull(line) /\ line # <<>>
         /\ \E b \in Byte : line = usrbuf[s] \o <<b>>
      \/ AtEOF(s) /\ line = usrbuf[s] /\ rio' = rio
  <2>1. CASE \E b \in Byte, rest \in Texts :
                 /\ rio[s] = <<b>> \o rest /\ rio' = [rio EXCEPT ![s] = rest]
                 /\ line = usrbuf[s] \o <<b>> /\ <<b>> \in Texts /\ LineFull(line) /\ line # <<>>
                 /\ Len(rest) <= Len(rio[s]) /\ Len(line) = Len(usrbuf[s]) + 1
    <3>1. PICK b \in Byte, rest \in Texts :
                 /\ rio[s] = <<b>> \o rest /\ line = usrbuf[s] \o <<b>> /\ <<b>> \in Texts
                 /\ LineFull(line) /\ line # <<>>
        BY <2>1
    <3>2. Len(rio[s]) # 0
        BY <3>1, ConcatProperties DEF Texts
    <3>3. rio[s] # <<>>
        BY <3>2
    <3>4. QED
        BY <3>1, <3>3
  <2>2. QED
      BY <2>1, ReturnsLine DEF TypeInv
<1>3. usrbuf'[s] = <<>> /\ Len(<<>>) = 0
    BY <1>1 DEF TypeInv, DataInv
<1>4. CASE line = <<>>
  <2>1. AtEOF(s) /\ rio' = rio /\ lines' = lines /\ usrbuf[s] = <<>>
      BY <1>1, <1>2, <1>4
  <2>2. Over(s) => Over(s)'
      BY <1>3, <2>1 DEF Over, PeerGone
  <2>3. QED
      BY <1>3, <2>1, <2>2, LineInvKept
<1>5. CASE line # <<>>
  <2>1. PICK old \in Seq(Texts) : old = lines[s]
      BY DEF TypeInv, DataInv
  <2>2. lines'[s] = Append(old, line)
      BY <1>1, <1>5, <2>1 DEF TypeInv, DataInv
  <2>3. PICK n \in Nat : n = Len(old)
      OBVIOUS
  <2>4. /\ Len(lines'[s]) = n + 1 /\ lines'[s][n + 1] = line
        /\ \A k \in 1..n : lines'[s][k] = old[k]
      BY <1>1, <2>1, <2>2, <2>3
  <2>5. ~Over(s)
      BY <1>2, <1>5 DEF Over
  <2>6. \A k \in 1..n : /\ \A b \in 1..(Len(old[k]) - 1) : old[k][b] # LF
                        /\ LineFull(old[k])
      BY <2>1, <2>3, <2>5 DEF LineInv
  <2>7. \A b \in 1..(Len(line) - 1) : line[b] # LF
    <3>1. PICK text \in Seq(Byte) : text = usrbuf[s]
        BY DEF TypeInv, DataInv, Texts
    <3>2. Len(text) \in Nat /\ \A b \in 1..Len(text) : text[b] # LF
        BY <3>1 DEF LineInv
    <3>3. CASE \E b \in Byte : line = text \o <<b>>
      <4>1. Len(line) = Len(text) + 1 /\ \A k \in 1..Len(text) : line[k] = text[k]
        <5>1. PICK b \in Byte : line = text \o <<b>>
            BY <3>3
        <5>2. /\ Len(text \o <<b>>) = Len(text) + 1
              /\ \A k \in 1..Len(text) : (text \o <<b>>)[k] = text[k]
            BY LastByte
        <5>3. QED
            BY <5>1, <5>2
      <4>2. Len(line) - 1 = Len(text)
          BY <3>2, <4>1
      <4>3. QED
          BY <3>2, <4>1, <4>2
    <3>4. CASE line = text
        BY <3>2, <3>4
    <3>5. QED
        BY <1>2, <3>1, <3>3, <3>4
  <2>8. LineFull(line) \/ Over(s)'
      BY <1>2, <1>3 DEF AtEOF, Over, PeerGone
  <2>9. \A k \in 1..(n + 1) : k = n + 1 \/ k \in 1..n
      OBVIOUS
  <2>10. \A k \in 1..(n + 1) : /\ \A b \in 1..(Len(lines'[s][k]) - 1) : lines'[s][k][b] # LF
                               /\ LineFull(lines'[s][k]) \/ (k = n + 1 /\ Over(s)')
      BY <2>4, <2>6, <2>7, <2>8, <2>9
  <2>11. QED
      BY <1>3, <2>4, <2>10 DEF LineInv, LineFull
<1>6. QED
    BY <1>4, <1>5

LEMMA LinesInvStep ==
  ASSUME TypeInv, HoldsInv, LinesInv, [Next]_vars
  PROVE  LinesInv'
<1>1. SUFFICES ASSUME NEW s \in Reader PROVE LineInv(s)'
    BY DEF LinesInv
<1>2. LineInv(s)
    BY DEF LinesInv
<1>3. CASE UNCHANGED vars
    BY <1>2, <1>3, LineInvKept DEF vars, talk, read, Over, PeerGone
<1>4. CASE Next
  <2>1. Over(s) /\ lines[s] # <<>> => Over(s)'
    <3>1. lines[s] # <<>> => client # "connect"
        BY DEF HoldsInv, StartInv
    <3>2. QED
        BY <1>4, <3>1, OverStays
  <2>2. CASE usrbuf'[s] = usrbuf[s] /\ lines'[s] = lines[s]
      BY <1>2, <2>1, <2>2, LineInvKept
  <2>3. CASE ~(usrbuf'[s] = usrbuf[s] /\ lines'[s] = lines[s])
    <3>1. PICK r \in Reader : \/ TakeByte(r)
                              \/ \E line : Returns(r, line) /\ UNCHANGED <<net, holds, reset>>
        BY <1>4, <2>3, ReadingSteps
    <3>2. r = s
      <4>1. CASE TakeByte(r)
          BY <2>3, <4>1 DEF TakeByte, TypeInv, DataInv
      <4>2. CASE \E line : Returns(r, line)
          BY <2>3, <4>2, ReturnsDelivers DEF TypeInv
      <4>3. QED
          BY <3>1, <4>1, <4>2
    <3>3. QED
        BY <1>2, <3>1, <3>2, TakeByteLines, ReturnsLines
  <2>4. QED
      BY <2>2, <2>3
<1>5. QED
    BY <1>3, <1>4

LEMMA LinesInvInit ==
  ASSUME Init
  PROVE  LinesInv
<1>1. \A s \in Reader : usrbuf[s] = <<>> /\ lines[s] = <<>>
    BY DEF Init
<1>2. Len(<<>>) = 0
    OBVIOUS
<1>3. QED
    BY <1>1, <1>2 DEF LinesInv, LineInv

\* A line ends at its first newline, or when it is as long as the buffer, and
\* only the last line of a stream that has ended may lack both: where lines end
\* does not depend on the pieces in which their bytes arrived.
THEOREM LinesWholeHolds == Spec => []LinesWhole
<1>1. ASSUME TypeInv, LinesInv PROVE LinesWhole
  <2>1. \A s \in Reader : DOMAIN lines[s] = 1..Len(lines[s])
      BY <1>1 DEF TypeInv, DataInv
  <2>2. QED
      BY <1>1, <2>1 DEF LinesInv, LineInv, LineFull, Over, LinesWhole
<1>2. TypeInv /\ LinesInv => LinesWhole
    BY <1>1
<1>3. Init => TypeInv /\ HoldsInv /\ LinesInv
    BY TypeInvInit, HoldsInvInit, LinesInvInit
<1>4. TypeInv /\ HoldsInv /\ LinesInv /\ [Next]_vars => (TypeInv /\ HoldsInv /\ LinesInv)'
    BY TypeInvStep, HoldsInvStep, LinesInvStep
<1>5. QED
    BY <1>2, <1>3, <1>4, PTL DEF Spec

-----------------------------------------------------------------------------
(* The server stops reading behind the first empty line.                   *)

NoEnd(text) == \A k \in 1..Len(text) : ~EndsAt(text, k)

LEMMA OneAndOne ==
  ASSUME NEW S, NEW x \in Seq(S), NEW y \in Seq(S), Len(x) = 1, Len(y) = 1
  PROVE  x \o y \in Seq(S) /\ Len(x \o y) = 2 /\ (x \o y)[1] = x[1] /\ (x \o y)[2] = y[1]
<1>1. x \o y \in Seq(S) /\ Len(x \o y) = 2
    BY ConcatProperties, SMTT(40)
<1>2. \A i \in 1..Len(x) + Len(y) : (x \o y)[i] = IF i <= Len(x) THEN x[i] ELSE y[i - Len(x)]
    BY ConcatProperties
<1>3. /\ 1 \in 1..(Len(x) + Len(y)) /\ 2 \in 1..(Len(x) + Len(y))
      /\ 1 <= Len(x) /\ ~(2 <= Len(x)) /\ 2 - Len(x) = 1
    OBVIOUS
<1>4. QED
    BY <1>1, <1>2, <1>3

LEMMA OneAndTwo ==
  ASSUME NEW S, NEW x \in Seq(S), NEW y \in Seq(S), Len(x) = 1, Len(y) = 2
  PROVE  /\ x \o y \in Seq(S) /\ Len(x \o y) = 3
         /\ (x \o y)[1] = x[1] /\ (x \o y)[2] = y[1] /\ (x \o y)[3] = y[2]
<1>1. x \o y \in Seq(S) /\ Len(x \o y) = Len(x) + Len(y)
    BY ConcatProperties
<1>2. Len(x \o y) = 3
    BY <1>1
<1>3. \A i \in 1..Len(x) + Len(y) : (x \o y)[i] = IF i <= Len(x) THEN x[i] ELSE y[i - Len(x)]
    BY ConcatProperties
<1>4. /\ 1 \in 1..(Len(x) + Len(y)) /\ 2 \in 1..(Len(x) + Len(y)) /\ 3 \in 1..(Len(x) + Len(y))
      /\ 1 <= Len(x) /\ ~(2 <= Len(x)) /\ 2 - Len(x) = 1 /\ ~(3 <= Len(x)) /\ 3 - Len(x) = 2
    OBVIOUS
<1>5. QED
    BY <1>1, <1>2, <1>3, <1>4

LEMMA SameShort ==
  ASSUME NEW S, NEW x \in Seq(S), NEW y \in Seq(S), Len(x) = Len(y), Len(x) \in 1..3,
         x[1] = y[1], Len(x) > 1 => x[2] = y[2], Len(x) > 2 => x[3] = y[3]
  PROVE  x = y
<1>1. \A i \in 1..Len(x) : x[i] = y[i]
  <2>1. \A i \in 1..Len(x) : i = 1 \/ (i = 2 /\ Len(x) > 1) \/ (i = 3 /\ Len(x) > 2)
      OBVIOUS
  <2>2. QED
      BY <2>1
<1>2. QED
    BY <1>1, SeqEqual

LEMMA ThreeInARow ==
  ASSUME NEW S, NEW a \in S, NEW b \in S, NEW c \in S
  PROVE  <<a>> \o <<b>> = <<a, b>> /\ <<a>> \o <<b, c>> = <<a, b, c>>
<1>0. /\ <<a>> \in Seq(S) /\ <<b>> \in Seq(S) /\ <<b, c>> \in Seq(S)
      /\ <<a, b>> \in Seq(S) /\ <<a, b, c>> \in Seq(S)
    OBVIOUS
<1>1. PICK x : x = <<a>>
    OBVIOUS
<1>2. PICK y : y = <<b>>
    OBVIOUS
<1>3. PICK z : z = <<b, c>>
    OBVIOUS
<1>4. PICK u : u = <<a, b>>
    OBVIOUS
<1>5. PICK v : v = <<a, b, c>>
    OBVIOUS
<1>6. /\ x \in Seq(S) /\ y \in Seq(S) /\ z \in Seq(S) /\ u \in Seq(S) /\ v \in Seq(S)
      /\ Len(x) = 1 /\ Len(y) = 1 /\ Len(z) = 2 /\ Len(u) = 2 /\ Len(v) = 3
      /\ x[1] = a /\ y[1] = b /\ z[1] = b /\ z[2] = c
      /\ u[1] = a /\ u[2] = b /\ v[1] = a /\ v[2] = b /\ v[3] = c
    BY <1>0, <1>1, <1>2, <1>3, <1>4, <1>5
<1>7. x \o y = u
  <2>1. x \o y \in Seq(S) /\ Len(x \o y) = 2 /\ (x \o y)[1] = a /\ (x \o y)[2] = b
      BY <1>6, OneAndOne
  <2>2. PICK t \in Seq(S) : t = x \o y
      BY <2>1
  <2>3. Len(t) = 2 /\ Len(u) = 2 /\ t[1] = u[1] /\ t[2] = u[2] /\ u \in Seq(S)
      BY <1>6, <2>1, <2>2
  <2>4. t = u
      BY <2>3, SameShort
  <2>5. QED
      BY <2>2, <2>4
<1>8. x \o z = v
  <2>1. x \o z \in Seq(S) /\ Len(x \o z) = 3 /\ (x \o z)[1] = a /\ (x \o z)[2] = b /\ (x \o z)[3] = c
      BY <1>6, OneAndTwo
  <2>2. PICK t \in Seq(S) : t = x \o z
      BY <2>1
  <2>3. Len(t) = 3 /\ Len(v) = 3 /\ t[1] = v[1] /\ t[2] = v[2] /\ t[3] = v[3] /\ v \in Seq(S)
      BY <1>6, <2>1, <2>2
  <2>4. t = v
      BY <2>3, SameShort
  <2>5. QED
      BY <2>2, <2>4
<1>9. QED
    BY <1>1, <1>2, <1>3, <1>4, <1>5, <1>7, <1>8

LEMMA EndsAtBytes ==
  ASSUME NEW text \in Texts, NEW k \in 1..Len(text)
  PROVE  EndsAt(text, k) <=> k > 2 /\ text[k - 2] = LF /\ text[k - 1] = CR /\ text[k] = LF
<1>1. <<LF>> \o BLANK = <<LF, CR, LF>>
  <2>1. CR \in Byte /\ LF \in Byte
      BY DEF Byte
  <2>2. QED
      BY <2>1, ThreeInARow DEF BLANK
<1>2. CASE k > 2
  <2>1. k - 2 \in 1..Len(text) /\ k \in Int /\ Len(text) \in Nat
      BY <1>2 DEF Texts
  <2>2. PICK end : end = SubSeq(text, k - 2, k)
      OBVIOUS
  <2>3. end \in Seq(Byte) /\ Len(end) = 3 /\ end[1] = text[k - 2] /\ end[2] = text[k - 1] /\ end[3] = text[k]
      BY <1>2, <2>1, <2>2 DEF Texts
  <2>4. end = <<end[1], end[2], end[3]>>
      BY <2>3
  <2>5. EndsAt(text, k) <=> end = <<LF, CR, LF>>
      BY <1>1, <1>2, <2>2 DEF EndsAt
  <2>6. QED
      BY <1>2, <2>3, <2>4, <2>5
<1>3. CASE ~(k > 2)
    BY <1>3 DEF EndsAt
<1>4. QED
    BY <1>2, <1>3

\* The bytes of what was delivered before, of a line and of what follows.
LEMMA JoinedBytes ==
  ASSUME NEW before \in Texts, NEW text \in Texts, NEW b \in Byte, NEW rest \in Texts
  PROVE  \A all : all = (before \o (text \o <<b>>)) \o rest =>
         /\ all \in Texts /\ Len(all) = Len(before) + Len(text) + 1 + Len(rest)
         /\ \A i \in 1..Len(before) : all[i] = before[i]
         /\ \A i \in 1..Len(text) : all[Len(before) + i] = text[i]
         /\ all[Len(before) + Len(text) + 1] = b
         /\ Len(before) \in Nat /\ Len(text) \in Nat /\ Len(rest) \in Nat
<1> TAKE all
<1> HAVE all = (before \o (text \o <<b>>)) \o rest
<1>1. Len(before) \in Nat /\ Len(text) \in Nat /\ Len(rest) \in Nat
    BY DEF Texts
<1>2. PICK line : line = text \o <<b>>
    OBVIOUS
<1>3. /\ line \in Seq(Byte) /\ Len(line) = Len(text) + 1 /\ line[Len(text) + 1] = b
      /\ \A k \in 1..Len(text) : line[k] = text[k]
  <2>1. /\ Len(text \o <<b>>) = Len(text) + 1 /\ (text \o <<b>>)[Len(text) + 1] = b
        /\ \A k \in 1..Len(text) : (text \o <<b>>)[k] = text[k]
      BY LastByte DEF Texts
  <2>2. text \o <<b>> \in Seq(Byte)
      BY ConcatProperties DEF Texts
  <2>3. QED
      BY <1>2, <2>1, <2>2
<1>4. PICK both : both = before \o line
    OBVIOUS
<1>5. /\ both \in Seq(Byte) /\ Len(both) = Len(before) + Len(text) + 1
      /\ \A i \in 1..Len(before) : both[i] = before[i]
      /\ \A i \in 1..Len(line) : both[Len(before) + i] = line[i]
  <2>1. before \o line \in Seq(Byte) /\ Len(before \o line) = Len(before) + Len(line)
        /\ \A i \in 1..(Len(before) + Len(line)) :
             (before \o line)[i] = IF i <= Len(before) THEN before[i] ELSE line[i - Len(before)]
      BY <1>3, ConcatProperties DEF Texts
  <2>2. \A i \in 1..Len(before) : both[i] = before[i]
      BY <1>1, <1>3, <1>4, <2>1
  <2>3. ASSUME NEW i \in 1..Len(line) PROVE both[Len(before) + i] = line[i]
    <3>1. /\ Len(before) + i \in 1..(Len(before) + Len(line)) /\ ~(Len(before) + i <= Len(before))
          /\ (Len(before) + i) - Len(before) = i
        BY <1>1, <1>3
    <3>2. QED
        BY <1>4, <2>1, <3>1
  <2>4. QED
      BY <1>1, <1>3, <1>4, <2>1, <2>2, <2>3
<1>6. /\ all \in Seq(Byte) /\ Len(all) = Len(both) + Len(rest)
      /\ \A i \in 1..Len(both) : all[i] = both[i]
  <2>1. both \o rest \in Seq(Byte) /\ Len(both \o rest) = Len(both) + Len(rest)
        /\ \A i \in 1..(Len(both) + Len(rest)) :
             (both \o rest)[i] = IF i <= Len(both) THEN both[i] ELSE rest[i - Len(both)]
      BY <1>5, ConcatProperties DEF Texts
  <2>2. all = both \o rest
      BY <1>2, <1>4
  <2>3. Len(both) \in Nat
      BY <1>1, <1>5
  <2>4. \A i \in 1..Len(both) : i \in 1..(Len(both) + Len(rest)) /\ i <= Len(both)
      BY <1>1, <2>3
  <2>5. \A i \in 1..Len(both) : all[i] = both[i]
      BY <2>1, <2>2, <2>4
  <2>6. QED
      BY <2>1, <2>2, <2>5
<1>7. \A i \in 1..Len(before) : all[i] = before[i]
  <2>1. \A i \in 1..Len(before) : i \in 1..Len(both)
      BY <1>1, <1>5
  <2>2. QED
      BY <1>5, <1>6, <2>1
<1>8. \A i \in 1..(Len(text) + 1) : all[Len(before) + i] = line[i]
  <2>1. \A i \in 1..(Len(text) + 1) : Len(before) + i \in 1..Len(both)
      BY <1>1, <1>5
  <2>2. QED
      BY <1>3, <1>5, <1>6, <2>1
<1>9. all[Len(before) + Len(text) + 1] = b
  <2>1. Len(text) + 1 \in 1..(Len(text) + 1) /\ Len(before) + (Len(text) + 1) = Len(before) + Len(text) + 1
      BY <1>1
  <2>2. QED
      BY <1>3, <1>8, <2>1
<1>10. \A i \in 1..Len(text) : all[Len(before) + i] = text[i]
  <2>1. \A i \in 1..Len(text) : i \in 1..(Len(text) + 1)
      BY <1>1
  <2>2. QED
      BY <1>3, <1>8, <2>1
<1>11. Len(all) = Len(before) + Len(text) + 1 + Len(rest)
    BY <1>5, <1>6
<1>12. QED
    BY <1>1, <1>6, <1>7, <1>9, <1>10, <1>11 DEF Texts

\* If the lines of a request fit, a line that fills the buffer ends there.
LEMMA LinesThatFit ==
  ASSUME NEW before \in Texts, NEW text \in Texts, NEW b \in Byte, NEW rest \in Texts, NEW all,
         all = (before \o (text \o <<b>>)) \o rest, Fits(all),
         \A k \in 1..Len(text) : text[k] # LF,
         b = LF \/ Len(text) + 1 = MAXLINE - 1
  PROVE  b = LF
<1>1. PICK n \in Nat, m \in Nat : n = Len(before) /\ m = Len(text)
    BY DEF Texts
<1>2. /\ all \in Seq(Byte) /\ Len(all) = n + m + 1 + Len(rest) /\ Len(rest) \in Nat
      /\ \A i \in 1..m : all[n + i] = text[i]
      /\ all[n + m + 1] = b
    BY <1>1, JoinedBytes DEF Texts
<1>3. SUFFICES ASSUME m + 1 = MAXLINE - 1 PROVE b = LF
    BY <1>1
<1>4. n + 1 \in 1..(Len(all) - MAXLINE + 2) /\ (n + 1) + MAXLINE - 2 = n + m + 1
    BY <1>2, <1>3, TalkAssumption
<1>5. LF \in Range(SubSeq(all, n + 1, n + m + 1))
    BY <1>4 DEF Fits
<1>6. PICK i \in DOMAIN SubSeq(all, n + 1, n + m + 1) : SubSeq(all, n + 1, n + m + 1)[i] = LF
    BY <1>5 DEF Range
<1>7. i \in 1..(m + 1) /\ SubSeq(all, n + 1, n + m + 1)[i] = all[n + i]
  <2>1. Len(SubSeq(all, n + 1, n + m + 1)) = m + 1 /\ DOMAIN SubSeq(all, n + 1, n + m + 1) = 1..(m + 1)
        /\ \A j \in 1..(m + 1) : SubSeq(all, n + 1, n + m + 1)[j] = all[(n + 1) + j - 1]
    <3>1. n + 1 \in 1..(Len(all) + 1) /\ n + m + 1 \in ((n + 1) - 1)..Len(all)
        BY <1>2
    <3>2. (n + m + 1) - (n + 1) + 1 = m + 1
        OBVIOUS
    <3>3. QED
        BY <1>2, <3>1, <3>2, SMTT(40)
  <2>2. (n + 1) + i - 1 = n + i
      BY <1>6, <2>1
  <2>3. QED
      BY <1>6, <2>1, <2>2
<1>8. i = m + 1
  <2>1. i \in 1..m => text[i] = LF
      BY <1>2, <1>6, <1>7
  <2>2. QED
      BY <1>1, <1>7, <2>1
<1>9. QED
    BY <1>2, <1>6, <1>7, <1>8, SMTT(40)

\* A line that is not empty ends no headers; an empty one does, and it is the first.
LEMMA OneMoreLine ==
  ASSUME NEW before \in Texts, NEW text \in Texts, NEW rest \in Texts,
         \A k \in 1..Len(text) : text[k] # LF,
         before = <<>> \/ (before[Len(before)] = LF /\ NoEnd(before))
  PROVE  \A line, now, all :
           line = text \o <<LF>> /\ now = before \o line /\ all = now \o rest =>
             /\ now \in Texts /\ Len(now) # 0 /\ now[Len(now)] = LF
             /\ before = <<>> \/ line # BLANK => NoEnd(now)
             /\ before # <<>> /\ line = BLANK => now = HeaderPart(all)
<1>0. SUFFICES ASSUME NEW line, NEW now, NEW all,
                      line = text \o <<LF>> /\ now = before \o line /\ all = now \o rest
               PROVE  /\ now \in Texts /\ Len(now) # 0 /\ now[Len(now)] = LF
                      /\ before = <<>> \/ line # BLANK => NoEnd(now)
                      /\ before # <<>> /\ line = BLANK => now = HeaderPart(all)
    OBVIOUS
<1>1. PICK n \in Nat, m \in Nat : n = Len(before) /\ m = Len(text)
    BY DEF Texts
<1>2. LF \in Byte /\ CR \in Byte /\ <<>> \in Texts /\ Len(<<>>) = 0 /\ CR # LF
    BY DEF Byte, Texts, CR, LF
<1>3. /\ all \in Texts /\ Len(all) = n + m + 1 + Len(rest) /\ Len(rest) \in Nat
      /\ \A i \in 1..n : all[i] = before[i]
      /\ \A i \in 1..m : all[n + i] = text[i]
      /\ all[n + m + 1] = LF
  <2>1. PICK b \in Byte : b = LF
      BY <1>2
  <2>2. PICK whole : whole = (before \o (text \o <<b>>)) \o rest
      OBVIOUS
  <2>3. /\ whole \in Texts /\ Len(whole) = Len(before) + Len(text) + 1 + Len(rest)
        /\ \A i \in 1..Len(before) : whole[i] = before[i]
        /\ \A i \in 1..Len(text) : whole[Len(before) + i] = text[i]
        /\ whole[Len(before) + Len(text) + 1] = b
        /\ Len(before) \in Nat /\ Len(text) \in Nat /\ Len(rest) \in Nat
    <3>1. \A each : each = (before \o (text \o <<b>>)) \o rest =>
            /\ each \in Texts /\ Len(each) = Len(before) + Len(text) + 1 + Len(rest)
            /\ \A i \in 1..Len(before) : each[i] = before[i]
            /\ \A i \in 1..Len(text) : each[Len(before) + i] = text[i]
            /\ each[Len(before) + Len(text) + 1] = b
            /\ Len(before) \in Nat /\ Len(text) \in Nat /\ Len(rest) \in Nat
      <4>1. b \in Byte
          BY <2>1
      <4>2. QED
          BY <4>1, JoinedBytes DEF Texts
    <3>2. QED
        BY <2>2, <3>1
  <2>4. all = whole
      BY <1>0, <2>1, <2>2
  <2>5. QED
      BY <1>1, <2>1, <2>3, <2>4
<1>4. /\ now \in Texts /\ Len(now) = n + m + 1
      /\ \A i \in 1..n : now[i] = before[i]
      /\ \A i \in 1..m : now[n + i] = text[i]
      /\ now[n + m + 1] = LF
  <2>1. now \in Texts /\ now = now \o <<>>
    <3>1. <<LF>> \in Texts
        BY <1>2 DEF Texts
    <3>2. line \in Texts
        BY <1>0, <3>1, JoinTexts
    <3>3. now \in Texts
        BY <1>0, <3>2, JoinTexts
    <3>4. QED
        BY <3>3, JoinTexts
  <2>2. now = (before \o (text \o <<LF>>)) \o <<>>
      BY <1>0, <2>1
  <2>3. /\ Len(now) = n + m + 1 + Len(<<>>)
        /\ \A i \in 1..n : now[i] = before[i]
        /\ \A i \in 1..m : now[n + i] = text[i]
        /\ now[n + m + 1] = LF
      BY <1>1, <1>2, <2>2, JoinedBytes
  <2>4. QED
      BY <1>2, <2>1, <2>3
<1>5. Len(now) # 0 /\ now[Len(now)] = LF
    BY <1>4
<1>6. n = 0 <=> before = <<>>
    BY <1>1, EmptySeq DEF Texts
<1>7. n # 0 => now[n] = LF
    BY <1>1, <1>4, <1>6
<1>8. ASSUME NEW k \in 1..Len(now), EndsAt(now, k)
      PROVE  k = n + 2 /\ m = 1 /\ n # 0 /\ text[1] = CR
  <2>1. k > 2 /\ now[k - 2] = LF /\ now[k - 1] = CR /\ now[k] = LF
      BY <1>4, <1>8, EndsAtBytes
  <2>2. \A i \in (n + 1)..(n + m) : now[i] # LF
    <3>1. SUFFICES ASSUME NEW i \in (n + 1)..(n + m) PROVE now[i] # LF
        OBVIOUS
    <3>2. PICK j \in 1..m : i = n + j
      <4>1. i - n \in 1..m /\ i = n + (i - n)
          OBVIOUS
      <4>2. QED
          BY <4>1
    <3>3. now[n + j] = text[j] /\ text[j] # LF
        BY <1>1, <1>4
    <3>4. QED
        BY <3>2, <3>3
  <2>3. ~(k <= n)
    <3>1. SUFFICES ASSUME k <= n PROVE FALSE
        OBVIOUS
    <3>2. k \in 1..n /\ k - 1 \in 1..n /\ k - 2 \in 1..n
        BY <2>1, <3>1, <1>4
    <3>3. before[k - 2] = LF /\ before[k - 1] = CR /\ before[k] = LF
        BY <1>4, <2>1, <3>2
    <3>4. EndsAt(before, k)
        BY <1>1, <2>1, <3>2, <3>3, EndsAtBytes
    <3>5. QED
        BY <1>1, <1>6, <3>2, <3>4 DEF NoEnd
  <2>4. k = n + m + 1
      BY <1>4, <2>1, <2>2, <2>3
  <2>5. k - 2 \notin (n + 1)..(n + m) /\ k - 2 = n + m - 1
      BY <2>1, <2>2, <2>4
  <2>6. m <= 1
      BY <2>5
  <2>7. m # 0
    <3>1. m = 0 => k - 1 = n /\ n # 0
        BY <2>1, <2>4
    <3>2. QED
        BY <1>2, <1>7, <2>1, <3>1
  <2>8. m = 1
      BY <2>6, <2>7
  <2>9. n # 0
      BY <2>1, <2>4, <2>8
  <2>10. text[1] = CR
    <3>1. 1 \in 1..m /\ k - 1 = n + 1
        BY <2>4, <2>8
    <3>2. QED
        BY <1>4, <2>1, <3>1
  <2>11. QED
      BY <2>4, <2>8, <2>9, <2>10
<1>9. m = 1 /\ text[1] = CR => line = BLANK
  <2>1. SUFFICES ASSUME m = 1, text[1] = CR PROVE line = BLANK
      OBVIOUS
  <2>2. text = <<CR>>
    <3>1. text \in Seq(Byte) /\ <<CR>> \in Seq(Byte) /\ Len(text) = 1 /\ Len(<<CR>>) = 1
          /\ text[1] = <<CR>>[1]
        BY <1>1, <1>2, <2>1 DEF Texts
    <3>2. \A i \in 1..Len(text) : i = 1
        BY <3>1
    <3>4. PICK one \in Seq(Byte) : one = <<CR>>
        BY <3>1
    <3>5. text = one
        BY <3>1, <3>2, <3>4, SeqEqual
    <3>6. QED
        BY <3>4, <3>5
  <2>3. QED
      BY <1>0, <1>2, <2>2, ThreeInARow DEF BLANK
<1>10. before = <<>> \/ line # BLANK => NoEnd(now)
    BY <1>6, <1>8, <1>9 DEF NoEnd
<1>11. ASSUME before # <<>>, line = BLANK PROVE now = HeaderPart(all)
  <2>1. m = 1 /\ text[1] = CR
    <3>1. Len(text \o <<LF>>) = m + 1 /\ (m # 0 => (text \o <<LF>>)[1] = text[1])
      <4>1. /\ Len(text \o <<LF>>) = Len(text) + 1
            /\ \A k \in 1..Len(text) : (text \o <<LF>>)[k] = text[k]
          BY <1>2, LastByte DEF Texts
      <4>2. m # 0 => 1 \in 1..m
          OBVIOUS
      <4>3. QED
          BY <1>1, <4>1, <4>2
    <3>2. Len(BLANK) = 2 /\ BLANK[1] = CR
        BY DEF BLANK
    <3>3. BLANK = text \o <<LF>>
        BY <1>0, <1>11
    <3>4. m + 1 = 2
        BY <3>1, <3>2, <3>3
    <3>5. m = 1
        BY <3>4
    <3>6. QED
        BY <3>1, <3>2, <3>3, <3>5
  <2>2. n # 0 /\ Len(now) = n + 2
      BY <1>4, <1>6, <1>11, <2>1
  <2>3. \A i \in 1..(n + 2) : all[i] = now[i]
    <3>1. \A i \in 1..(n + 2) : i \in 1..n \/ i = n + 1 \/ i = n + 2
        OBVIOUS
    <3>2. all[n + 1] = now[n + 1] /\ all[n + 2] = now[n + 2]
      <4>1. 1 \in 1..m /\ n + m + 1 = n + 2
          BY <2>1
      <4>2. QED
          BY <1>3, <1>4, <4>1
    <3>3. QED
        BY <1>3, <1>4, <3>1, <3>2
  <2>4. \A k \in 1..(n + 2) : EndsAt(all, k) <=> EndsAt(now, k)
    <3>1. SUFFICES ASSUME NEW k \in 1..(n + 2) PROVE EndsAt(all, k) <=> EndsAt(now, k)
        OBVIOUS
    <3>2. k \in 1..Len(all) /\ k \in 1..Len(now)
        BY <1>3, <2>1, <2>2
    <3>3. k > 2 => k - 2 \in 1..(n + 2) /\ k - 1 \in 1..(n + 2)
        OBVIOUS
    <3>4. /\ EndsAt(now, k) <=> k > 2 /\ now[k - 2] = LF /\ now[k - 1] = CR /\ now[k] = LF
          /\ EndsAt(all, k) <=> k > 2 /\ all[k - 2] = LF /\ all[k - 1] = CR /\ all[k] = LF
        BY <1>3, <1>4, <3>2, EndsAtBytes
    <3>5. QED
        BY <2>3, <3>3, <3>4
  <2>5. EndsAt(now, n + 2)
    <3>1. n + 2 \in 1..Len(now) /\ n + 2 > 2 /\ (n + 2) - 2 = n /\ (n + 2) - 1 = n + 1 /\ 1 \in 1..m
        BY <2>1, <2>2
    <3>2. now[n] = LF /\ now[n + 1] = CR /\ now[n + 2] = LF
        BY <1>4, <1>5, <1>7, <2>1, <2>2, <3>1
    <3>3. QED
        BY <1>4, <3>1, <3>2, EndsAtBytes
  <2>6. DOMAIN all = 1..Len(all) /\ n + 2 \in 1..Len(all)
      BY <1>3, <2>1 DEF Texts
  <2>7. EndsAt(all, n + 2) /\ \A k \in 1..((n + 2) - 1) : ~EndsAt(all, k)
    <3>1. \A k \in 1..((n + 2) - 1) : k \in 1..Len(now) /\ k \in 1..(n + 2) /\ k # n + 2
        BY <2>2
    <3>2. \A k \in 1..((n + 2) - 1) : ~EndsAt(now, k)
        BY <1>8, <3>1
    <3>3. n + 2 \in 1..(n + 2)
        OBVIOUS
    <3>4. QED
        BY <2>4, <2>5, <3>1, <3>2, <3>3
  <2>8. \A k \in DOMAIN all : EndsAt(all, k) /\ (\A j \in 1..(k - 1) : ~EndsAt(all, j)) => k = n + 2
    <3>1. ASSUME NEW k \in 1..Len(all), EndsAt(all, k), \A j \in 1..(k - 1) : ~EndsAt(all, j),
                 k # n + 2
          PROVE  FALSE
      <4>1. k \in 1..((n + 2) - 1) \/ n + 2 \in 1..(k - 1)
          BY <3>1
      <4>2. QED
          BY <2>7, <3>1, <4>1
    <3>2. QED
        BY <2>6, <3>1
  <2>9. (CHOOSE k \in DOMAIN all : EndsAt(all, k) /\ \A j \in 1..(k - 1) : ~EndsAt(all, j)) = n + 2
      BY <2>6, <2>7, <2>8
  <2>10. HeaderPart(all) = SubSeq(all, 1, n + 2)
      BY <2>9 DEF HeaderPart
  <2>11. SubSeq(all, 1, n + 2) = now
    <3>1. Len(SubSeq(all, 1, n + 2)) = n + 2 /\ SubSeq(all, 1, n + 2) \in Seq(Byte)
          /\ \A i \in 1..(n + 2) : SubSeq(all, 1, n + 2)[i] = all[i]
      <4>1. 1 \in 1..(Len(all) + 1) /\ n + 2 \in (1 - 1)..Len(all) /\ all \in Seq(Byte)
          BY <1>3, <2>6 DEF Texts
      <4>2. (n + 2) - 1 + 1 = n + 2 /\ \A i \in 1..(n + 2) : 1 + i - 1 = i
          OBVIOUS
      <4>3. \A i \in 1..(n + 2) : all[i] \in Byte
        <5>1. Len(all) \in Nat /\ \A i \in 1..Len(all) : all[i] \in Byte
            BY <4>1
        <5>2. \A i \in 1..(n + 2) : i \in 1..Len(all)
            BY <2>6, <5>1
        <5>3. QED
            BY <5>1, <5>2
      <4>4. PICK part : part = SubSeq(all, 1, n + 2)
          OBVIOUS
      <4>5. part \in Seq(Byte) /\ Len(part) = n + 2 /\ \A i \in 1..(n + 2) : part[i] = all[1 + i - 1]
        <5>1. 1 \in Int /\ n + 2 \in Int /\ 1 <= n + 2 /\ (n + 2) - 1 + 1 = n + 2
            OBVIOUS
        <5>2. QED
            BY <4>3, <4>4, <5>1, SubSeqProperties
      <4>6. QED
          BY <4>2, <4>4, <4>5
    <3>2. QED
        BY <1>4, <2>2, <2>3, <3>1, SeqEqual DEF Texts
  <2>12. QED
      BY <2>10, <2>11
<1>12. QED
    BY <1>4, <1>5, <1>10, <1>11

HeaderInv ==
  /\ said["server"] \in {<<>>, asks.bytes}
  /\ server \in {"down", "accept", "line"} /\ "server" \in holds => Delivered("server") = <<>>
  /\ server = "headers" => \/ Over("server")
                           \/ /\ Delivered("server") # <<>> /\ NoEnd(Delivered("server"))
                              /\ Delivered("server")[Len(Delivered("server"))] = LF
  /\ server \in {"queued", "fork"} =>
       \/ Delivered("server") = HeaderPart(asks.bytes)
       \/ PeerGone("server") /\ NoHeader

HeadersInv == Proper(asks.bytes) => HeaderInv

\* Only the request parser reads lines, moves on to the headers and queues.
LEMMA ServerReads ==
  ASSUME TypeInv, HoldsInv, Next, ~PreProcess
  PROVE  /\ lines'["server"] = lines["server"] /\ asks' = asks
         /\ said'["server"] = said["server"]
            \/ (client = "connect" /\ said'["server"] = said["server"] \o asks.bytes)
         /\ server' = "headers" => server = "headers"
         /\ server' \in {"queued", "fork"} => server \in {"queued", "fork"}
         /\ server' \in {"down", "accept", "line"} /\ "server" \in holds' =>
              client = "connect" \/ (server \in {"down", "accept", "line"} /\ "server" \in holds)
<1> USE DEF HoldsInv, OpenInv
<1>0. "server" \in Reader /\ "client" \in Reader /\ {"client", "server", "cgi"} = Writer
      /\ said \in [Reader -> Texts]
    BY DEF Reader, Writer, TypeInv, DataInv
<1>1. ASSUME NEW w \in Writer, WriteSome(w) \/ WriteKills(w)
      PROVE  /\ UNCHANGED <<asks, said, lines>> /\ server' \in {server, "killed"}
             /\ holds' \subseteq holds
    BY <1>1 DEF WriteSome, WriteKills, read
<1>2. ASSUME NEW s \in Reader, Refill(s) \/ ReadFails(s) \/ TakeByte(s)
      PROVE  UNCHANGED <<asks, said, lines>> /\ server' \in {server, "exit"} /\ holds' \subseteq holds
    BY <1>2 DEF Refill, ReadFails, TakeByte, talk, read
<1>3. CASE ServeRefused \/ ServeStatic \/ ServeDynamic \/ ForkRefused \/ ForkCgi
  <2>1. UNCHANGED <<asks, lines>> /\ server' \in {"close", "exit", "refork", "fork"}
        /\ (server' = "fork" => server = "queued")
      BY <1>3 DEF ServeRefused, ServeStatic, ServeDynamic, ForkRefused, ForkCgi, read
  <2>2. said'["server"] = said["server"]
    <3>1. said' = said \/ \E m : said' = [said EXCEPT !["client"] = m]
        BY <1>3 DEF ServeRefused, ServeStatic, ServeDynamic, ForkRefused, ForkCgi, Say, Other
    <3>2. QED
        BY <1>0, <3>1
  <2>3. QED
      BY <2>1, <2>2
<1>4. CASE ServeFails \/ CloseConn \/ CgiExits
  <2>1. /\ UNCHANGED <<asks, said, lines>> /\ server' \in {server, "exit", "accept"}
        /\ holds' \subseteq holds /\ (server' = "accept" => server = "accept" \/ "server" \notin holds')
      BY <1>4 DEF ServeFails, CloseConn, CgiExits, Hangup, read
  <2>2. QED
      BY <2>1
<1>5. CASE Bind \/ Listen
    BY <1>5 DEF Bind, Listen, talk, read
<1>6. CASE Accept
  <2>1. UNCHANGED <<asks, said, lines>> /\ server = "accept" /\ "server" \in holds
        /\ server' \in {"line", "exit"}
      BY <1>6 DEF Accept, read
  <2>2. QED
      BY <2>1
<1>7. CASE Connect
  <2>1. UNCHANGED <<asks, lines, server>> /\ client = "connect"
      BY <1>7 DEF Connect, read
  <2>2. said' = said \/ said' = [said EXCEPT !["server"] = said["server"] \o asks.bytes]
      BY <1>7 DEF Connect, Say, Other
  <2>3. QED
      BY <1>0, <2>1, <2>2
<1>8. CASE PrintHeader \/ PrintBody
  <2>1. UNCHANGED <<asks, server, holds, said>> /\ \E line : Returns("client", line)
      BY <1>8 DEF PrintHeader, PrintBody, talk
  <2>2. lines'["server"] = lines["server"]
      BY <1>0, <2>1, ReturnsDelivers DEF TypeInv
  <2>3. QED
      BY <2>1, <2>2
<1>9. CASE CloseClient
  <2>1. UNCHANGED <<asks, server, said, lines>> /\ holds' \subseteq holds
      BY <1>9 DEF CloseClient, Hangup, read
  <2>2. QED
      BY <2>1
<1>10. QED
    BY <1>1, <1>2, <1>3, <1>4, <1>5, <1>6, <1>7, <1>8, <1>9, Steps DEF Serve

\* The next byte in the server's Rio buffer, and a text the request starts with.
Upcoming(b, left) == rio["server"] = <<b>> \o left

AsksFor(text) == \E rest \in Texts : asks.bytes = text \o rest

\* What the server has in its buffers continues what it was given.
LEMMA RequestSoFar ==
  ASSUME TypeInv, StreamInv, said["server"] \in {<<>>, asks.bytes}
  PROVE  \A b, left, before, text :
           (/\ b \in Byte /\ left \in Texts /\ before \in Texts /\ text \in Texts
            /\ Upcoming(b, left) /\ before = Delivered("server") /\ text = usrbuf["server"])
           => AsksFor(before \o (text \o <<b>>))
<1>1. SUFFICES ASSUME NEW b, NEW left, NEW before, NEW text,
                      /\ b \in Byte /\ left \in Texts /\ before \in Texts /\ text \in Texts
                      /\ Upcoming(b, left) /\ before = Delivered("server")
                      /\ text = usrbuf["server"]
               PROVE  AsksFor(before \o (text \o <<b>>))
    OBVIOUS
<1>2. b \in Byte /\ left \in Texts /\ before \in Texts /\ text \in Texts
    BY <1>1
<1>3. PICK more, under : /\ said["server"] = Heard("server") \o more /\ under = net["server"]
                         /\ more \in Texts /\ under \in Texts
  <2>1. "server" \in Reader
      BY DEF Reader
  <2>2. PICK more \in Texts : said["server"] = Heard("server") \o more
      BY <2>1 DEF StreamInv, Stream
  <2>3. net["server"] \in Texts
      BY <2>1 DEF TypeInv, DataInv
  <2>4. QED
      BY <2>2, <2>3
<1>4. PICK one : one = <<b>> /\ one \in Texts
  <2>1. <<b>> \in Texts
      BY <1>2 DEF Texts
  <2>2. QED
      BY <2>1
<1>5. more \in Texts /\ under \in Texts /\ one \in Texts
    BY <1>3, <1>4
<1>6. PICK line, now : line = before \o text /\ now = line \o one /\ line \in Texts /\ now \in Texts
  <2>1. before \o text \in Texts
      BY <1>2, JoinTexts
  <2>2. (before \o text) \o one \in Texts
      BY <1>5, <2>1, JoinTexts
  <2>3. QED
      BY <2>1, <2>2
<1>7. line \in Texts /\ now \in Texts
    BY <1>6
<1>8. PICK after, rest : /\ after = left \o under /\ rest = after \o more
                         /\ after \in Texts /\ rest \in Texts
  <2>1. left \o under \in Texts
      BY <1>2, <1>5, JoinTexts
  <2>2. (left \o under) \o more \in Texts
      BY <1>5, <2>1, JoinTexts
  <2>3. QED
      BY <2>1, <2>2
<1>9. rest \in Texts
    BY <1>8
<1>10. Heard("server") = (line \o (one \o left)) \o under
    BY <1>1, <1>3, <1>4, <1>6 DEF Heard, Upcoming
<1>11. line \o (one \o left) = (line \o one) \o left
  <2>1. line \in Texts /\ one \in Texts /\ left \in Texts
      BY <1>2, <1>5, <1>7
  <2>2. QED
      BY <2>1, JoinInAnyOrder
<1>12. (now \o left) \o under = now \o (left \o under)
  <2>1. now \in Texts /\ left \in Texts /\ under \in Texts
      BY <1>2, <1>5, <1>7
  <2>2. QED
      BY <2>1, JoinInAnyOrder
<1>13. (now \o after) \o more = now \o (after \o more)
  <2>1. now \in Texts /\ after \in Texts /\ more \in Texts
      BY <1>5, <1>7, <1>8
  <2>2. QED
      BY <2>1, JoinInAnyOrder
<1>14. said["server"] = now \o rest
    BY <1>3, <1>6, <1>8, <1>10, <1>11, <1>12, <1>13
<1>15. now = before \o (text \o <<b>>)
  <2>0. before \in Texts /\ text \in Texts /\ one \in Texts
      BY <1>2, <1>5
  <2>1. (before \o text) \o one = before \o (text \o one)
      BY <2>0, JoinInAnyOrder
  <2>2. QED
      BY <1>4, <1>6, <2>1
<1>16. said["server"] # <<>>
  <2>1. Len(now \o rest) = Len(now) + Len(rest) /\ Len(now) \in Nat /\ Len(rest) \in Nat
      BY <1>7, <1>9, ConcatProperties DEF Texts
  <2>2. Len(now) # 0
    <3>1. PICK all : all = (before \o (text \o <<b>>)) \o <<>>
        OBVIOUS
    <3>2. <<>> \in Texts /\ Len(<<>>) = 0
        BY DEF Texts
    <3>3. Len(all) = Len(before) + Len(text) + 1 + Len(<<>>) /\ Len(before) \in Nat /\ Len(text) \in Nat
        BY <1>2, <3>1, <3>2, JoinedBytes DEF Texts
    <3>4. now \o <<>> = now
        BY <1>7, JoinTexts
    <3>5. QED
        BY <1>15, <3>1, <3>2, <3>3, <3>4
  <2>3. Len(said["server"]) # 0
      BY <1>14, <2>1, <2>2
  <2>4. QED
      BY <2>3
<1>17. QED
    BY <1>9, <1>14, <1>15, <1>16 DEF AsksFor

\* What a line that is read off a proper request does to what was given.
LEMMA ProperLine ==
  ASSUME TypeInv, HoldsInv, StreamInv, LinesInv, Proper(asks.bytes),
         said["server"] \in {<<>>, asks.bytes}, NEW line, Returns("server", line),
         UNCHANGED <<net, holds, reset>>
  PROVE  \A before \in Texts :
           before = Delivered("server")
             /\ (before = <<>> \/ (before[Len(before)] = LF /\ NoEnd(before))) =>
             \/ Over("server")' /\ line # BLANK
             \/ LET now == Delivered("server")'
                IN  /\ now # <<>> /\ now[Len(now)] = LF
                    /\ before = <<>> \/ line # BLANK => NoEnd(now)
                    /\ before # <<>> /\ line = BLANK => now = HeaderPart(asks.bytes)
<1>A. SUFFICES ASSUME NEW before, before \in Texts, before = Delivered("server"),
                      before = <<>> \/ (before[Len(before)] = LF /\ NoEnd(before))
               PROVE  \/ Over("server")' /\ line # BLANK
                      \/ LET now == Delivered("server")'
                         IN  /\ now # <<>> /\ now[Len(now)] = LF
                             /\ before = <<>> \/ line # BLANK => NoEnd(now)
                             /\ before # <<>> /\ line = BLANK => now = HeaderPart(asks.bytes)
    OBVIOUS
<1>0. "server" \in Reader
    BY DEF Reader
<1>1. PICK text : text = usrbuf["server"] /\ text \in Texts
    BY <1>0, HeardTypes DEF TypeInv
<1>2. \A k \in 1..Len(text) : text[k] # LF
    BY <1>0, <1>1 DEF LinesInv, LineInv
<1>3. Delivered("server")' = before \o line /\ usrbuf'["server"] = <<>>
    BY <1>A, <1>0, ReturnsDelivers DEF TypeInv
<1>4. CASE AtEOF("server") /\ line = usrbuf["server"] /\ rio' = rio
  <2>1. Over("server")'
      BY <1>3, <1>4 DEF AtEOF, Over, PeerGone
  <2>2. line # BLANK
    <3>1. Len(BLANK) = 2 /\ BLANK[2] = LF /\ 2 \in 1..2
        BY DEF BLANK
    <3>2. QED
        BY <1>1, <1>2, <1>4, <3>1
  <2>3. QED
      BY <2>1, <2>2
<1>5. CASE \E b \in Byte, left \in Texts :
             /\ rio["server"] = <<b>> \o left /\ line = text \o <<b>> /\ LineFull(line)
             /\ Len(line) = Len(text) + 1
  <2>1. PICK b, left :
             /\ b \in Byte /\ left \in Texts
             /\ rio["server"] = <<b>> \o left /\ line = text \o <<b>> /\ LineFull(line)
             /\ Len(line) = Len(text) + 1
      BY <1>5
  <2>2. PICK rest : rest \in Texts /\ asks.bytes = (before \o (text \o <<b>>)) \o rest
    <3>1. /\ b \in Byte /\ left \in Texts /\ before \in Texts /\ text \in Texts
          /\ Upcoming(b, left) /\ before = Delivered("server") /\ text = usrbuf["server"]
        BY <1>A, <1>1, <2>1 DEF Upcoming
    <3>2. AsksFor(before \o (text \o <<b>>))
        BY <3>1, RequestSoFar
    <3>3. QED
        BY <3>2 DEF AsksFor
  <2>3. Last(text \o <<b>>) = b
      BY <1>1, <2>1, LastByte DEF Texts
  <2>4. b = LF \/ Len(text) + 1 = MAXLINE - 1
      BY <2>1, <2>3 DEF LineFull
  <2>5. Fits(asks.bytes)
      BY DEF Proper
  <2>6. PICK all : all = (before \o (text \o <<b>>)) \o rest
      OBVIOUS
  <2>7. Fits(all)
      BY <2>2, <2>5, <2>6
  <2>8. b \in Byte /\ rest \in Texts /\ before \in Texts /\ text \in Texts
      BY <1>A, <1>1, <2>1, <2>2
  <2>9. b = LF
      BY <1>2, <2>4, <2>6, <2>7, <2>8, LinesThatFit
  <2>10. PICK now : now = before \o line
      OBVIOUS
  <2>11. line = text \o <<LF>> /\ all = now \o rest
      BY <2>1, <2>6, <2>9, <2>10
  <2>12. /\ now \in Texts /\ Len(now) # 0 /\ now[Len(now)] = LF
         /\ before = <<>> \/ line # BLANK => NoEnd(now)
         /\ before # <<>> /\ line = BLANK => now = HeaderPart(all)
    <3>1. before = <<>> \/ (before[Len(before)] = LF /\ NoEnd(before))
        BY <1>A
    <3>2. before \in Texts /\ text \in Texts /\ rest \in Texts
        BY <2>8
    <3>3. \A eachline, eachnow, whole :
            eachline = text \o <<LF>> /\ eachnow = before \o eachline /\ whole = eachnow \o rest =>
              /\ eachnow \in Texts /\ Len(eachnow) # 0 /\ eachnow[Len(eachnow)] = LF
              /\ before = <<>> \/ eachline # BLANK => NoEnd(eachnow)
              /\ before # <<>> /\ eachline = BLANK => eachnow = HeaderPart(whole)
        BY <1>2, <3>1, <3>2, OneMoreLine
    <3>4. QED
        BY <2>10, <2>11, <3>3
  <2>13. Delivered("server")' = now /\ all = asks.bytes /\ now # <<>>
      BY <1>3, <2>2, <2>6, <2>10, <2>12
  <2>14. QED
      BY <2>12, <2>13
<1>6. \/ \E b \in Byte, left \in Texts :
           /\ rio["server"] = <<b>> \o left /\ rio' = [rio EXCEPT !["server"] = left]
           /\ line = usrbuf["server"] \o <<b>> /\ <<b>> \in Texts /\ LineFull(line) /\ line # <<>>
           /\ Len(left) <= Len(rio["server"]) /\ Len(line) = Len(usrbuf["server"]) + 1
      \/ AtEOF("server") /\ line = usrbuf["server"] /\ rio' = rio
    BY <1>0, ReturnsLine DEF TypeInv
<1>7. QED
    BY <1>1, <1>4, <1>5, <1>6

\* rio_readlineb returns nothing only when the stream is over.
LEMMA SomethingRead ==
  ASSUME TypeInv, ~Over("server"), Returns("server", Line("server"))
  PROVE  Line("server") # <<>>
<1>1. CASE rio["server"] = <<>>
    BY <1>1 DEF Returns, AtEOF, Line, Over
<1>2. CASE rio["server"] # <<>>
  <2>1. PICK text \in Texts : text = usrbuf["server"]
      BY DEF TypeInv, DataInv, Reader
  <2>2. Append(text, Head(rio["server"])) # <<>>
      BY <2>1 DEF Texts
  <2>3. QED
      BY <1>2, <2>1, <2>2 DEF Line
<1>3. QED
    BY <1>1, <1>2

LEMMA PreProcessHeaders ==
  ASSUME TypeInv, HoldsInv, StreamInv, LinesInv, HeadersInv, PreProcess
  PROVE  HeadersInv'
<1>1. SUFFICES ASSUME Proper(asks.bytes) PROVE HeaderInv'
    BY DEF HeadersInv, PreProcess, RequestLine, RequestHeader
<1>2. HeaderInv /\ asks' = asks /\ UNCHANGED <<net, holds, reset>>
    BY <1>1 DEF HeadersInv, PreProcess, RequestLine, RequestHeader
<1>3. "server" \in Reader /\ "client" \in Reader
    BY DEF Reader
<1>4. said'["server"] = said["server"]
  <2>1. said' = said \/ Say("server", Error)
      BY DEF PreProcess, RequestLine, RequestHeader
  <2>2. QED
      BY <1>3, <2>1 DEF Say, Other, TypeInv, DataInv
<1>5. PICK before \in Texts : before = Delivered("server")
    BY <1>3, HeardTypes DEF TypeInv
<1>6. <<>> \in Texts /\ Len(<<>>) = 0
    BY DEF Texts
<1>7. PICK line : Returns("server", line) /\ line = Line("server")
    BY DEF PreProcess, RequestLine, RequestHeader
<1>8. CASE RequestLine
  <2>1. server = "line" /\ server' \in {"headers", "refused"} /\ "server" \in holds
      BY <1>8 DEF RequestLine, HoldsInv, OpenInv, Serving
  <2>2. before = <<>>
      BY <1>2, <1>5, <2>1 DEF HeaderInv
  <2>3. \/ Over("server")'
        \/ /\ Delivered("server")' # <<>> /\ NoEnd(Delivered("server")')
           /\ Delivered("server")'[Len(Delivered("server")')] = LF
    <3>1. said["server"] \in {<<>>, asks.bytes}
        BY <1>2 DEF HeaderInv
    <3>2. QED
        BY <1>1, <1>2, <1>5, <1>7, <2>2, <3>1, ProperLine
  <2>4. QED
      BY <1>2, <1>4, <2>1, <2>3 DEF HeaderInv, NoEnd
<1>9. CASE RequestHeader
  <2>1. /\ server = "headers" /\ "server" \in holds
        /\ server' \in {"headers", "refused", "queued"}
      BY <1>9 DEF RequestHeader, HoldsInv, OpenInv, Serving
  <2>0. PICK end \in IF line = <<>> /\ NoHeader THEN BOOLEAN ELSE {EndOfHeaders(line)} :
           IF ~end THEN UNCHANGED <<server, todo, said>>
           ELSE server' \in {"refused", "queued"}
      BY <1>7, <1>9 DEF RequestHeader
  <2>2. said["server"] \in {<<>>, asks.bytes}
      BY <1>2 DEF HeaderInv
  <2>3. CASE Over("server")
    <3>1. client # "connect" /\ Next
        BY <2>1 DEF HoldsInv, StartInv, Next, ServerStep
    <3>2. Over("server")' /\ lines'["server"] = lines["server"]
        BY <1>3, <2>3, <3>1, OverStays
    <3>3. line = <<>>
        BY <1>7, <2>3 DEF Line, Over
    <3>4. BLANK # <<>>
        BY DEF BLANK
    <3>5. server' # "headers" => NoHeader
        BY <2>0, <2>1, <3>3, <3>4 DEF EndOfHeaders
    <3>6. server' # "headers" => PeerGone("server")' /\ NoHeader'
        BY <3>2, <3>5 DEF Over, NoHeader
    <3>7. QED
        BY <1>2, <1>4, <2>1, <3>2, <3>6 DEF HeaderInv
  <2>4. CASE ~Over("server")
    <3>0. (server' = "queued" => line = BLANK) /\ (line = BLANK => server' # "headers")
      <4>1. line # <<>>
          BY <1>7, <2>4, SomethingRead
      <4>2. end = (line = BLANK)
          BY <2>0, <4>1 DEF EndOfHeaders
      <4>3. QED
          BY <2>0, <2>1, <4>2
    <3>1. before # <<>> /\ NoEnd(before) /\ before[Len(before)] = LF
        BY <1>2, <1>5, <2>1, <2>4 DEF HeaderInv
    <3>2. \/ Over("server")' /\ line # BLANK
          \/ LET now == Delivered("server")'
             IN  /\ now # <<>> /\ now[Len(now)] = LF
                 /\ before = <<>> \/ line # BLANK => NoEnd(now)
                 /\ before # <<>> /\ line = BLANK => now = HeaderPart(asks.bytes)
        BY <1>1, <1>2, <1>5, <1>7, <2>2, <3>1, ProperLine
    <3>3. server' = "headers" => \/ Over("server")'
                                 \/ /\ Delivered("server")' # <<>> /\ NoEnd(Delivered("server")')
                                    /\ Delivered("server")'[Len(Delivered("server")')] = LF
        BY <2>1, <3>0, <3>2
    <3>4. server' = "queued" => Delivered("server")' = HeaderPart(asks.bytes)
        BY <3>0, <3>1, <3>2
    <3>5. QED
        BY <1>2, <1>4, <2>1, <3>3, <3>4 DEF HeaderInv, NoEnd
  <2>5. QED
      BY <2>3, <2>4
<1>10. QED
    BY <1>8, <1>9 DEF PreProcess

LEMMA HeadersInvStep ==
  ASSUME TypeInv, HoldsInv, StreamInv, LinesInv, HeadersInv, [Next]_vars
  PROVE  HeadersInv'
<1>1. CASE UNCHANGED vars
  <2>1. HeaderInv' <=> HeaderInv
      BY <1>1 DEF vars, talk, read, HeaderInv, Delivered, Over, PeerGone, NoEnd, NoHeader
  <2>2. QED
      BY <1>1, <2>1 DEF HeadersInv, vars
<1>2. CASE Next /\ ~PreProcess
  <2>1. asks' = asks
      BY <1>2, ServerReads
  <2>2. SUFFICES ASSUME Proper(asks.bytes) PROVE HeaderInv'
      BY <2>1 DEF HeadersInv
  <2>3. HeaderInv
      BY <2>2 DEF HeadersInv
  <2>4. "server" \in Reader /\ Delivered("server")' = Delivered("server")
      BY <1>2, ServerReads DEF Reader, Delivered
  <2>5. client = "connect" => said["server"] = <<>> /\ Delivered("server") = <<>>
      BY <2>4, FlattenEmpty DEF HoldsInv, StartInv, Delivered
  <2>6. said'["server"] \in {<<>>, asks.bytes}
    <3>1. <<>> \o asks.bytes = asks.bytes
        BY Messages, JoinTexts DEF TypeInv, DataInv
    <3>2. QED
        BY <1>2, <2>3, <2>5, <3>1, ServerReads DEF HeaderInv
  <2>7. server' \in {"down", "accept", "line"} /\ "server" \in holds' => Delivered("server")' = <<>>
      BY <1>2, <2>3, <2>4, <2>5, ServerReads DEF HeaderInv
  <2>8. server' = "headers" => \/ Over("server")'
                               \/ /\ Delivered("server")' # <<>> /\ NoEnd(Delivered("server")')
                                  /\ Delivered("server")'[Len(Delivered("server")')] = LF
    <3>1. SUFFICES ASSUME server' = "headers", ~Over("server")'
                   PROVE  /\ Delivered("server")' # <<>> /\ NoEnd(Delivered("server")')
                          /\ Delivered("server")'[Len(Delivered("server")')] = LF
        OBVIOUS
    <3>2. server = "headers"
        BY <1>2, <3>1, ServerReads
    <3>3. client # "connect"
        BY <3>2 DEF HoldsInv, OpenInv, StartInv, Serving
    <3>4. ~Over("server")
        BY <1>2, <2>4, <3>1, <3>3, OverStays
    <3>5. QED
        BY <2>3, <2>4, <3>2, <3>4 DEF HeaderInv
  <2>9. server' \in {"queued", "fork"} => \/ Delivered("server")' = HeaderPart(asks'.bytes)
                                          \/ PeerGone("server")' /\ NoHeader'
    <3>1. SUFFICES ASSUME server' \in {"queued", "fork"},
                          Delivered("server")' # HeaderPart(asks'.bytes)
                   PROVE  PeerGone("server")' /\ NoHeader'
        OBVIOUS
    <3>2. server \in {"queued", "fork"} /\ lines'["server"] = lines["server"]
        BY <1>2, <3>1, ServerReads
    <3>3. PeerGone("server") /\ NoHeader
        BY <2>1, <2>3, <2>4, <3>1, <3>2 DEF HeaderInv
    <3>4. client # "connect"
        BY <3>2 DEF HoldsInv, OpenInv, StartInv, Serving
    <3>5. PeerGone("server")'
        BY <1>2, <2>4, <3>3, <3>4, PeersStayGone
    <3>6. QED
        BY <3>2, <3>3, <3>5 DEF NoHeader
  <2>10. QED
      BY <2>1, <2>6, <2>7, <2>8, <2>9 DEF HeaderInv, NoEnd
<1>3. CASE PreProcess
    BY <1>3, PreProcessHeaders
<1>4. QED
    BY <1>1, <1>2, <1>3

LEMMA HeadersInvInit ==
  ASSUME Init
  PROVE  HeadersInv
BY FlattenEmpty DEF Init, HeadersInv, HeaderInv, Reader

\* requestReadhdrs stops behind the first empty line, not before and not after:
\* a request whose lines fit is given to a worker when what was read of it is
\* exactly its first line and headers, however the bytes arrived, unless the
\* client left before a header was read.
THEOREM HeadersEndAtBlankLineHolds == Spec => []HeadersEndAtBlankLine
<1>1. HeadersInv => HeadersEndAtBlankLine
    BY DEF HeadersInv, HeaderInv, HeadersEndAtBlankLine
<1> DEFINE Inv == TypeInv /\ HoldsInv /\ StreamInv /\ LinesInv /\ HeadersInv
<1>2. Init => Inv
    BY TypeInvInit, HoldsInvInit, StreamInvInit, LinesInvInit, HeadersInvInit
<1>3. Inv /\ [Next]_vars => Inv'
    BY TypeInvStep, HoldsInvStep, StreamInvStep, LinesInvStep, HeadersInvStep
<1>4. Inv => HeadersInv
    OBVIOUS
<1>5. QED
  <2> HIDE DEF Inv
  <2>1. QED
      BY <1>1, <1>2, <1>3, <1>4, PTL DEF Spec

-----------------------------------------------------------------------------
(* The answer: a polite client with an exact request, while no call of the  *)
(* server fails.  The connection is never reset, since each side closes     *)
(* when it has read all that the other said.                                *)

Talking == client \notin {"connect", "failed"}

\* The server has closed its descriptor.
Left == Talking /\ "server" \notin holds

Answered ==
  /\ asks.answer = "static" => said["client"] = Header \o Body
  /\ asks.answer = "dynamic" => said["client"] = CgiHeader \o CgiBody

PlacesInv ==
  /\ ~reset /\ server # "killed"
  /\ client = "failed" => said["server"] = <<>> /\ holds = {}
  /\ listener = "listening" => server # "down"
  /\ Talking => listener = "listening" /\ said["server"] = asks.bytes
  /\ client \in {"close", "done"} =>
       /\ server = "accept" /\ "server" \notin holds /\ "cgi" \notin holds
       /\ net["client"] = <<>> /\ Delivered("client") = said["client"]

SaidInv ==
  /\ server \in {"accept", "line", "headers", "queued"} /\ "server" \in holds =>
       said["client"] = <<>>
  /\ server \in {"refused", "refork", "queued", "fork", "close"} \/ Left =>
       Delivered("server") = asks.bytes
  /\ server \in {"refused", "refork"} => asks.answer = "missing"
  /\ server = "fork" => asks.answer = "dynamic" /\ said["client"] = CgiHeader
  /\ server = "close" \/ Left => Answered

Fine == asks.polite /\ Exact(asks.bytes) /\ server # "exit"

AnswerInv == Fine => PlacesInv /\ SaidInv

LEMMA JoinedLength ==
  ASSUME NEW a \in Texts, NEW b \in Texts
  PROVE  Len(a \o b) = Len(a) + Len(b) /\ Len(a) \in Nat /\ Len(b) \in Nat
BY ConcatProperties DEF Texts

\* Who was given all that was said has nothing to wait for.
LEMMA AllHeard ==
  ASSUME TypeInv, StreamInv, NEW s \in Reader, Delivered(s) = said[s]
  PROVE  /\ usrbuf[s] = <<>> /\ rio[s] = <<>> /\ net[s] = <<>>
         /\ ~reset /\ "client" \in holds => Pending(s) = <<>>
<1>1. PICK d, u, r, n : /\ d = Delivered(s) /\ u = usrbuf[s] /\ r = rio[s] /\ n = net[s]
                        /\ d \in Texts /\ u \in Texts /\ r \in Texts /\ n \in Texts
    BY HeardTypes DEF TypeInv
<1>2. PICK rest \in Texts : /\ said[s] = Heard(s) \o rest
                            /\ ~reset /\ "client" \in holds => rest = Pending(s)
    BY DEF StreamInv, Stream
<1>3. PICK du, dur, durn : /\ du = d \o u /\ dur = du \o r /\ durn = dur \o n
                           /\ du \in Texts /\ dur \in Texts /\ durn \in Texts
  <2>1. d \o u \in Texts
      BY <1>1, JoinTexts
  <2>2. (d \o u) \o r \in Texts
      BY <1>1, <2>1, JoinTexts
  <2>3. ((d \o u) \o r) \o n \in Texts
      BY <1>1, <2>2, JoinTexts
  <2>4. QED
      BY <2>1, <2>2, <2>3
<1>4. d = durn \o rest
    BY <1>1, <1>2, <1>3 DEF Heard
<1>5. Len(du) = Len(d) + Len(u) /\ Len(d) \in Nat /\ Len(u) \in Nat
  <2>1. d \in Texts /\ u \in Texts
      BY <1>1
  <2>2. QED
      BY <1>3, <2>1, JoinedLength
<1>6. Len(dur) = Len(du) + Len(r) /\ Len(r) \in Nat
  <2>1. du \in Texts /\ r \in Texts
      BY <1>1, <1>3
  <2>2. QED
      BY <1>3, <2>1, JoinedLength
<1>7. Len(durn) = Len(dur) + Len(n) /\ Len(n) \in Nat
  <2>1. dur \in Texts /\ n \in Texts
      BY <1>1, <1>3
  <2>2. QED
      BY <1>3, <2>1, JoinedLength
<1>8. Len(d) = Len(durn) + Len(rest) /\ Len(rest) \in Nat
  <2>1. durn \in Texts
      BY <1>3
  <2>2. QED
      BY <1>4, <2>1, JoinedLength
<1>9. Len(u) = 0 /\ Len(r) = 0 /\ Len(n) = 0 /\ Len(rest) = 0
    BY <1>5, <1>6, <1>7, <1>8
<1>10. \A t \in Texts : Len(t) = 0 => t = <<>>
    BY EmptySeq DEF Texts
<1>11. QED
    BY <1>1, <1>2, <1>9, <1>10

\* Everyone is there while a request is served.
LEMMA StillHere ==
  ASSUME TypeInv, HoldsInv, PlacesInv, server \in Serving
  PROVE  client \in {"header", "body"} /\ "client" \in holds /\ "server" \in holds /\ Talking
BY DEF HoldsInv, OpenInv, StartInv, PlacesInv, TypeInv, PlaceInv, Serving, Talking

LEMMA StreamsMove ==
  ASSUME PlacesInv, SaidInv, UNCHANGED <<asks, listener, client, server, holds, said>>, ~reset',
         Delivered("server")' = Delivered("server"), Delivered("client")' = Delivered("client"),
         client \in {"close", "done"} => net'["client"] = <<>>
  PROVE  PlacesInv' /\ SaidInv'
<1>1. PlacesInv'
    BY DEF PlacesInv, Talking
<1>2. SaidInv'
    BY DEF SaidInv, Left, Talking, Answered
<1>3. QED
    BY <1>1, <1>2

LEMMA WriteAnswer ==
  ASSUME TypeInv, HoldsInv, StreamInv, PlacesInv, SaidInv, NEW w \in Writer,
         WriteSome(w) \/ WriteKills(w)
  PROVE  PlacesInv' /\ SaidInv'
<1>1. WriteSome(w)
    BY DEF WriteKills, PlacesInv
<1>2. w \in holds
    BY <1>1, WriterHolds
<1>3. w \in {"client", "server", "cgi"} /\ "server" \in Reader /\ client \in {"connect", "header",
        "body", "close", "done", "failed"}
    BY DEF Writer, Reader, TypeInv, PlaceInv
<1>4. client \in {"header", "body"} /\ "client" \in holds /\ Talking
  <2>1. client \notin {"connect", "failed"}
      BY <1>2 DEF HoldsInv, StartInv, PlacesInv
  <2>2. client \in {"close", "done"} => w = "client" /\ client \in {"header", "body"}
      BY <1>1, <1>2, <1>3 DEF PlacesInv, WriteSome, Up
  <2>3. client \in {"header", "body"}
      BY <1>3, <2>1, <2>2
  <2>4. QED
      BY <2>3 DEF HoldsInv, OpenInv, Talking
<1>5. ~PeerGone(w)
  <2>1. CASE w # "client"
      BY <1>4, <2>1 DEF PeerGone, Peer
  <2>2. CASE w = "client"
    <3>1. todo["client"] # <<>>
        BY <1>1, <2>2 DEF WriteSome
    <3>2. Pending("server") = todo["client"]
        BY DEF Pending
    <3>3. Delivered("server") # said["server"]
        BY <1>3, <1>4, <3>1, <3>2, AllHeard DEF PlacesInv
    <3>4. "server" \in holds
        BY <1>4, <3>3 DEF SaidInv, PlacesInv, Left
    <3>5. QED
        BY <2>2, <3>4 DEF PeerGone, Peer
  <2>3. QED
      BY <2>1, <2>2
<1>6. UNCHANGED <<asks, listener, client, server, holds, said, lines>> /\ ~reset'
    BY <1>1, <1>5 DEF WriteSome, read
<1>7. QED
    BY <1>4, <1>6, StreamsMove DEF Delivered

LEMMA ReadAnswer ==
  ASSUME TypeInv, HoldsInv, PlacesInv, SaidInv, NEW s \in Reader,
         Refill(s) \/ ReadFails(s) \/ TakeByte(s)
  PROVE  PlacesInv' /\ SaidInv'
<1>1. Refill(s) \/ TakeByte(s)
    BY DEF ReadFails, PlacesInv
<1>2. UNCHANGED <<asks, listener, client, server, holds, said, lines, reset>>
    BY <1>1 DEF Refill, TakeByte, talk
<1>3. client \in {"close", "done"} => net' = net
  <2>1. client \in {"close", "done"} => ~InLine(s)
      BY DEF InLine, PlacesInv
  <2>2. QED
      BY <1>1, <2>1 DEF Refill, TakeByte
<1>4. QED
    BY <1>2, <1>3, StreamsMove DEF Delivered, PlacesInv

LEMMA ListenerAnswer ==
  ASSUME TypeInv, HoldsInv, PlacesInv, SaidInv, Bind \/ Listen \/ Accept, server' # "exit"
  PROVE  PlacesInv' /\ SaidInv'
<1>1. UNCHANGED <<asks, client, net, holds, reset, said, lines>>
    BY DEF Bind, Listen, Accept, talk, read
<1>2. CASE Bind \/ Listen
  <2>1. client \in {"connect", "failed"} /\ holds = {}
      BY <1>2 DEF Bind, Listen, PlacesInv, HoldsInv, OpenInv, StartInv, Talking
  <2>2. server' \in {"down", "accept"} /\ (listener' = "listening" => server' = "accept")
      BY <1>2 DEF Bind, Listen, HoldsInv, OpenInv
  <2>3. QED
      BY <1>1, <2>1, <2>2 DEF PlacesInv, SaidInv, Talking, Left
<1>3. CASE Accept
  <2>1. server = "accept" /\ "server" \in holds /\ server' = "line" /\ listener' = listener
      BY <1>3 DEF Accept
  <2>2. QED
      BY <1>1, <2>1 DEF PlacesInv, SaidInv, Talking, Left, Answered, Delivered
<1>4. QED
    BY <1>2, <1>3

\* The server closes behind the whole request and the whole answer.
LEMMA CloseAnswer ==
  ASSUME TypeInv, HoldsInv, StreamInv, PlacesInv, SaidInv,
         CloseConn \/ CgiExits, server # "exit"
  PROVE  PlacesInv' /\ SaidInv'
<1>0. "server" \in Reader /\ "server" \in Writer /\ "cgi" \in Writer /\ Other("server") = "client"
    BY DEF Reader, Writer, Other
<1>1. PICK w \in {"server", "cgi"} : /\ Hangup(w, "server") /\ w \in holds
                                     /\ w = "server" => CloseConn
                                     /\ w = "cgi" => CgiExits
    BY DEF CloseConn, CgiExits, HoldsInv, OpenInv, Serving
<1>2. UNCHANGED <<asks, listener, client, said, lines>>
    BY DEF CloseConn, CgiExits, read
<1>3. Talking /\ Delivered("server") = asks.bytes /\ Answered
      /\ client \notin {"close", "done"}
  <2>1. Talking /\ client \notin {"close", "done"}
      BY <1>1 DEF Talking, HoldsInv, StartInv, PlacesInv
  <2>2. server = "close" \/ Left
    <3>1. w = "cgi" => server \in {"close", "accept"} /\ (server = "accept" => "server" \notin holds)
        BY <1>1, <2>1 DEF HoldsInv, TodoInv, PlacesInv
    <3>2. QED
        BY <1>1, <2>1, <3>1 DEF Left, CloseConn
  <2>3. QED
      BY <2>1, <2>2 DEF SaidInv
<1>4. net["server"] = <<>>
    BY <1>0, <1>3, AllHeard DEF PlacesInv
<1>5. holds' = holds \ {w} /\ UNCHANGED <<net, reset>>
    BY <1>1, <1>4 DEF Hangup
<1>6. server' \in {server, "accept"} /\ server' # "down"
    BY <1>3 DEF CloseConn, CgiExits, PlacesInv
<1>7. PlacesInv'
    BY <1>2, <1>3, <1>5, <1>6 DEF PlacesInv, Talking
<1>8. SaidInv'
  <2>1. Delivered("server")' = asks'.bytes /\ Answered'
      BY <1>2, <1>3 DEF Delivered, Answered
  <2>2. "server" \in holds' => w = "cgi" /\ server' = server /\ "server" \in holds
      BY <1>1, <1>5 DEF CgiExits
  <2>3. server' \in {"accept", "line", "headers", "queued"} => "server" \notin holds'
    <3>1. w = "server" => "server" \notin holds'
        BY <1>5
    <3>2. w = "cgi" => server' = server /\ server \in {"close", "accept", "killed", "exit"}
                       /\ (server = "accept" => "server" \notin holds)
        BY <1>1 DEF CgiExits, HoldsInv, TodoInv
    <3>3. QED
        BY <1>5, <3>1, <3>2, <1>1
  <2>4. server' \notin {"refused", "refork", "fork"}
    <3>1. w = "server" => server' = "accept"
        BY <1>1 DEF CloseConn
    <3>2. w = "cgi" => server' = server /\ server \in {"close", "accept", "killed", "exit"}
        BY <1>1 DEF CgiExits, HoldsInv, TodoInv
    <3>3. QED
        BY <1>1, <3>1, <3>2
  <2>5. QED
      BY <2>1, <2>3, <2>4 DEF SaidInv
<1>9. QED
    BY <1>7, <1>8

\* A request that is proper is not refused for its method.
LEMMA FirstLine ==
  ASSUME TypeInv, HoldsInv, StreamInv, HeadersInv, PlacesInv, Proper(asks.bytes), RequestLine
  PROVE  server' = "headers" /\ said' = said
<1>0. "server" \in Reader /\ server = "line" /\ said["server"] \in {<<>>, asks.bytes}
    BY DEF Reader, RequestLine, HeadersInv, HeaderInv
<1>1. ~PeerGone("server") /\ "server" \in holds
    BY <1>0, StillHere DEF Serving, PeerGone, Peer
<1>2. PICK before : before \in Texts /\ before = <<>> /\ before = Delivered("server")
    BY <1>0, <1>1, HeardTypes DEF TypeInv, HeadersInv, HeaderInv
<1>3. PICK text : text \in Texts /\ text = usrbuf["server"]
    BY <1>0, HeardTypes DEF TypeInv
<1>4. PICK line : line = Line("server") /\ Returns("server", line)
    BY DEF RequestLine
<1>5. PICK b, left : /\ b \in Byte /\ left \in Texts /\ Upcoming(b, left)
                     /\ line = text \o <<b>> /\ line \in Texts /\ line # <<>>
  <2>1. ~AtEOF("server")
      BY <1>1 DEF AtEOF
  <2>2. \/ \E b \in Byte, left \in Texts :
             /\ rio["server"] = <<b>> \o left /\ rio' = [rio EXCEPT !["server"] = left]
             /\ line = usrbuf["server"] \o <<b>> /\ <<b>> \in Texts /\ LineFull(line) /\ line # <<>>
             /\ Len(left) <= Len(rio["server"]) /\ Len(line) = Len(usrbuf["server"]) + 1
        \/ AtEOF("server") /\ line = usrbuf["server"] /\ rio' = rio
    <3>1. "server" \in Reader /\ Returns("server", line) /\ DataInv
        BY <1>0, <1>4 DEF TypeInv
    <3>2. QED
        BY <3>1, ReturnsLine
  <2>3. line \in Texts
      BY <1>0, <1>4, ReturnsDelivers DEF TypeInv
  <2>4. QED
      BY <1>3, <2>1, <2>2, <2>3 DEF Upcoming
<1>6. PICK rest : rest \in Texts /\ asks.bytes = line \o rest
  <2>1. AsksFor(before \o (text \o <<b>>))
      BY <1>0, <1>2, <1>3, <1>5, RequestSoFar
  <2>2. before \o line = line
      BY <1>2, <1>5, JoinTexts
  <2>3. QED
      BY <1>5, <2>1, <2>2 DEF AsksFor
<1>7. line[1] = GET /\ 1 \in DOMAIN line
  <2>1. line \in Texts /\ rest \in Texts
      BY <1>5, <1>6
  <2>2. Len(line) \in Nat /\ Len(line) # 0 /\ DOMAIN line = 1..Len(line)
      BY <1>5, <2>1, EmptySeq DEF Texts
  <2>3. (line \o rest)[1] = line[1]
      BY <2>1, <2>2, ConcatProperties DEF Texts
  <2>4. QED
      BY <1>6, <2>2, <2>3 DEF Proper
<1>8. IsGet(line) /\ ~NoMethod(line)
  <2>1. GET \notin {CR, LF}
      BY DEF GET, CR, LF
  <2>2. GET \in Range(line)
      BY <1>7 DEF Range
  <2>3. QED
      BY <1>5, <1>7, <2>1, <2>2 DEF IsGet, NoMethod
<1>9. \E get \in IF NoMethod(line) THEN BOOLEAN ELSE {IsGet(line)} :
        IF get THEN server' = "headers" /\ UNCHANGED <<todo, said>>
        ELSE server' = "refused" /\ Say("server", Error)
    BY <1>4 DEF RequestLine
<1>10. QED
    BY <1>8, <1>9

\* When requestReadhdrs returns it has read the whole request, if it is exact.
LEMMA HeadersRead ==
  ASSUME TypeInv, HoldsInv, StreamInv, LinesInv, HeadersInv, PlacesInv, Exact(asks.bytes),
         RequestHeader, server' # "headers"
  PROVE  Delivered("server")' = asks.bytes
<1>0. "server" \in Reader /\ server = "headers" /\ Proper(asks.bytes) /\ HeaderPart(asks.bytes) = asks.bytes
    BY DEF Reader, RequestHeader, Exact
<1>1. said["server"] \in {<<>>, asks.bytes} /\ UNCHANGED <<net, holds, reset>>
    BY <1>0 DEF HeadersInv, HeaderInv, RequestHeader
<1>2. ~Over("server") /\ ~Over("server")'
    BY <1>0, <1>1, StillHere DEF Serving, Over, PeerGone, Peer
<1>3. PICK before \in Texts : before = Delivered("server")
    BY <1>0, HeardTypes DEF TypeInv
<1>4. before # <<>> /\ NoEnd(before) /\ before[Len(before)] = LF
    BY <1>0, <1>2, <1>3 DEF HeadersInv, HeaderInv
<1>5. PICK line : Returns("server", line) /\ line = BLANK
  <2>1. PICK line : /\ Returns("server", line) /\ line = Line("server")
                    /\ (line # <<>> /\ ~EndOfHeaders(line)) => server' = server
      BY DEF RequestHeader
  <2>2. line # <<>>
      BY <1>2, <2>1, SomethingRead
  <2>3. QED
      BY <1>0, <2>1, <2>2 DEF EndOfHeaders
<1>6. \/ Over("server")' /\ line # BLANK
      \/ LET now == Delivered("server")'
         IN  /\ now # <<>> /\ now[Len(now)] = LF
             /\ before = <<>> \/ line # BLANK => NoEnd(now)
             /\ before # <<>> /\ line = BLANK => now = HeaderPart(asks.bytes)
    BY <1>0, <1>1, <1>3, <1>4, <1>5, ProperLine
<1>7. QED
    BY <1>0, <1>2, <1>4, <1>5, <1>6

LEMMA PreProcessAnswer ==
  ASSUME TypeInv, HoldsInv, StreamInv, LinesInv, HeadersInv, PlacesInv, SaidInv, Fine, PreProcess
  PROVE  PlacesInv' /\ SaidInv'
<1>0. /\ UNCHANGED <<asks, listener, client, net, holds, reset>>
      /\ server \in {"line", "headers"} /\ Exact(asks.bytes) /\ Proper(asks.bytes)
    BY DEF PreProcess, RequestLine, RequestHeader, Fine, Exact
<1>1. client \in {"header", "body"} /\ "server" \in holds /\ said["client"] = <<>>
    BY <1>0, StillHere DEF Serving, SaidInv
<1>2. CASE RequestLine
  <2>1. server' = "headers" /\ said' = said
      BY <1>0, <1>2, FirstLine
  <2>2. QED
      BY <1>0, <1>1, <2>1 DEF PlacesInv, SaidInv, Talking, Left
<1>3. CASE RequestHeader
  <2>1. \/ server' = "headers" /\ said' = said
        \/ server' = "queued" /\ said' = said
        \/ server' = "refused" /\ said'["server"] = said["server"] /\ asks.answer = "missing"
    <3>1. Say("server", Error) => said'["server"] = said["server"]
        BY Messages, SayTypes DEF TypeInv, Writer, Reader, Other
    <3>2. QED
        BY <1>3, <3>1 DEF RequestHeader
  <2>2. server' # "headers" => Delivered("server")' = asks'.bytes
      BY <1>0, <1>3, HeadersRead
  <2>3. PlacesInv'
      BY <1>0, <1>1, <2>1 DEF PlacesInv, Talking
  <2>4. SaidInv'
      BY <1>0, <1>1, <2>1, <2>2 DEF SaidInv, Left, Talking
  <2>5. QED
      BY <2>3, <2>4
<1>4. QED
    BY <1>2, <1>3 DEF PreProcess

LEMMA ServeAnswer ==
  ASSUME TypeInv, HoldsInv, StreamInv, PlacesInv, SaidInv, server' # "exit",
         ServeRefused \/ ServeStatic \/ ServeDynamic \/ ForkRefused \/ ForkCgi
  PROVE  PlacesInv' /\ SaidInv'
<1>0. /\ UNCHANGED <<asks, listener, client, net, reset, lines>>
      /\ server \in {"refused", "refork", "queued", "fork"} /\ holds' \in {holds, holds \cup {"cgi"}}
    BY DEF ServeRefused, ServeStatic, ServeDynamic, ForkRefused, ForkCgi, read
<1>1. /\ client \in {"header", "body"} /\ "client" \in holds /\ "server" \in holds
      /\ Delivered("server") = asks.bytes
    BY <1>0, StillHere DEF Serving, SaidInv
<1>2. said'["server"] = said["server"] /\ server' \in {"close", "refork", "fork"}
  <2>1. \/ Say("server", CgiHeader) \/ Say("server", Header \o Body) \/ Say("cgi", CgiBody)
        \/ Say("cgi", Log) \/ Say("cgi", <<>>)
      BY DEF ServeRefused, ServeStatic, ServeDynamic, ForkRefused, ForkCgi
  <2>2. said'["server"] = said["server"]
      BY <2>1, Messages, SayTypes DEF TypeInv, Writer, Reader, Other
  <2>3. QED
      BY <2>2 DEF ServeRefused, ServeStatic, ServeDynamic, ForkRefused, ForkCgi
<1>3. /\ server' = "fork" => asks.answer = "dynamic" /\ said'["client"] = CgiHeader
      /\ server' = "refork" => asks.answer = "missing"
      /\ server' = "close" => Answered'
  <2>0. \A w \in {"server", "cgi"}, m \in Texts : Say(w, m) => said'["client"] = said["client"] \o m
    <3>1. \A w \in {"server", "cgi"} : w \in Writer /\ Other(w) = "client"
        BY DEF Writer, Reader, Other
    <3>2. DataInv
        BY DEF TypeInv
    <3>3. QED
        BY <3>1, <3>2, SayTypes
  <2>1. CASE ServeRefused
    <3>1. asks.answer = "missing" /\ server' = "refork"
        BY <2>1 DEF ServeRefused, SaidInv
    <3>2. QED
        BY <3>1
  <2>2. CASE ServeStatic
    <3>1. asks.answer = "static" /\ server' = "close" /\ said["client"] = <<>>
        BY <1>1, <2>2 DEF ServeStatic, SaidInv
    <3>2. said'["client"] = Header \o Body
      <4>1. PICK all \in Texts : all = Header \o Body
          BY Messages
      <4>2. said'["client"] = <<>> \o all
          BY <2>0, <2>2, <3>1, <4>1 DEF ServeStatic
      <4>3. QED
          BY <4>1, <4>2, JoinTexts
    <3>3. QED
        BY <1>0, <3>1, <3>2 DEF Answered
  <2>3. CASE ServeDynamic
    <3>1. asks.answer = "dynamic" /\ server' = "fork" /\ said["client"] = <<>>
        BY <1>1, <2>3 DEF ServeDynamic, SaidInv
    <3>2. said'["client"] = CgiHeader
      <4>1. CgiHeader \in Texts
          BY Messages
      <4>2. said'["client"] = <<>> \o CgiHeader
          BY <2>0, <2>3, <3>1, <4>1 DEF ServeDynamic
      <4>3. QED
          BY <4>1, <4>2, JoinTexts
    <3>3. QED
        BY <3>1, <3>2
  <2>4. CASE ForkCgi
    <3>1. asks.answer = "dynamic" /\ server' = "close" /\ said["client"] = CgiHeader
        BY <2>4 DEF ForkCgi, SaidInv
    <3>2. said'["client"] = CgiHeader \o CgiBody
        BY <2>0, <2>4, <3>1, Messages DEF ForkCgi
    <3>3. QED
        BY <1>0, <3>1, <3>2 DEF Answered
  <2>5. CASE ForkRefused
    <3>1. asks.answer = "missing" /\ server' = "close"
        BY <2>5 DEF ForkRefused, SaidInv
    <3>2. QED
        BY <1>0, <3>1 DEF Answered
  <2>6. QED
      BY <2>1, <2>2, <2>3, <2>4, <2>5
<1>4. PlacesInv'
    BY <1>0, <1>1, <1>2 DEF PlacesInv, Talking
<1>5. SaidInv'
    BY <1>0, <1>1, <1>2, <1>3 DEF SaidInv, Left, Talking, Delivered
<1>6. QED
    BY <1>4, <1>5

LEMMA ConnectAnswer ==
  ASSUME TypeInv, HoldsInv, PlacesInv, SaidInv, Connect
  PROVE  PlacesInv' /\ SaidInv'
<1>0. /\ UNCHANGED <<asks, listener, server, net, reset, lines>> /\ client = "connect"
      /\ holds = {} /\ said["server"] = <<>> /\ said["client"] = <<>> /\ server \notin Serving
    BY DEF Connect, read, HoldsInv, StartInv, OpenInv, Reader
<1>1. CASE client' = "failed"
  <2>1. UNCHANGED <<holds, said>>
      BY <1>1 DEF Connect
  <2>2. QED
      BY <1>0, <1>1, <2>1 DEF PlacesInv, SaidInv, Talking, Left, Serving
<1>2. CASE client' # "failed"
  <2>1. /\ client' = "header" /\ holds' = {"client", "server"} /\ listener = "listening"
        /\ Say("client", asks.bytes)
      BY <1>2 DEF Connect
  <2>2. said'["server"] = asks.bytes /\ said'["client"] = <<>>
    <3>1. asks.bytes \in Texts
        BY Messages DEF TypeInv, DataInv
    <3>2. said'["server"] = <<>> \o asks.bytes /\ said'["client"] = said["client"]
        BY <1>0, <2>1, <3>1, SayTypes DEF TypeInv, Writer, Reader, Other
    <3>3. QED
        BY <1>0, <3>1, <3>2, JoinTexts
  <2>3. PlacesInv'
      BY <1>0, <2>1, <2>2 DEF PlacesInv, Talking
  <2>4. SaidInv'
      BY <1>0, <2>1, <2>2 DEF SaidInv, Left, Serving
  <2>5. QED
      BY <2>3, <2>4
<1>3. QED
    BY <1>1, <1>2

\* The client closes when everybody else has, and has the whole answer then.
LEMMA ClientAnswer ==
  ASSUME TypeInv, HoldsInv, StreamInv, PlacesInv, SaidInv, asks.polite, server # "exit",
         PrintHeader \/ PrintBody \/ CloseClient
  PROVE  PlacesInv' /\ SaidInv'
<1>0. "client" \in Reader /\ "server" \in Reader /\ "client" # "server"
      /\ UNCHANGED <<asks, listener, server, said>>
    BY DEF Reader, PrintHeader, PrintBody, CloseClient, talk
<1>1. CASE PrintHeader \/ PrintBody
  <2>1. PICK line : /\ Returns("client", line) /\ UNCHANGED <<net, holds, reset, todo>>
                    /\ client \in {"header", "body"} /\ client' \in {"header", "body", "close"}
                    /\ client' = "close" => line = <<>> /\ client = "body"
      BY <1>1 DEF PrintHeader, PrintBody, talk
  <2>2. Delivered("server")' = Delivered("server") /\ Delivered("client")' = Delivered("client") \o line
        /\ line \in Texts
      BY <1>0, <2>1, ReturnsDelivers DEF TypeInv
  <2>3. ASSUME client' = "close"
        PROVE  /\ server = "accept" /\ "server" \notin holds /\ "cgi" \notin holds
               /\ net["client"] = <<>> /\ Delivered("client")' = said["client"]
    <3>1. AtEOF("client") /\ usrbuf["client"] = <<>> /\ line = <<>>
      <4>1. \/ \E b \in Byte, left \in Texts :
                 /\ rio["client"] = <<b>> \o left /\ rio' = [rio EXCEPT !["client"] = left]
                 /\ line = usrbuf["client"] \o <<b>> /\ <<b>> \in Texts /\ LineFull(line) /\ line # <<>>
                 /\ Len(left) <= Len(rio["client"]) /\ Len(line) = Len(usrbuf["client"]) + 1
            \/ AtEOF("client") /\ line = usrbuf["client"] /\ rio' = rio
          BY <1>0, <2>1, ReturnsLine DEF TypeInv
      <4>2. QED
          BY <2>1, <2>3, <4>1
    <3>2. /\ rio["client"] = <<>> /\ net["client"] = <<>>
          /\ "server" \notin holds /\ "cgi" \notin holds
        BY <3>1 DEF AtEOF, PeerGone, Peer
    <3>3. server = "accept" /\ "client" \in holds /\ ~reset
      <4>1. Talking
          BY <2>1 DEF Talking
      <4>2. QED
          BY <2>1, <3>2, <4>1 DEF PlacesInv, TypeInv, PlaceInv, HoldsInv, OpenInv, Serving
    <3>4. Pending("client") = <<>>
      <4>1. todo["server"] = <<>> /\ todo["cgi"] = <<>>
          BY <3>2, <3>3 DEF HoldsInv, TodoInv
      <4>2. <<>> \o <<>> = <<>>
          BY JoinTexts DEF Texts
      <4>3. QED
          BY <4>1, <4>2 DEF Pending
    <3>5. Heard("client") = Delivered("client")
      <4>1. Delivered("client") \in Texts
          BY <1>0, HeardTypes DEF TypeInv
      <4>2. Delivered("client") \o <<>> = Delivered("client")
          BY <4>1, JoinTexts
      <4>3. QED
          BY <3>1, <3>2, <4>2 DEF Heard
    <3>6. PICK rest \in Texts : /\ said["client"] = Heard("client") \o rest
                                /\ ~reset /\ "client" \in holds => rest = Pending("client")
        BY <1>0 DEF StreamInv, Stream
    <3>7. Delivered("client") \in Texts /\ Delivered("client") \o <<>> = Delivered("client")
        BY <1>0, HeardTypes, JoinTexts DEF TypeInv
    <3>8. QED
        BY <2>2, <3>1, <3>2, <3>3, <3>4, <3>5, <3>6, <3>7
  <2>4. PlacesInv'
      BY <1>0, <2>1, <2>3 DEF PlacesInv, Talking
  <2>5. SaidInv'
      BY <1>0, <2>1, <2>2 DEF SaidInv, Left, Talking, Answered
  <2>6. QED
      BY <2>4, <2>5
<1>2. CASE CloseClient
  <2>1. /\ client = "close" /\ client' = "done" /\ lines' = lines /\ Hangup("client", "client")
      BY <1>2 DEF CloseClient, read
  <2>2. net["client"] = <<>>
      BY <2>1 DEF PlacesInv
  <2>3. holds' = holds \ {"client"} /\ UNCHANGED <<net, reset>>
      BY <2>1, <2>2 DEF Hangup
  <2>4. PlacesInv'
      BY <1>0, <2>1, <2>3 DEF PlacesInv, Talking, Delivered
  <2>5. SaidInv'
      BY <1>0, <2>1, <2>3 DEF SaidInv, PlacesInv, Left, Talking, Answered, Delivered
  <2>6. QED
      BY <2>4, <2>5
<1>3. QED
    BY <1>1, <1>2

LEMMA AnswerInvStep ==
  ASSUME TypeInv, HoldsInv, StreamInv, LinesInv, HeadersInv, AnswerInv, [Next]_vars
  PROVE  AnswerInv'
<1>1. CASE UNCHANGED vars
    BY <1>1 DEF vars, talk, read, AnswerInv, Fine, PlacesInv, SaidInv, Talking, Left, Answered,
                Delivered
<1>2. CASE Next
  <2>1. asks' = asks /\ (server = "exit" => server' = "exit")
    <3>1. CASE \/ \E w \in Writer : WriteSome(w) \/ WriteKills(w)
               \/ \E s \in Reader : Refill(s) \/ ReadFails(s) \/ TakeByte(s)
        BY <3>1 DEF WriteSome, WriteKills, Up, Refill, ReadFails, TakeByte, InLine
    <3>2. CASE PreProcess \/ Serve \/ CgiExits
        BY <3>2 DEF PreProcess, RequestLine, RequestHeader, Serve, ServeRefused, ServeStatic,
                    ServeDynamic, ForkRefused, ForkCgi, ServeFails, CloseConn, CgiExits
    <3>3. CASE \/ Bind \/ Listen \/ Accept \/ Connect \/ PrintHeader \/ PrintBody \/ CloseClient
        BY <3>3 DEF Bind, Listen, Accept, Connect, PrintHeader, PrintBody, CloseClient, HoldsInv,
                    OpenInv
    <3>4. QED
        BY <1>2, <3>1, <3>2, <3>3, Steps
  <2>2. SUFFICES ASSUME Fine, server' # "exit" PROVE PlacesInv' /\ SaidInv'
      BY <2>1 DEF AnswerInv, Fine
  <2>3. PlacesInv /\ SaidInv /\ asks.polite /\ Exact(asks.bytes) /\ server # "exit"
      BY <2>2 DEF AnswerInv, Fine
  <2>4. ASSUME NEW w \in Writer, WriteSome(w) \/ WriteKills(w)
        PROVE  PlacesInv' /\ SaidInv'
      BY <2>3, <2>4, WriteAnswer
  <2>5. ASSUME NEW s \in Reader, Refill(s) \/ ReadFails(s) \/ TakeByte(s)
        PROVE  PlacesInv' /\ SaidInv'
      BY <2>3, <2>5, ReadAnswer
  <2>6. CASE PreProcess
      BY <2>2, <2>3, <2>6, PreProcessAnswer
  <2>7. CASE Serve
    <3>1. ~ServeFails
        BY <2>2 DEF ServeFails
    <3>2. QED
        BY <2>2, <2>3, <2>7, <3>1, ServeAnswer, CloseAnswer DEF Serve
  <2>8. CASE CgiExits
      BY <2>3, <2>8, CloseAnswer
  <2>9. CASE Bind \/ Listen \/ Accept
      BY <2>2, <2>3, <2>9, ListenerAnswer
  <2>10. CASE Connect
      BY <2>3, <2>10, ConnectAnswer
  <2>11. CASE PrintHeader \/ PrintBody \/ CloseClient
      BY <2>3, <2>11, ClientAnswer
  <2>12. QED
      BY <1>2, <2>4, <2>5, <2>6, <2>7, <2>8, <2>9, <2>10, <2>11, Steps
<1>3. QED
    BY <1>1, <1>2

LEMMA AnswerInvInit ==
  ASSUME Init
  PROVE  AnswerInv
BY DEF Init, AnswerInv, PlacesInv, SaidInv, Talking, Left

\* A polite client with an exact request gets the whole answer of a server whose
\* calls do not fail, the CGI child's part too, and nothing of it is lost when the
\* connection is closed, in whatever order server and child close it.
THEOREM WholeAnswerHolds == Spec => []WholeAnswer
<1>1. AnswerInv /\ TypeInv => WholeAnswer
  <2>1. SUFFICES ASSUME AnswerInv, TypeInv, Fine
                 PROVE  /\ client = "done" => Delivered("client") =
                             IF asks.answer = "missing" THEN said["client"] ELSE Answer
                        /\ client = "failed" => said["server"] = <<>>
      BY DEF WholeAnswer, Fine
  <2>2. PlacesInv /\ SaidInv
      BY <2>1 DEF AnswerInv
  <2>3. asks.answer \in {"static", "dynamic", "missing"}
      BY <2>1, TalkAssumption DEF TypeInv, DataInv, Answers
  <2>4. client = "done" => Answered /\ Delivered("client") = said["client"]
      BY <2>2 DEF PlacesInv, SaidInv, Left, Talking
  <2>5. QED
      BY <2>2, <2>3, <2>4 DEF Answered, Answer, PlacesInv
<1> DEFINE Inv == TypeInv /\ HoldsInv /\ StreamInv /\ LinesInv /\ HeadersInv /\ AnswerInv
<1>2. Init => Inv
    BY TypeInvInit, HoldsInvInit, StreamInvInit, LinesInvInit, HeadersInvInit, AnswerInvInit
<1>3. Inv /\ [Next]_vars => Inv'
    BY TypeInvStep, HoldsInvStep, StreamInvStep, LinesInvStep, HeadersInvStep, AnswerInvStep
<1>4. Inv => WholeAnswer
    BY <1>1
<1>5. QED
  <2> HIDE DEF Inv
  <2>1. QED
      BY <1>2, <1>3, <1>4, PTL DEF Spec
=============================================================================
