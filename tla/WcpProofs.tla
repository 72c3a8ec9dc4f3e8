------------------------------ MODULE WcpProofs ------------------------------
(***************************************************************************)
(* Theorems about WcpClient: whatever packets the bytes come in, for any   *)
(* number of messages, none is lost, cut or taken twice.                   *)
(***************************************************************************)
EXTENDS WcpClient, SequenceTheorems, TLAPS

Token == Message \cup {Nul}

StreamTypes ==
    /\ sent \in Seq(Message) /\ handled \in Seq(Message) /\ message \in Seq(Message)
    /\ buffer \in Seq(Token) /\ stream \in Seq(Token)

\* r is the messages of s after the first h, each followed by Nul.
Encodes(r, s, h) ==
    /\ h \in 0..Len(s) /\ Len(r) = 2 * (Len(s) - h)
    /\ \A i \in 1..(Len(s) - h) : r[2 * i - 1] = s[h + i] /\ r[2 * i] = Nul

WireInv ==
    /\ StreamTypes
    /\ handled = SubSeq(sent, 1, Len(handled))
    /\ Encodes(buffer \o stream, sent, Len(handled))
    /\ Len(message) <= 1

-----------------------------------------------------------------------------
(* The receive buffer.                                                     *)

\* What getMessage searches when n tokens have come: a prefix of what is on its way.
LEMMA Searched ==
    ASSUME WireInv, NEW n \in 1..Len(stream), NEW b, b = buffer \o SubSeq(stream, 1, n)
    PROVE  /\ b \in Seq(Token) /\ Len(b) = Len(buffer) + n /\ Len(b) >= 1
           /\ Len(b) <= Len(buffer \o stream)
           /\ \A j \in 1..Len(b) : b[j] = (buffer \o stream)[j]
<1>1. buffer \in Seq(Token) /\ stream \in Seq(Token)
    BY DEF WireInv, StreamTypes
<1>2. /\ SubSeq(stream, 1, n) \in Seq(Token) /\ Len(SubSeq(stream, 1, n)) = n
      /\ \A j \in 1..n : SubSeq(stream, 1, n)[j] = stream[j]
    BY <1>1, SubSeqProperties
<1>3. Len(buffer) \in Nat /\ Len(stream) \in Nat /\ n \in Nat /\ n <= Len(stream)
    BY <1>1, LenProperties
<1>4. b \in Seq(Token) /\ Len(b) = Len(buffer) + n /\ Len(b) >= 1
    BY <1>1, <1>2, <1>3
<1>5. Len(buffer \o stream) = Len(buffer) + Len(stream)
    BY <1>1
<1>6. ASSUME NEW j \in 1..Len(b) PROVE b[j] = (buffer \o stream)[j]
    BY <1>1, <1>2, <1>3, <1>4
<1>7. QED
    BY <1>3, <1>4, <1>5, <1>6

\* getMessage finds the whole next message, or nothing.
LEMMA NextMessage ==
    ASSUME WireInv, NEW n \in 1..Len(stream), NEW b, b = buffer \o SubSeq(stream, 1, n)
    PROVE  \/ FirstNul(b) = 0 /\ Len(b) = 1
           \/ /\ FirstNul(b) = 2 /\ Len(b) >= 2 /\ Len(handled) < Len(sent)
              /\ b[1] = sent[Len(handled) + 1]
<1> DEFINE r == buffer \o stream
           h == Len(handled)
<1>1. /\ b \in Seq(Token) /\ Len(b) \in Nat /\ Len(b) >= 1 /\ Len(b) <= Len(r)
      /\ \A j \in 1..Len(b) : b[j] = r[j]
    BY Searched, LenProperties
<1>2. /\ h \in Nat /\ Len(sent) \in Nat /\ h <= Len(sent)
      /\ Len(r) = 2 * (Len(sent) - h)
      /\ \A i \in 1..(Len(sent) - h) : r[2 * i - 1] = sent[h + i] /\ r[2 * i] = Nul
  <2>1. sent \in Seq(Message) /\ Len(sent) \in Nat
      BY LenProperties DEF WireInv, StreamTypes
  <2>2. Encodes(r, sent, h)
      BY DEF WireInv
  <2> HIDE DEF r, h
  <2>3. QED
      BY <2>1, <2>2 DEF Encodes
<1>3. h < Len(sent)
  <2>1. 2 * (Len(sent) - h) >= 1 /\ Len(sent) - h \in Nat
      BY <1>1, <1>2
  <2>2. QED
      BY <1>2, <2>1
<1>4. r[1] = sent[h + 1] /\ r[2] = Nul
  <2>1. 1 \in 1..(Len(sent) - h)
      BY <1>2, <1>3
  <2>2. 2 * 1 - 1 = 1 /\ 2 * 1 = 2
      OBVIOUS
  <2>3. r[2 * 1 - 1] = sent[h + 1] /\ r[2 * 1] = Nul
      BY <1>2, <2>1
  <2>4. QED
      BY <2>2, <2>3
<1>5. sent[h + 1] # Nul
    BY <1>2, <1>3, WcpAssumption DEF WireInv, StreamTypes
<1>6. b[1] # Nul /\ b[1] = sent[h + 1]
    BY <1>1, <1>4, <1>5
<1>7. CASE Len(b) = 1
  <2>1. DOMAIN b = {1}
      BY <1>1, <1>7
  <2>2. QED
      BY <1>6, <1>7, <2>1 DEF FirstNul
<1>8. CASE Len(b) >= 2
  <2>1. 2 \in DOMAIN b /\ b[2] = Nul
      BY <1>1, <1>4, <1>8
  <2>2. \A i \in DOMAIN b :
          b[i] = Nul /\ (\A j \in 1..(i - 1) : b[j] # Nul) <=> i = 2
    <3>1. ASSUME NEW i \in DOMAIN b, b[i] = Nul, \A j \in 1..(i - 1) : b[j] # Nul
          PROVE  i = 2
      <4>1. i \in Nat /\ i # 0 /\ i # 1
          BY <1>1, <1>6, <3>1
      <4>2. ~(i > 2)
          BY <2>1, <3>1, <4>1
      <4>3. QED
          BY <4>1, <4>2
    <3>2. \A j \in 1..(2 - 1) : b[j] # Nul
        BY <1>6
    <3>3. QED
        BY <2>1, <3>1, <3>2
  <2>3. FirstNul(b) = 2
      BY <2>1, <2>2 DEF FirstNul
  <2>4. QED
      BY <1>3, <1>6, <1>8, <2>3
<1>9. QED
    BY <1>1, <1>7, <1>8

\* What is left of a sequence without its first k elements.
LEMMA Suffix ==
    ASSUME NEW T, NEW s \in Seq(T), NEW k \in 0..Len(s)
    PROVE  /\ SubSeq(s, k + 1, Len(s)) \in Seq(T)
           /\ Len(SubSeq(s, k + 1, Len(s))) = Len(s) - k
           /\ \A j \in 1..(Len(s) - k) : SubSeq(s, k + 1, Len(s))[j] = s[k + j]
<1>1. Len(s) \in Nat /\ k \in Nat /\ k <= Len(s)
    BY LenProperties
<1>2. \A j \in (k + 1)..Len(s) : s[j] \in T
    BY <1>1, ElementOfSeq
<1>3. QED
    BY <1>1, <1>2, SubSeqProperties

\* Receiving n tokens and dropping i of those received leaves the rest of the stream.
LEMMA RestOfStream ==
    ASSUME NEW T, NEW s \in Seq(T), NEW t \in Seq(T), NEW n \in 0..Len(t),
           NEW b, b = s \o SubSeq(t, 1, n), NEW i \in 0..Len(b)
    PROVE  SubSeq(b, i + 1, Len(b)) \o SubSeq(t, n + 1, Len(t))
             = SubSeq(s \o t, i + 1, Len(s \o t))
<1>1. Len(s) \in Nat /\ Len(t) \in Nat /\ n \in Nat
    BY LenProperties
<1>2. /\ SubSeq(t, 1, n) \in Seq(T) /\ Len(SubSeq(t, 1, n)) = n
      /\ \A j \in 1..n : SubSeq(t, 1, n)[j] = t[j]
    BY <1>1, SubSeqProperties
<1>3. b \in Seq(T) /\ Len(b) = Len(s) + n /\ i \in Nat
    BY <1>1, <1>2
<1>4. \A j \in 1..Len(b) : b[j] = IF j <= Len(s) THEN s[j] ELSE t[j - Len(s)]
    BY <1>1, <1>2, <1>3
<1>5. PICK c : c = SubSeq(b, i + 1, Len(b))
    OBVIOUS
<1>6. c \in Seq(T) /\ Len(c) = Len(b) - i /\ \A j \in 1..Len(c) : c[j] = b[i + j]
    BY <1>3, <1>5, Suffix
<1>7. PICK u : u = SubSeq(t, n + 1, Len(t))
    OBVIOUS
<1>8. u \in Seq(T) /\ Len(u) = Len(t) - n /\ \A j \in 1..Len(u) : u[j] = t[n + j]
    BY <1>1, <1>7, Suffix
<1>9. PICK r : r = s \o t
    OBVIOUS
<1>10. /\ r \in Seq(T) /\ Len(r) = Len(s) + Len(t)
       /\ \A j \in 1..Len(r) : r[j] = IF j <= Len(s) THEN s[j] ELSE t[j - Len(s)]
    BY <1>1, <1>9
<1>11. PICK v : v = SubSeq(r, i + 1, Len(r))
    OBVIOUS
<1>12. v \in Seq(T) /\ Len(v) = Len(r) - i /\ \A j \in 1..Len(v) : v[j] = r[i + j]
  <2>1. i \in 0..Len(r)
      BY <1>1, <1>3, <1>10
  <2>2. QED
      BY <1>10, <1>11, <2>1, Suffix
<1>13. /\ c \o u \in Seq(T) /\ Len(c \o u) = Len(c) + Len(u)
       /\ \A j \in 1..(Len(c) + Len(u)) :
            (c \o u)[j] = IF j <= Len(c) THEN c[j] ELSE u[j - Len(c)]
    BY <1>6, <1>8, ConcatProperties
<1>14. Len(c \o u) = Len(v)
    BY <1>1, <1>3, <1>6, <1>8, <1>10, <1>12, <1>13
<1>15. ASSUME NEW j \in 1..Len(v) PROVE (c \o u)[j] = v[j]
  <2>1. v[j] = r[i + j] /\ i + j \in 1..Len(r) /\ j \in Nat
      BY <1>1, <1>3, <1>10, <1>12
  <2>2. CASE j <= Len(c)
    <3>1. (c \o u)[j] = b[i + j] /\ i + j \in 1..Len(b)
        BY <1>1, <1>3, <1>6, <1>12, <1>13, <1>14, <2>1, <2>2
    <3>2. QED
        BY <1>4, <1>10, <2>1, <3>1
  <2>3. CASE j > Len(c)
    <3>1. j - Len(c) \in 1..Len(u) /\ Len(c) \in Nat
        BY <1>1, <1>3, <1>6, <1>8, <1>10, <1>12, <2>1, <2>3
    <3>2. (c \o u)[j] = t[n + (j - Len(c))]
      <4>1. j \in 1..(Len(c) + Len(u)) /\ ~(j <= Len(c))
          BY <1>13, <1>14, <2>3, <3>1
      <4>2. (c \o u)[j] = u[j - Len(c)]
          BY <1>13, <4>1
      <4>3. QED
          BY <1>8, <3>1, <4>2
    <3>3. n + (j - Len(c)) = i + j - Len(s) /\ ~(i + j <= Len(s))
        BY <1>1, <1>3, <1>6, <2>1, <2>3
    <3>4. QED
        BY <1>10, <2>1, <3>2, <3>3
  <2>4. Len(c) \in Nat
      BY <1>6, LenProperties
  <2>5. j <= Len(c) \/ j > Len(c)
      BY <2>1, <2>4
  <2>6. QED
      BY <2>2, <2>3, <2>5
<1>16. QED
    BY <1>5, <1>7, <1>9, <1>11, <1>12, <1>13, <1>14, <1>15, SeqEqual

\* Without the first message and its Nul, the others are left.
LEMMA RestOfMessages ==
    ASSUME NEW T, NEW M, NEW r \in Seq(T), NEW s \in Seq(M), NEW h \in Nat,
           h < Len(s), Encodes(r, s, h)
    PROVE  Encodes(SubSeq(r, 3, Len(r)), s, h + 1)
<1>1. /\ Len(s) \in Nat /\ Len(r) = 2 * (Len(s) - h)
      /\ \A k \in 1..(Len(s) - h) : r[2 * k - 1] = s[h + k] /\ r[2 * k] = Nul
    BY LenProperties DEF Encodes
<1>2. Len(r) \in Nat /\ Len(r) >= 2
    BY <1>1
<1>3. PICK q : q = SubSeq(r, 3, Len(r))
    OBVIOUS
<1>4. Len(q) = Len(r) - 2 /\ \A j \in 1..Len(q) : q[j] = r[2 + j]
  <2>a. r \in Seq(T)
      OBVIOUS
  <2>1. 2 \in 0..Len(r) /\ 2 + 1 = 3
      BY <1>2
  <2>2. PICK k \in 0..Len(r) : k = 2
      BY <2>1
  <2>3. /\ Len(SubSeq(r, k + 1, Len(r))) = Len(r) - k
        /\ \A j \in 1..(Len(r) - k) : SubSeq(r, k + 1, Len(r))[j] = r[k + j]
      BY <2>a, Suffix
  <2>4. q = SubSeq(r, k + 1, Len(r))
      BY <1>3, <2>2
  <2>5. QED
      BY <2>2, <2>3, <2>4
<1>5. h + 1 \in 0..Len(s) /\ Len(q) = 2 * (Len(s) - (h + 1))
    BY <1>1, <1>4
<1>6. ASSUME NEW k \in 1..(Len(s) - (h + 1))
      PROVE  q[2 * k - 1] = s[h + 1 + k] /\ q[2 * k] = Nul
  <2>1. k + 1 \in 1..(Len(s) - h) /\ k \in Nat /\ k >= 1
      BY <1>1
  <2>2. r[2 * (k + 1) - 1] = s[h + (k + 1)] /\ r[2 * (k + 1)] = Nul
      BY <1>1, <2>1
  <2>3. 2 * k - 1 \in 1..Len(q) /\ 2 * k \in 1..Len(q)
      BY <1>1, <1>5, <2>1
  <2>4. q[2 * k - 1] = r[2 + (2 * k - 1)] /\ q[2 * k] = r[2 + 2 * k]
      BY <1>4, <2>3
  <2>5. /\ 2 + (2 * k - 1) = 2 * (k + 1) - 1 /\ 2 + 2 * k = 2 * (k + 1)
        /\ h + 1 + k = h + (k + 1)
      BY <2>1
  <2>6. QED
      BY <2>2, <2>4, <2>5
<1>7. QED
    BY <1>3, <1>5, <1>6 DEF Encodes

\* A receive, by the worker or by the thread, takes the next message or nothing.
LEMMA ReceiveStep ==
    ASSUME WireInv, NEW n \in 1..Len(stream), Receive(n), UNCHANGED sent
    PROVE  /\ handled' \in Seq(Message) /\ buffer' \in Seq(Token) /\ stream' \in Seq(Token)
           /\ handled' = SubSeq(sent', 1, Len(handled'))
           /\ Encodes(buffer' \o stream', sent', Len(handled'))
           /\ getMessage(n).message \in Seq(Message)
           /\ Len(getMessage(n).message) <= 1
<1>1. PICK b : b = buffer \o SubSeq(stream, 1, n)
    OBVIOUS
<1>2. PICK i : i = FirstNul(b)
    OBVIOUS
<1>3. PICK h : h = Len(handled)
    OBVIOUS
<1>4. /\ stream' = SubSeq(stream, n + 1, Len(stream))
      /\ buffer' = SubSeq(b, i + 1, Len(b))
      /\ handled' = handled \o SubSeq(b, 1, i - 1)
      /\ getMessage(n).message = SubSeq(b, 1, i - 1)
    BY <1>1, <1>2 DEF Receive, getMessage
<1>5. /\ sent \in Seq(Message) /\ handled \in Seq(Message)
      /\ stream \in Seq(Token) /\ buffer \in Seq(Token)
    BY DEF WireInv, StreamTypes
<1>6. handled = SubSeq(sent, 1, h) /\ h \in Nat /\ Encodes(buffer \o stream, sent, h)
    BY <1>3, <1>5, LenProperties DEF WireInv
<1>7. b \in Seq(Token) /\ Len(b) \in Nat
    BY <1>1, Searched, LenProperties
<1>8. \/ i = 0 /\ Len(b) = 1
      \/ i = 2 /\ Len(b) >= 2 /\ h < Len(sent) /\ b[1] = sent[h + 1]
    BY <1>1, <1>2, <1>3, NextMessage
<1>9. i \in 0..Len(b) /\ n \in 0..Len(stream)
    BY <1>7, <1>8
<1>10. buffer' \in Seq(Token) /\ stream' \in Seq(Token)
    BY <1>4, <1>5, <1>7, <1>9, Suffix
<1>11. PICK r : r = buffer \o stream
    OBVIOUS
<1>12. r \in Seq(Token)
    BY <1>5, <1>11, ConcatProperties
<1>13. buffer' \o stream' = SubSeq(r, i + 1, Len(r))
    BY <1>1, <1>4, <1>5, <1>9, <1>11, RestOfStream
<1>14. CASE i = 0
  <2>1. SubSeq(b, 1, i - 1) = <<>>
      BY <1>14, SubSeqEmpty
  <2>2. handled' = handled
      BY <1>4, <1>5, <2>1, ConcatEmptySeq
  <2>3. SubSeq(r, i + 1, Len(r)) = r
      BY <1>12, <1>14, SubSeqFull
  <2>4. Encodes(buffer' \o stream', sent, h)
      BY <1>6, <1>11, <1>13, <2>3
  <2>5. <<>> \in Seq(Message) /\ Len(<<>>) = 0
      BY EmptySeq
  <2>6. getMessage(n).message \in Seq(Message) /\ Len(getMessage(n).message) <= 1
    <3>1. getMessage(n).message = <<>>
        BY <1>4, <2>1
    <3>2. QED
        BY <3>1
  <2>7. handled' = SubSeq(sent', 1, Len(handled')) /\ handled' \in Seq(Message)
      BY <1>3, <1>5, <1>6, <2>2
  <2>8. Encodes(buffer' \o stream', sent', Len(handled'))
      BY <1>3, <2>2, <2>4
  <2>9. QED
      BY <1>10, <2>6, <2>7, <2>8
<1>15. CASE i = 2 /\ Len(b) >= 2 /\ h < Len(sent) /\ b[1] = sent[h + 1]
  <2>1. h + 1 \in 1..Len(sent) /\ Len(sent) \in Nat
      BY <1>5, <1>6, <1>15, LenProperties
  <2>2. sent[h + 1] \in Message
      BY <1>5, <2>1, ElementOfSeq
  <2>3. SubSeq(b, 1, i - 1) = <<sent[h + 1]>>
    <3>1. i - 1 = 1 /\ 1 \in 1..Len(b) /\ b[1] \in Token
        BY <1>7, <1>15, ElementOfSeq
    <3>2. PICK u : u = SubSeq(b, 1, 1)
        OBVIOUS
    <3>3. u \in Seq(Token) /\ Len(u) = 1 /\ u[1] = b[1]
        BY <1>7, <3>1, <3>2, SubSeqProperties
    <3>4. u = <<b[1]>>
        BY <3>3
    <3>5. QED
        BY <1>15, <3>1, <3>2, <3>4
  <2>4. handled' = SubSeq(sent, 1, h + 1)
    <3>1. PICK k \in 1..Len(sent) : k = h + 1
        BY <2>1
    <3>2. SubSeq(sent, 1, k) = SubSeq(sent, 1, k - 1) \o <<sent[k]>>
      <4>1. 1 \in 1..Len(sent) /\ k \in 1..Len(sent)
          BY <2>1
      <4>2. QED
          BY <1>5, <4>1, SubSeqRecursiveSecond
    <3>3. k - 1 = h
        BY <1>6, <3>1
    <3>4. QED
        BY <1>4, <1>6, <2>3, <3>1, <3>2, <3>3
  <2>5. handled' \in Seq(Message) /\ Len(handled') = h + 1
    <3>1. \A j \in 1..(h + 1) : sent[j] \in Message
        BY <1>5, <1>6, <2>1, ElementOfSeq
    <3>2. QED
        BY <1>6, <2>4, <3>1, SubSeqProperties
  <2>6. Encodes(SubSeq(r, 3, Len(r)), sent, h + 1)
      BY <1>5, <1>6, <1>11, <1>12, <1>15, RestOfMessages
  <2>7. Encodes(buffer' \o stream', sent', Len(handled'))
      BY <1>13, <1>15, <2>5, <2>6
  <2>8. <<sent[h + 1]>> \in Seq(Message) /\ Len(<<sent[h + 1]>>) = 1
      BY <2>2
  <2>9. getMessage(n).message \in Seq(Message) /\ Len(getMessage(n).message) <= 1
    <3>1. getMessage(n).message = <<sent[h + 1]>>
        BY <1>4, <2>3
    <3>2. PICK u : u = <<sent[h + 1]>>
        OBVIOUS
    <3>3. u \in Seq(Message) /\ Len(u) <= 1
        BY <2>8, <3>2
    <3>4. QED
        BY <3>1, <3>2, <3>3
  <2>10. handled' = SubSeq(sent', 1, Len(handled'))
      BY <2>4, <2>5
  <2>11. QED
      BY <1>10, <2>5, <2>7, <2>9, <2>10
<1>16. QED
    BY <1>8, <1>14, <1>15

-----------------------------------------------------------------------------
(* The steps.                                                              *)

LEMMA WireInit == Init => WireInv
<1> SUFFICES ASSUME Init PROVE WireInv
    OBVIOUS
<1>1. /\ sent = <<>> /\ handled = <<>> /\ message = <<>> /\ buffer = <<>> /\ stream = <<>>
    BY DEF Init
<1>2. StreamTypes /\ Len(message) <= 1
    BY <1>1, EmptySeq DEF StreamTypes
<1>3. Len(handled) = 0 /\ Len(sent) = 0 /\ handled = SubSeq(sent, 1, Len(handled))
    BY <1>1
<1>4. buffer \o stream = <<>>
    BY <1>1
<1>5. Encodes(<<>>, <<>>, 0)
    BY DEF Encodes
<1>6. QED
    BY <1>1, <1>2, <1>3, <1>4, <1>5 DEF WireInv

\* Two more tokens at the end of r.
LEMMA AtTheEnd ==
    ASSUME NEW T, NEW r \in Seq(T), NEW e \in Seq(T), Len(e) = 2
    PROVE  /\ r \o e \in Seq(T) /\ Len(r \o e) = Len(r) + 2
           /\ \A j \in 1..(Len(r) + 2) :
                (r \o e)[j] = IF j <= Len(r) THEN r[j] ELSE e[j - Len(r)]
<1>1. /\ r \o e \in Seq(T) /\ Len(r \o e) = Len(r) + Len(e)
      /\ \A j \in 1..(Len(r) + Len(e)) :
           (r \o e)[j] = IF j <= Len(r) THEN r[j] ELSE e[j - Len(r)]
    BY ConcatProperties
<1>2. QED
    BY <1>1, Zenon

\* One more message at the end of the stream.
LEMMA SendStep ==
    ASSUME WireInv, NEW m \in Message, ViewerSends(m)
    PROVE  WireInv'
<1>1. /\ sent' = Append(sent, m) /\ stream' = stream \o <<m, Nul>>
      /\ UNCHANGED <<buffer, handled, message>>
    BY DEF ViewerSends, session
<1>2. /\ sent \in Seq(Message) /\ handled \in Seq(Message)
      /\ stream \in Seq(Token) /\ buffer \in Seq(Token) /\ message \in Seq(Message)
    BY DEF WireInv, StreamTypes
<1>3. PICK h : h = Len(handled)
    OBVIOUS
<1>4. PICK r : r = buffer \o stream
    OBVIOUS
<1>5. PICK e : e = <<m, Nul>>
    OBVIOUS
<1>6. e \in Seq(Token) /\ Len(e) = 2 /\ e[1] = m /\ e[2] = Nul
    BY <1>5 DEF Token
<1>7. buffer' \o stream' = r \o e /\ stream' \in Seq(Token) /\ r \in Seq(Token)
  <2>a. buffer \in Seq(Token) /\ stream \in Seq(Token) /\ e \in Seq(Token)
      BY <1>2, <1>6
  <2>1. buffer \o (stream \o e) = (buffer \o stream) \o e
      BY <2>a, ConcatAssociative
  <2>2. QED
      BY <1>1, <1>2, <1>4, <1>5, <1>6, <2>1, ConcatProperties
<1>8. /\ r \o e \in Seq(Token) /\ Len(r \o e) = Len(r) + 2
      /\ \A j \in 1..(Len(r) + 2) : (r \o e)[j] = IF j <= Len(r) THEN r[j] ELSE e[j - Len(r)]
  <2>1. e \in Seq(Token) /\ Len(e) = 2 /\ r \in Seq(Token)
      BY <1>6, <1>7
  <2>2. QED
      BY <2>1, AtTheEnd
<1>9. /\ sent' \in Seq(Message) /\ Len(sent') = Len(sent) + 1
      /\ \A j \in 1..Len(sent) : sent'[j] = sent[j]
      /\ sent'[Len(sent) + 1] = m
    BY <1>1, <1>2, AppendProperties
<1>10. Len(sent) \in Nat /\ Len(r) \in Nat /\ h \in Nat
    BY <1>2, <1>3, <1>7, LenProperties
<1>11. /\ h <= Len(sent) /\ Len(r) = 2 * (Len(sent) - h)
       /\ \A k \in 1..(Len(sent) - h) : r[2 * k - 1] = sent[h + k] /\ r[2 * k] = Nul
  <2>1. Encodes(r, sent, h)
      BY <1>3, <1>4 DEF WireInv
  <2>2. QED
      BY <1>10, <2>1 DEF Encodes
<1>12. PICK q : q = r \o e
    OBVIOUS
<1>13. Encodes(q, sent', h)
  <2>1. h \in 0..Len(sent') /\ Len(q) = 2 * (Len(sent') - h)
      BY <1>8, <1>9, <1>10, <1>11, <1>12
  <2>2. ASSUME NEW k \in 1..(Len(sent') - h)
        PROVE  q[2 * k - 1] = sent'[h + k] /\ q[2 * k] = Nul
    <3>1. k \in Nat /\ k >= 1
        BY <1>9, <1>10
    <3>2. CASE k <= Len(sent) - h
      <4>1. /\ 2 * k - 1 \in 1..Len(r) /\ 2 * k \in 1..Len(r)
            /\ h + k \in 1..Len(sent) /\ k \in 1..(Len(sent) - h)
          BY <1>10, <1>11, <3>1, <3>2
      <4>2. q[2 * k - 1] = r[2 * k - 1] /\ q[2 * k] = r[2 * k]
          BY <1>8, <1>10, <1>12, <4>1
      <4>3. QED
          BY <1>9, <1>11, <4>1, <4>2
    <3>3. CASE k = Len(sent) - h + 1
      <4>1. 2 * k - 1 = Len(r) + 1 /\ 2 * k = Len(r) + 2 /\ h + k = Len(sent) + 1
          BY <1>10, <1>11, <3>3
      <4>2. q[Len(r) + 1] = e[1] /\ q[Len(r) + 2] = e[2]
        <5>1. /\ Len(r) + 1 \in 1..(Len(r) + 2) /\ ~(Len(r) + 1 <= Len(r))
              /\ Len(r) + 2 \in 1..(Len(r) + 2) /\ ~(Len(r) + 2 <= Len(r))
              /\ Len(r) + 1 - Len(r) = 1 /\ Len(r) + 2 - Len(r) = 2
            BY <1>10
        <5>2. QED
            BY <1>8, <1>12, <5>1
      <4>3. QED
          BY <1>6, <1>9, <4>1, <4>2
    <3>4. QED
        BY <1>9, <1>10, <1>11, <3>1, <3>2, <3>3
  <2>3. QED
      BY <2>1, <2>2 DEF Encodes
<1>14. handled' = SubSeq(sent', 1, Len(handled'))
  <2>1. handled = SubSeq(sent, 1, h)
      BY <1>3 DEF WireInv
  <2>2. SubSeq(sent', 1, h) = SubSeq(sent, 1, h)
      BY <1>9, <1>10, <1>11
  <2>3. QED
      BY <1>1, <1>3, <2>1, <2>2
<1>15. QED
    BY <1>1, <1>2, <1>3, <1>7, <1>9, <1>12, <1>13, <1>14 DEF WireInv, StreamTypes

LEMMA WireStep == WireInv /\ [Next]_vars => WireInv'
<1> SUFFICES ASSUME WireInv, [Next]_vars PROVE WireInv'
    OBVIOUS
<1>1. ASSUME NEW m \in Message, ViewerSends(m) PROVE WireInv'
    BY <1>1, SendStep
<1>2. CASE greet
  <2>1. PICK n \in 1..Len(stream) : Receive(n)
      BY <1>2 DEF greet
  <2>2. UNCHANGED <<sent, message>>
      BY <1>2 DEF greet
  <2>3. QED
      BY <2>1, <2>2, ReceiveStep DEF WireInv, StreamTypes
<1>3. CASE runClientReceives
  <2>1. PICK n \in 1..Len(stream) : Receive(n) /\ message' = getMessage(n).message
      BY <1>3 DEF runClientReceives
  <2>2. UNCHANGED sent
      BY <1>3 DEF runClientReceives
  <2>3. QED
      BY <2>1, <2>2, ReceiveStep DEF WireInv, StreamTypes
<1>4. CASE runClientHandles
  <2>1. UNCHANGED <<sent, handled, buffer, stream>> /\ message' = <<>>
      BY <1>4 DEF runClientHandles, peer
  <2>2. message' \in Seq(Message) /\ Len(message') = 0
      BY <2>1, EmptySeq
  <2>3. QED
      BY <2>1, <2>2 DEF WireInv, StreamTypes
<1>5. CASE \/ ReuseSession \/ DestroySession \/ initClient \/ addToWaveform \/ accept
           \/ greetDisconnected \/ greetTimeout \/ runClientDisconnects
           \/ runClientEnds \/ ViewerConnects \/ ViewerExits \/ UNCHANGED vars
  <2>1. UNCHANGED <<sent, handled, buffer, stream, message>>
      BY <1>5 DEF ReuseSession, DestroySession, initClient, addToWaveform, accept,
          greetDisconnected, greetTimeout, runClientDisconnects, runClientEnds,
          ViewerConnects, ViewerExits, vars, session, peer
  <2>2. QED
      BY <2>1 DEF WireInv, StreamTypes
<1>6. QED
    BY <1>1, <1>2, <1>3, <1>4, <1>5 DEF Next, Worker, Thread

\* getMessage, called by the constructor and by the thread: however the bytes of the
\* viewer are cut into packets, its messages are taken whole, in order and once.
THEOREM NoMessageIsLost == Spec => []NothingLostInPackets
<1>1. WireInv => NothingLostInPackets
  <2> SUFFICES ASSUME WireInv PROVE NothingLostInPackets
      OBVIOUS
  <2>1. Encodes(buffer \o stream, sent, Len(handled))
      BY DEF WireInv
  <2>2. handled = SubSeq(sent, 1, Len(handled)) /\ Len(message) <= 1
      BY DEF WireInv
  <2>3. QED
      BY <2>1, <2>2 DEF NothingLostInPackets, Encodes
<1>2. QED
    BY <1>1, WireInit, WireStep, PTL DEF Spec
=============================================================================
