-------------------------- MODULE BaseEvent_proofs --------------------------
(* Theorems about BaseEvent, for buffers, requests and responses of any length *)
(* and any number of requests.  All but the first take requests that come in  *)
(* bursts.                                                                    *)
EXTENDS BaseEvent, SequenceTheorems, TLAPS

-----------------------------------------------------------------------------
(* Numbers and sequences.                                                     *)

LEMMA Multiples ==
    ASSUME NEW m \in Nat \ {0}, NEW a \in Nat, NEW b \in Nat
    PROVE  /\ a * m \in Nat /\ (a + 1) * m = a * m + m
           /\ a < b <=> a * m < b * m
           /\ a * m = b * m => a = b
           /\ a < b => a * m + m <= b * m
OBVIOUS

LEMMA Quotient ==
    ASSUME NEW m \in Nat \ {0}, NEW q \in Nat, NEW r \in Nat, r < m
    PROVE  (q * m + r) \div m = q /\ (q * m + r) % m = r
OBVIOUS

LEMMA WholePart ==
    ASSUME NEW m \in Nat \ {0}, NEW a \in Nat, a % m = 0
    PROVE  \E q \in Nat : a = q * m
OBVIOUS

LEMMA Lengths ==
    /\ BufferLen \in Nat \ {0} /\ ReqLen \in Nat \ {0} /\ RespLen \in Nat \ {0}
    /\ SizeT \in Nat \ {0} /\ RespLen < SizeT /\ MaxReq \in Nat \ {0} /\ Window \in Nat \ {0}
    /\ MaxReq * ReqLen \in Nat /\ 0 \in Early /\ Freed \notin Seq(Nat)
    /\ BufferLen \div 2 \in Nat /\ BufferLen \div 2 < BufferLen
BY EventAssumption

LEMMA PositionsAre ==
    ASSUME NEW a \in Nat, NEW n \in Nat
    PROVE  /\ Positions(a + 1, a + n) \in Seq(Nat) /\ Len(Positions(a + 1, a + n)) = n
           /\ \A i \in 1..n : Positions(a + 1, a + n)[i] = a + i
<1>1. a + n - (a + 1) + 1 = n /\ \A i \in 1..n : a + 1 + i - 1 = a + i /\ a + i \in Nat
  OBVIOUS
<1>2. Positions(a + 1, a + n) = [i \in 1..n |-> a + i]
  BY <1>1 DEF Positions
<1> QED
  BY <1>1, <1>2

LEMMA PositionsFromOne ==
    ASSUME NEW n \in Nat
    PROVE  /\ Positions(1, n) \in Seq(Nat) /\ Len(Positions(1, n)) = n
           /\ \A i \in 1..n : Positions(1, n)[i] = i
<1>1. n - 1 + 1 = n /\ \A i \in 1..n : 1 + i - 1 = i
  OBVIOUS
<1>2. Positions(1, n) = [i \in 1..n |-> i]
  BY <1>1 DEF Positions
<1> QED
  BY <1>2

LEMMA PositionsJoin ==
    ASSUME NEW s \in Nat, NEW n \in Nat
    PROVE  Positions(1, s) \o Positions(s + 1, s + n) = Positions(1, s + n)
<1> DEFINE a == Positions(1, s)
           b == Positions(s + 1, s + n)
           c == Positions(1, s + n)
<1>1. /\ a \in Seq(Nat) /\ Len(a) = s /\ \A i \in 1..s : a[i] = i
      /\ c \in Seq(Nat) /\ Len(c) = s + n /\ \A i \in 1..(s + n) : c[i] = i
      /\ b \in Seq(Nat) /\ Len(b) = n /\ \A i \in 1..n : b[i] = s + i
  BY s + n \in Nat, PositionsFromOne, PositionsAre
<1> HIDE DEF a, b, c
<1>2. a \o b \in Seq(Nat) /\ Len(a \o b) = s + n
      /\ \A i \in 1..(s + n) : (a \o b)[i] = IF i <= s THEN a[i] ELSE b[i - s]
  BY <1>1, ConcatProperties
<1>3. \A i \in 1..(s + n) : (a \o b)[i] = c[i]
  <2>1. ASSUME NEW i \in 1..(s + n) PROVE (a \o b)[i] = c[i]
    <3>1. CASE i <= s
      BY <1>1, <1>2, <3>1
    <3>2. CASE ~(i <= s)
      <4>1. i - s \in 1..n
        BY <3>2
      <4> QED
        BY <1>1, <1>2, <3>2, <4>1
    <3> QED
      BY <3>1, <3>2
  <2> QED
    BY <2>1
<1>4. a \o b = c
  BY <1>1, <1>2, <1>3, SeqEqual
<1> QED
  BY <1>4 DEF a, b, c

\* A sequence cut in two.
LEMMA Cut ==
    ASSUME NEW s \in Seq(Nat), NEW n \in 0..Len(s)
    PROVE  /\ SubSeq(s, 1, n) \in Seq(Nat) /\ Len(SubSeq(s, 1, n)) = n
           /\ SubSeq(s, n + 1, Len(s)) \in Seq(Nat) /\ Len(SubSeq(s, n + 1, Len(s))) = Len(s) - n
           /\ SubSeq(s, 1, n) \o SubSeq(s, n + 1, Len(s)) = s
<1>1. Len(s) \in Nat /\ \A i \in 1..Len(s) : s[i] \in Nat
  OBVIOUS
<1>2. SubSeq(s, 1, n) \in Seq(Nat) /\ Len(SubSeq(s, 1, n)) = n
  BY <1>1, SubSeqProperties
<1>3. SubSeq(s, n + 1, Len(s)) \in Seq(Nat) /\ Len(SubSeq(s, n + 1, Len(s))) = Len(s) - n
  <2>1. n + 1 \in Int /\ Len(s) \in Int /\ \A i \in (n + 1)..Len(s) : s[i] \in Nat
    BY <1>1
  <2>2. /\ SubSeq(s, n + 1, Len(s)) \in Seq(Nat)
        /\ Len(SubSeq(s, n + 1, Len(s))) = IF n + 1 <= Len(s) THEN Len(s) - (n + 1) + 1 ELSE 0
    BY <2>1, SubSeqProperties
  <2> QED
    BY <1>1, <2>2
<1>4. SubSeq(s, 1, n) \o SubSeq(s, n + 1, Len(s)) = SubSeq(s, 1, Len(s))
  <2>1. 1 \in 1..(Len(s) + 1) /\ n \in (1 - 1)..Len(s) /\ Len(s) \in n..Len(s)
    BY <1>1
  <2> QED
    BY <2>1, ConcatAdjacentSubSeq
<1> QED
  BY <1>2, <1>3, <1>4, SubSeqFull

LEMMA Reassociate ==
    ASSUME NEW a \in Seq(Nat), NEW b \in Seq(Nat), NEW c \in Seq(Nat)
    PROVE  /\ (a \o b) \o c = a \o (b \o c)
           /\ a \o b \in Seq(Nat) /\ b \o c \in Seq(Nat)
BY ConcatAssociative, ConcatProperties

-----------------------------------------------------------------------------
(* The invariants.                                                            *)

Raw == IF readDataRaw = Freed THEN <<>> ELSE readDataRaw

\* The requests cut from the text.
Asked == Len(executed) + (IF stageNow \in 2..3 THEN 1 ELSE 0)

\* What the variables are, and the buffer's half that is never used up.
BufferInv ==
    /\ sent \in 0..(MaxReq * ReqLen) /\ net \in Seq(Nat)
    /\ fin \in BOOLEAN /\ edge \in BOOLEAN /\ running \in BOOLEAN /\ closed \in BOOLEAN
    /\ stageNow \in 1..6
    /\ readDataLen \in Nat /\ readDataLen <= BufferLen \div 2
    /\ \/ readDataRaw = Freed
       \/ readDataRaw \in Seq(Nat) /\ Len(readDataRaw) = readDataLen
    /\ readDataString \in Seq(Nat) /\ consumed \in Seq(Nat)
    /\ readData \in 0..MaxReq
    /\ bytesWritten \in 0..(SizeT - 1)
    /\ executed \in Seq(1..MaxReq)
    /\ running /\ stageNow = 1 => readDataRaw # Freed

Begins(n, text) == Len(text) >= ReqLen /\ \A i \in 1..ReqLen : text[i] = (n - 1) * ReqLen + i

\* Until the end of the stream is read.
Kept ==
    /\ ~closed
    /\ consumed \o readDataString \o Raw \o net = Positions(1, sent)
    /\ Len(consumed) = Asked * ReqLen
    /\ readData = Asked
    /\ \A i \in DOMAIN executed : executed[i] = i
    /\ readDataRaw = Freed => readDataLen = 0

\* After that the last request read stays in the text.
Stays(n) ==
    /\ fin /\ net = <<>> /\ ~closed
    /\ Begins(n, readDataString)
    /\ readData = n
    /\ Len(executed) >= n - 1
    /\ \A i \in DOMAIN executed : executed[i] = IF i < n THEN i ELSE n

\* Or there was none.
Left ==
    /\ fin /\ net = <<>> /\ closed /\ stageNow = 6
    /\ \A i \in DOMAIN executed : executed[i] = i

Shape == Kept \/ (\E n \in 1..MaxReq : Stays(n)) \/ Left

InputInv ==
    /\ Bursts
    /\ fin => sent % ReqLen = 0
    /\ BufferInv
    /\ Shape

\* What was written of the responses, in each stage.
Done == IF stageNow \in 4..6 THEN (Len(executed) - 1) * RespLen + bytesWritten ELSE Len(executed) * RespLen

OutputInv ==
    /\ ~Backpressure
    /\ bytesWritten \in 0..RespLen
    /\ stageNow \in 1..4 => bytesWritten = 0
    /\ stageNow = 5 => bytesWritten < RespLen
    /\ stageNow = 6 /\ ~closed => bytesWritten = RespLen
    /\ ~fin => ~closed /\ Len(wire) = Done
    /\ ~fin /\ stageNow \in 4..6 => Len(executed) >= 1
    /\ wire \in Seq((1..MaxReq) \X (1..RespLen))
    /\ WireExact

-----------------------------------------------------------------------------
(* What the parser is given.                                                  *)

LEMMA RequestIs ==
    ASSUME NEW n \in Nat \ {0}
    PROVE  /\ RequestBytes(n) \in Seq(Nat) /\ Len(RequestBytes(n)) = ReqLen
           /\ \A i \in 1..ReqLen : RequestBytes(n)[i] = (n - 1) * ReqLen + i
<1>1. PICK a \in Nat : a = (n - 1) * ReqLen /\ n * ReqLen = a + ReqLen
  <2>1. n - 1 \in Nat /\ n - 1 + 1 = n
    OBVIOUS
  <2> QED
    BY <2>1, Lengths, Multiples
<1>2. ReqLen \in Nat /\ a + ReqLen - (a + 1) + 1 = ReqLen
      /\ \A i \in 1..ReqLen : a + 1 + i - 1 = a + i /\ a + i \in Nat
  BY Lengths
<1>3. RequestBytes(n) = [i \in 1..ReqLen |-> a + i]
  BY <1>1, <1>2 DEF RequestBytes, Positions
<1>4. /\ RequestBytes(n) \in Seq(Nat) /\ Len(RequestBytes(n)) = ReqLen
      /\ \A i \in 1..ReqLen : RequestBytes(n)[i] = a + i
  BY <1>2, <1>3
<1> QED
  BY <1>1, <1>4

LEMMA BeginsIff ==
    ASSUME NEW text \in Seq(Nat), NEW n \in Nat \ {0}
    PROVE  IsPrefix(RequestBytes(n), text) <=> Begins(n, text)
<1> DEFINE r == RequestBytes(n)
<1>1. /\ r \in Seq(Nat) /\ Len(r) = ReqLen /\ ReqLen \in Nat \ {0}
      /\ \A i \in 1..ReqLen : r[i] = (n - 1) * ReqLen + i
  BY RequestIs, Lengths
<1> HIDE DEF r
<1>2. SubSeq(r, 1, ReqLen) = r
  BY <1>1, SubSeqFull
<1>3. ASSUME ReqLen <= Len(text)
      PROVE  /\ SubSeq(text, 1, ReqLen) \in Seq(Nat) /\ Len(SubSeq(text, 1, ReqLen)) = ReqLen
             /\ \A i \in 1..ReqLen : SubSeq(text, 1, ReqLen)[i] = text[i]
  <2>1. \A i \in 1..ReqLen : text[i] \in Nat
    BY <1>1, <1>3
  <2>2. ReqLen - 1 + 1 = ReqLen /\ \A i \in 1..ReqLen : 1 + i - 1 = i
    BY <1>1
  <2> QED
    BY <1>1, <2>1, <2>2, SubSeqProperties
<1>4. ASSUME Begins(n, text) PROVE SubSeq(text, 1, ReqLen) = r
  <2>1. \A i \in 1..ReqLen : SubSeq(text, 1, ReqLen)[i] = r[i]
    BY <1>1, <1>3, <1>4 DEF Begins
  <2> QED
    BY <1>1, <1>3, <1>4, <2>1, SeqEqual DEF Begins
<1>5. ASSUME ReqLen <= Len(text), SubSeq(text, 1, ReqLen) = r PROVE Begins(n, text)
  BY <1>1, <1>3, <1>5 DEF Begins
<1>6. IsPrefix(r, text) <=> ReqLen <= Len(text) /\ SubSeq(text, 1, ReqLen) = r
  BY <1>1, <1>2 DEF IsPrefix
<1> QED
  BY <1>1, <1>4, <1>5, <1>6 DEF Begins, r

LEMMA BeginsRequest ==
    ASSUME NEW text \in Seq(Nat), NEW n \in Nat \ {0}, Begins(n, text)
    PROVE  RequestOf(text) = n
<1>1. text # <<>> /\ Head(text) = (n - 1) * ReqLen + 1
  BY Lengths DEF Begins
<1>2. PICK a \in Nat : a = (n - 1) * ReqLen
  BY n - 1 \in Nat, Lengths, Multiples
<1>3. Head(text) - 1 = (n - 1) * ReqLen + 0
  BY <1>1, <1>2
<1>4. ((n - 1) * ReqLen + 0) \div ReqLen = n - 1
  BY n - 1 \in Nat, Lengths, Quotient
<1> QED
  BY <1>3, <1>4 DEF RequestOf

\* A request is recognized, and nothing is taken for an error.
LEMMA Recognized ==
    ASSUME NEW text \in Seq(Nat), NEW n \in 1..MaxReq, Begins(n, text)
    PROVE  Verdicts(text) = {<<0, ReqLen>>}
<1>1. IsPrefix(RequestBytes(n), text)
  BY Lengths, BeginsIff
<1> QED
  BY <1>1 DEF Verdicts

LEMMA NothingRead == Verdicts(<<>>) = {<<-1>>}
<1> DEFINE t == <<>>
<1>1. t \in Seq(Nat) /\ Len(t) = 0
  OBVIOUS
<1>2. ~ \E n \in 1..MaxReq : IsPrefix(RequestBytes(n), t)
  <2>1. ASSUME NEW n \in 1..MaxReq PROVE ~IsPrefix(RequestBytes(n), t)
    <3>1. ~Begins(n, t)
      BY <1>1, Lengths DEF Begins
    <3>2. n \in Nat \ {0}
      BY Lengths
    <3> HIDE DEF t
    <3> QED
      BY <1>1, <3>1, <3>2, BeginsIff
  <2> QED
    BY <2>1
<1>3. IsStrictPrefix(t, RequestBytes(1)) /\ 1 \in 1..MaxReq
  <2>1. RequestBytes(1) \in Seq(Nat) /\ Len(RequestBytes(1)) = ReqLen /\ ReqLen # 0
    BY RequestIs, Lengths
  <2>2. SubSeq(t, 1, 0) = <<>> /\ SubSeq(RequestBytes(1), 1, 0) = <<>>
    BY SubSeqEmpty
  <2> QED
    BY <1>1, <2>1, <2>2, Lengths DEF IsPrefix, IsStrictPrefix
<1> QED
  BY <1>1, <1>2, <1>3, Lengths DEF Verdicts

LEMMA BeginsKept ==
    ASSUME NEW s \in Seq(Nat), NEW t \in Seq(Nat), NEW n \in Nat, Begins(n, s)
    PROVE  Begins(n, s \o t)
<1>1. Len(s \o t) = Len(s) + Len(t) /\ \A i \in 1..Len(s) : (s \o t)[i] = s[i]
  <2>1. \A i \in 1..Len(s) : i \in 1..(Len(s) + Len(t)) /\ i <= Len(s)
    OBVIOUS
  <2> QED
    BY <2>1, ConcatProperties
<1> QED
  BY <1>1, Lengths DEF Begins

\* With the kernel's queue empty, the text and the buffer are what was sent and
\* not yet cut.
LEMMA TheRest ==
    ASSUME BufferInv, Kept, net = <<>>
    PROVE  /\ readDataString \o Raw \in Seq(Nat)
           /\ consumed \o (readDataString \o Raw) = Positions(1, sent)
           /\ Asked \in Nat /\ Asked * ReqLen \in Nat
           /\ Asked * ReqLen + Len(readDataString \o Raw) = sent
           /\ \A i \in 1..Len(readDataString \o Raw) : (readDataString \o Raw)[i] = Asked * ReqLen + i
<1>1. Raw \in Seq(Nat) /\ readDataString \in Seq(Nat) /\ consumed \in Seq(Nat) /\ sent \in Nat
  BY Lengths DEF BufferInv, Raw
<1>2. readDataString \o Raw \in Seq(Nat)
  BY <1>1, ConcatProperties
<1>3. consumed \o readDataString \o Raw = Positions(1, sent)
  <2>1. consumed \o readDataString \o Raw \in Seq(Nat)
    BY <1>1, ConcatProperties
  <2> QED
    BY <2>1, ConcatEmptySeq DEF Kept
<1>4. consumed \o (readDataString \o Raw) = Positions(1, sent)
  <2>1. (consumed \o readDataString) \o Raw = consumed \o (readDataString \o Raw)
    BY <1>1, ConcatAssociative
  <2> QED
    BY <1>3, <2>1
<1> DEFINE t == readDataString \o Raw
           c == Len(consumed)
<1>5. Asked \in Nat /\ Asked * ReqLen \in Nat /\ c = Asked * ReqLen /\ c \in Nat /\ Len(t) \in Nat
  <2>1. Len(executed) \in Nat
    BY DEF BufferInv
  <2> QED
    BY <1>1, <1>2, <2>1, Lengths, Multiples DEF Asked, Kept
<1> HIDE DEF t
<1>6. Positions(1, sent) \in Seq(Nat) /\ Len(Positions(1, sent)) = sent
      /\ \A i \in 1..sent : Positions(1, sent)[i] = i
  BY <1>1, PositionsFromOne
<1>7. c + Len(t) = sent /\ \A i \in 1..(c + Len(t)) : i = IF i <= c THEN consumed[i] ELSE t[i - c]
  <2>1. /\ Len(consumed \o t) = c + Len(t)
        /\ \A i \in 1..(c + Len(t)) : (consumed \o t)[i] = IF i <= c THEN consumed[i] ELSE t[i - c]
    BY <1>1, <1>2, ConcatProperties DEF t
  <2> QED
    BY <1>4, <1>6, <2>1 DEF t
<1>8. \A i \in 1..Len(t) : t[i] = c + i
  <2> HIDE DEF c
  <2>1. ASSUME NEW i \in 1..Len(t) PROVE t[i] = c + i
    <3>1. PICK j \in 1..(c + Len(t)) : j = c + i /\ ~(j <= c) /\ j - c = i
      BY <1>5
    <3> QED
      BY <1>7, <3>1
  <2> QED
    BY <2>1
<1> QED
  BY <1>2, <1>4, <1>5, <1>7, <1>8 DEF t

\* A request recognized is the next one.
LEMMA RecognizedNext ==
    ASSUME BufferInv, Kept, net = <<>>, NEW n \in 1..MaxReq,
           IsPrefix(RequestBytes(n), readDataString \o Raw)
    PROVE  n = Asked + 1 /\ Begins(n, readDataString \o Raw)
<1> DEFINE t == readDataString \o Raw
<1>1. n \in Nat \ {0}
  BY Lengths
<1>2. /\ t \in Seq(Nat) /\ Asked \in Nat /\ Asked * ReqLen \in Nat
      /\ \A i \in 1..Len(t) : t[i] = Asked * ReqLen + i
  BY TheRest
<1>3. IsPrefix(RequestBytes(n), t)
  OBVIOUS
<1> HIDE DEF t
<1>4. Begins(n, t)
  BY <1>1, <1>2, <1>3, BeginsIff
<1>5. t[1] = (n - 1) * ReqLen + 1 /\ t[1] = Asked * ReqLen + 1
  BY <1>2, <1>4, Lengths DEF Begins
<1>6. n - 1 \in Nat /\ (n - 1) * ReqLen \in Nat
  BY <1>1, Lengths, Multiples
<1>7. (n - 1) * ReqLen = Asked * ReqLen
  BY <1>2, <1>5, <1>6
<1>8. n - 1 = Asked
  BY <1>2, <1>6, <1>7, Lengths, Multiples
<1> QED
  BY <1>1, <1>4, <1>8 DEF t

\* At the end of the stream the next request is there, or nothing is.
LEMMA WholeRequest ==
    ASSUME BufferInv, Kept, net = <<>>, sent % ReqLen = 0, readDataString \o Raw # <<>>
    PROVE  Asked + 1 \in 1..MaxReq /\ Begins(Asked + 1, readDataString \o Raw)
<1> DEFINE t == readDataString \o Raw
<1>1. /\ t \in Seq(Nat) /\ Asked \in Nat /\ Asked * ReqLen \in Nat
      /\ Asked * ReqLen + Len(t) = sent
      /\ \A i \in 1..Len(t) : t[i] = Asked * ReqLen + i
  BY TheRest
<1>2. t # <<>>
  OBVIOUS
<1> HIDE DEF t
<1>3. Len(t) \in Nat \ {0}
  BY <1>1, <1>2, EmptySeq
<1>4. sent \in Nat /\ sent <= MaxReq * ReqLen
  BY Lengths DEF BufferInv
<1>5. PICK q \in Nat : sent = q * ReqLen
  BY <1>4, WholePart, Lengths
<1>6. Asked < q
  <2>1. Asked * ReqLen < q * ReqLen
    BY <1>1, <1>3, <1>5
  <2> QED
    BY <1>1, <1>5, <2>1, Lengths, Multiples
<1>7. Asked * ReqLen + ReqLen <= q * ReqLen
  BY <1>1, <1>5, <1>6, Lengths, Multiples
<1>8. q <= MaxReq
  <2>1. ~(MaxReq * ReqLen < q * ReqLen)
    BY <1>4, <1>5, Lengths
  <2> QED
    BY <1>5, <2>1, Lengths, Multiples
<1>9. Len(t) >= ReqLen
  BY <1>1, <1>3, <1>5, <1>7, Lengths
<1>10. PICK n \in Nat : n = Asked + 1 /\ n - 1 = Asked
  BY <1>1
<1>11. Begins(Asked + 1, t)
  <2>1. \A i \in 1..ReqLen : t[i] = (n - 1) * ReqLen + i
    BY <1>1, <1>3, <1>9, <1>10, Lengths
  <2>2. Begins(n, t)
    BY <1>9, <2>1 DEF Begins
  <2> QED
    BY <1>10, <2>2
<1>12. Asked + 1 \in 1..MaxReq
  BY <1>1, <1>5, <1>6, <1>8, Lengths
<1> QED
  BY <1>11, <1>12 DEF t

-----------------------------------------------------------------------------
(* The input, step by step.                                                   *)

LEMMA InputInit == Bursts /\ Init => InputInv
<1> SUFFICES ASSUME Bursts, Init PROVE InputInv
  OBVIOUS
<1>1. BufferInv
  <2>1. /\ 0 \in 0..(MaxReq * ReqLen) /\ 0 \in Nat /\ 0 <= BufferLen \div 2
        /\ 0 \in 0..MaxReq /\ 0 \in 0..(SizeT - 1) /\ 1 \in 1..6
    BY Lengths
  <2>2. <<>> \in Seq(Nat) /\ <<>> \in Seq(1..MaxReq)
    OBVIOUS
  <2> QED
    BY <2>1, <2>2 DEF Init, BufferInv
<1>2. Positions(1, 0) = <<>>
  <2>1. Positions(1, 0) \in Seq(Nat) /\ Len(Positions(1, 0)) = 0
    BY PositionsFromOne
  <2> QED
    BY <2>1, EmptySeq
<1>3. Kept
  <2>1. consumed \o readDataString \o Raw \o net = <<>>
    <3>1. consumed = <<>> /\ readDataString = <<>> /\ Raw = <<>> /\ net = <<>>
      BY DEF Init, Raw
    <3>2. <<>> \o <<>> = <<>>
      BY ConcatEmptySeq, EmptySeq
    <3> QED
      BY <3>1, <3>2
  <2>2. Asked = 0 /\ Asked * ReqLen = 0 /\ Len(consumed) = 0
    BY Lengths DEF Init, Asked
  <2> QED
    BY <1>2, <2>1, <2>2 DEF Init, Kept
<1> QED
  BY <1>1, <1>3 DEF Init, InputInv, Shape

\* A step that leaves the input's parts where they are.
LEMMA ShapeCarried ==
    ASSUME InputInv, UNCHANGED <<net, closed, consumed, readDataString, readData, executed>>,
           Asked' = Asked, closed => stageNow' = stageNow,
           sent' = sent, fin \in BOOLEAN, fin' \in BOOLEAN, fin => fin',
           \/ readDataRaw' = readDataRaw /\ readDataLen' = readDataLen
           \/ ~closed /\ ~(\E n \in 1..MaxReq : Stays(n)) /\ readDataRaw = Freed
              /\ readDataRaw' = <<>> /\ readDataLen' = 0
           \/ \E n \in 1..MaxReq : Stays(n)
    PROVE  Shape'
<1>1. ASSUME Kept, ~ \E n \in 1..MaxReq : Stays(n) PROVE Kept'
  <2>1. Raw' = Raw /\ (readDataRaw' = Freed => readDataLen' = 0)
    BY <1>1, Lengths, <<>> \in Seq(Nat) DEF Raw, Kept
  <2> QED
    BY <1>1, <2>1 DEF Kept
<1>2. ASSUME NEW n \in 1..MaxReq, Stays(n) PROVE Stays(n)'
  BY <1>2 DEF Stays, Begins
<1>3. ASSUME Left PROVE Left'
  BY <1>3 DEF Left
<1> QED
  BY <1>1, <1>2, <1>3 DEF InputInv, Shape

LEMMA InputArrive ==
    ASSUME InputInv, NEW n \in 1..(MaxReq * ReqLen), Arrive(n)
    PROVE  InputInv'
<1>1. n \in Nat /\ sent \in Nat /\ sent + n \in Nat /\ sent' = sent + n
      /\ sent' \in 0..(MaxReq * ReqLen)
  BY Lengths DEF InputInv, BufferInv, Arrive
<1> DEFINE p == Positions(sent + 1, sent + n)
<1>2. p \in Seq(Nat) /\ net' = net \o p /\ net \in Seq(Nat)
  BY <1>1, PositionsAre DEF Arrive, InputInv, BufferInv
<1>3. Kept
  BY DEF InputInv, Shape, Stays, Left, Arrive
<1>4. /\ Raw' = Raw /\ Raw \in Seq(Nat) /\ Asked' = Asked
      /\ readDataString \in Seq(Nat) /\ consumed \in Seq(Nat)
  BY Lengths DEF InputInv, BufferInv, Raw, Asked, Arrive
<1>5. consumed' \o readDataString' \o Raw' \o net' = Positions(1, sent')
  <2> HIDE DEF p
  <2> DEFINE c == consumed \o readDataString \o Raw
  <2>1. c \in Seq(Nat)
    BY <1>4, ConcatProperties
  <2>2. c \o (net \o p) = (c \o net) \o p
    <3> HIDE DEF c
    <3>1. p \in Seq(Nat) /\ net \in Seq(Nat)
      BY <1>2
    <3> QED
      BY <2>1, <3>1, Reassociate
  <2>3. (consumed \o readDataString \o Raw) \o net = Positions(1, sent)
    BY <1>3 DEF Kept
  <2>4. Positions(1, sent) \o p = Positions(1, sent + n)
    BY <1>1, PositionsJoin DEF p
  <2>5. consumed' = consumed /\ readDataString' = readDataString
    BY DEF Arrive
  <2> QED
    BY <1>1, <1>2, <1>4, <2>2, <2>3, <2>4, <2>5
<1>6. Kept'
  BY <1>3, <1>4, <1>5 DEF Kept, Arrive
<1>7. net' \in Seq(Nat)
  <2> HIDE DEF p
  <2> QED
    BY <1>2, ConcatProperties
<1>8. BufferInv'
  BY <1>1, <1>7 DEF InputInv, BufferInv, Arrive
<1> QED
  BY <1>6, <1>8 DEF InputInv, Shape, Arrive

LEMMA InputFinish == InputInv /\ Finish => InputInv'
<1> SUFFICES ASSUME InputInv, Finish PROVE InputInv'
  OBVIOUS
<1>1. BufferInv'
  BY DEF InputInv, BufferInv, Finish
<1>2. Shape'
  <2>1. Asked' = Asked
    BY DEF Asked, Finish
  <2> QED
    BY <2>1, ShapeCarried DEF Finish, InputInv, BufferInv
<1> QED
  BY <1>1, <1>2 DEF InputInv, Finish

LEMMA InputReport == InputInv /\ Report => InputInv'
<1> SUFFICES ASSUME InputInv, Report PROVE InputInv'
  OBVIOUS
<1>1. /\ readDataRaw' \in Seq(Nat) /\ Len(readDataRaw') = readDataLen
      /\ readDataRaw' # Freed
  <2>1. readDataLen \in Nat
    BY DEF InputInv, BufferInv
  <2>2. [i \in 1..readDataLen |-> 0] \in Seq(Nat) /\ Len([i \in 1..readDataLen |-> 0]) = readDataLen
    BY <2>1
  <2> QED
    BY <2>2, Lengths DEF InputInv, BufferInv, Report
<1>2. BufferInv'
  <2>1. stageNow' \in 1..6 /\ bytesWritten' \in 0..(SizeT - 1)
    BY Lengths DEF InputInv, BufferInv, Report
  <2> QED
    BY <1>1, <2>1 DEF InputInv, BufferInv, Report
<1>3. Shape'
  <2>1. Asked' = Asked
    BY DEF Asked, Report, InputInv, BufferInv
  <2>2. CASE \E n \in 1..MaxReq : Stays(n)
    BY <2>1, <2>2, ShapeCarried DEF Report, InputInv, BufferInv
  <2>3. CASE ~ \E n \in 1..MaxReq : Stays(n)
    <3>1. Kept
      BY <2>3 DEF InputInv, Shape, Left, Report
    <3>2. CASE readDataRaw = Freed
      <4>1. readDataLen = 0
        BY <3>1, <3>2 DEF Kept
      <4>2. readDataRaw' = <<>> /\ readDataLen' = 0
        BY <3>2, <4>1 DEF Report
      <4> QED
        BY <2>1, <2>3, <3>2, <4>2, ShapeCarried DEF Report, InputInv, BufferInv
    <3>3. CASE readDataRaw # Freed
      BY <2>1, <3>3, ShapeCarried DEF Report, InputInv, BufferInv
    <3> QED
      BY <3>2, <3>3
  <2> QED
    BY <2>2, <2>3
<1> QED
  BY <1>2, <1>3 DEF InputInv, Report

LEMMA InputReadSome ==
    ASSUME InputInv, NEW n \in 1..BufferLen, ReadSome(n)
    PROVE  InputInv'
<1> DEFINE raw == readDataRaw \o SubSeq(net, 1, n)
           rest == SubSeq(net, n + 1, Len(net))
<1>1. /\ readDataRaw \in Seq(Nat) /\ net \in Seq(Nat) /\ n \in 0..Len(net)
      /\ readDataString \in Seq(Nat) /\ consumed \in Seq(Nat) /\ net # <<>>
  <2>1. net \in Seq(Nat) /\ n >= 1 /\ n <= Len(net)
    BY Lengths DEF InputInv, BufferInv, ReadSome
  <2> QED
    BY <2>1 DEF InputInv, BufferInv, ReadSome, Reading
<1>2. Kept
  BY <1>1 DEF InputInv, Shape, Stays, Left
<1>3. SubSeq(net, 1, n) \in Seq(Nat) /\ rest \in Seq(Nat) /\ SubSeq(net, 1, n) \o rest = net
  BY <1>1, Cut
<1>4. raw \in Seq(Nat) /\ raw \o rest = readDataRaw \o net
  <2> DEFINE first == SubSeq(net, 1, n)
  <2>1. first \in Seq(Nat) /\ rest \in Seq(Nat) /\ first \o rest = net
    BY <1>3
  <2> HIDE DEF first, rest
  <2>2. readDataRaw \in Seq(Nat)
    BY <1>1
  <2>3. readDataRaw \o first \in Seq(Nat) /\ (readDataRaw \o first) \o rest = readDataRaw \o net
    BY <2>1, <2>2, Reassociate
  <2> QED
    BY <2>3 DEF first
<1>5. /\ net' = rest /\ Asked' = Asked /\ readDataRaw # Freed
      /\ UNCHANGED <<sent, fin, edge, running, stageNow, readData, bytesWritten, closed, consumed, executed>>
  BY DEF ReadSome, Reading, Asked
<1>6. IF HalfFull(raw)
      THEN readDataString' = readDataString \o raw /\ readDataRaw' = <<>> /\ readDataLen' = 0
      ELSE readDataRaw' = raw /\ readDataLen' = Len(raw) /\ readDataString' = readDataString
  BY DEF ReadSome
<1> HIDE DEF raw, rest
<1>7. /\ readDataRaw' \in Seq(Nat) /\ Len(readDataRaw') = readDataLen'
      /\ readDataLen' \in Nat /\ readDataLen' <= BufferLen \div 2 /\ readDataRaw' # Freed
      /\ readDataString' \in Seq(Nat)
  <2>1. CASE HalfFull(raw)
    <3>1. readDataString' = readDataString \o raw /\ readDataRaw' = <<>> /\ readDataLen' = 0
      BY <1>6, <2>1
    <3>2. readDataString \o raw \in Seq(Nat)
      BY <1>1, <1>4, Reassociate
    <3>3. <<>> \in Seq(Nat) /\ Len(<<>>) = 0
      BY EmptySeq
    <3>4. 0 \in Nat /\ 0 <= BufferLen \div 2
      BY Lengths
    <3>5. <<>> # Freed
      BY <3>3, Lengths
    <3> QED
      BY <3>1, <3>2, <3>3, <3>4, <3>5
  <2>2. CASE ~HalfFull(raw)
    <3>1. Len(raw) \in Nat /\ Len(raw) <= BufferLen \div 2
      BY <1>4, <2>2, Lengths DEF HalfFull
    <3> QED
      BY <1>1, <1>4, <1>6, <2>2, <3>1, Lengths
  <2> QED
    BY <2>1, <2>2
<1>8. consumed \o readDataString \o readDataRaw \o net = Positions(1, sent)
  BY <1>2, <1>5 DEF Kept, Raw
<1>9. consumed \o readDataString' \o readDataRaw' \o rest = Positions(1, sent)
  <2> DEFINE c == consumed \o readDataString
  <2>1. c \in Seq(Nat) /\ rest \in Seq(Nat) /\ raw \in Seq(Nat)
    BY <1>1, <1>3, <1>4, Reassociate
  <2>2. (c \o raw) \o rest = Positions(1, sent)
    <3> HIDE DEF c
    <3>1. (c \o raw) \o rest = c \o (raw \o rest)
      BY <2>1, Reassociate
    <3>2. (c \o readDataRaw) \o net = c \o (readDataRaw \o net)
      <4>1. c \in Seq(Nat) /\ readDataRaw \in Seq(Nat) /\ net \in Seq(Nat)
        BY <1>1, <2>1
      <4> QED
        BY <4>1, Reassociate
    <3>3. raw \o rest = readDataRaw \o net
      BY <1>4
    <3> QED
      BY <1>8, <3>1, <3>2, <3>3 DEF c
  <2>3. CASE HalfFull(raw)
    <3>1. consumed \o (readDataString \o raw) = c \o raw
      <4>1. consumed \in Seq(Nat) /\ readDataString \in Seq(Nat) /\ raw \in Seq(Nat)
        BY <1>1, <2>1
      <4> QED
        BY <4>1, Reassociate
    <3>2. c \o raw \in Seq(Nat)
      <4> HIDE DEF c
      <4> QED
        BY <2>1, ConcatProperties
    <3>3. (c \o raw) \o <<>> = c \o raw
      BY <3>2, ConcatEmptySeq
    <3> QED
      BY <1>6, <2>2, <2>3, <3>1, <3>3
  <2>4. CASE ~HalfFull(raw)
    BY <1>6, <2>2, <2>4
  <2> QED
    BY <2>3, <2>4
<1>10. Kept'
  <2>1. Raw' = readDataRaw'
    BY <1>7 DEF Raw
  <2> QED
    BY <1>2, <1>5, <1>7, <1>9, <2>1 DEF Kept
<1>11. BufferInv'
  BY <1>3, <1>5, <1>7 DEF InputInv, BufferInv
<1> QED
  BY <1>5, <1>10, <1>11 DEF InputInv, Shape

LEMMA InputReadAgain == InputInv /\ ReadAgain => InputInv'
<1> SUFFICES ASSUME InputInv, ReadAgain PROVE InputInv'
  OBVIOUS
<1> DEFINE text == readDataString \o readDataRaw
           left == SubSeq(text, ReqLen + 1, Len(text))
           cut == SubSeq(text, 1, ReqLen)
<1>1. /\ running /\ stageNow = 1 /\ readDataRaw # Freed /\ net = <<>> /\ ~fin
      /\ Bursts /\ BufferInv /\ Raw = readDataRaw
      /\ UNCHANGED <<inVars, bytesWritten, executed>>
  BY DEF ReadAgain, Reading, InputInv, Raw
<1>2. Kept
  BY <1>1 DEF InputInv, Shape, Stays, Left
<1>3. PICK n \in 1..MaxReq : IsPrefix(RequestBytes(n), text)
  BY <1>1 DEF ReadAgain
<1>4. n = Asked + 1 /\ Begins(n, text)
  BY <1>1, <1>2, <1>3, RecognizedNext
<1>5. /\ text \in Seq(Nat) /\ consumed \o text = Positions(1, sent)
      /\ Asked \in Nat /\ Asked * ReqLen \in Nat
  BY <1>1, <1>2, TheRest
<1>6. n \in Nat \ {0} /\ ReqLen \in Nat \ {0}
  BY Lengths
<1> HIDE DEF text
<1>7. Verdicts(text) = {<<0, ReqLen>>} /\ RequestOf(text) = n
  BY <1>4, <1>5, <1>6, Recognized, BeginsRequest
<1>8. Complete(text, ReqLen)
  <2>1. ReqLen <= Len(text) /\ ~(ReqLen > Len(text))
    BY <1>4, <1>5, <1>6 DEF Begins
  <2> QED
    BY <1>7, <2>1 DEF ReadAgain, text
<1>9. /\ cut \in Seq(Nat) /\ Len(cut) = ReqLen /\ left \in Seq(Nat) /\ cut \o left = text
  <2>1. ReqLen \in 0..Len(text)
    BY <1>4, <1>5, <1>6 DEF Begins
  <2> QED
    BY <1>5, <2>1, Cut
<1>10. /\ stageNow' = 2 /\ readData' = n /\ readDataString' = left /\ consumed' = consumed \o cut
       /\ readDataRaw' = <<>> /\ readDataLen' = 0 /\ running' = running /\ closed' = closed
  BY <1>7, <1>8 DEF Complete
<1> HIDE DEF left, cut
<1>11. consumed \in Seq(Nat) /\ consumed' \in Seq(Nat) /\ Len(consumed') = Len(consumed) + ReqLen
  BY <1>1, <1>9, <1>10, ConcatProperties DEF BufferInv
<1>12. consumed' \o readDataString' \o Raw' \o net' = Positions(1, sent')
  <2>1. (consumed \o cut) \o left = Positions(1, sent)
    <3>1. consumed \in Seq(Nat) /\ cut \in Seq(Nat) /\ left \in Seq(Nat)
      BY <1>9, <1>11
    <3>2. (consumed \o cut) \o left = consumed \o (cut \o left)
      BY <3>1, Reassociate
    <3> QED
      BY <1>5, <1>9, <3>2
  <2>2. (consumed \o cut) \o left \in Seq(Nat)
    BY <1>9, <1>10, <1>11, ConcatProperties
  <2>3. Raw' = <<>> /\ net' = <<>> /\ sent' = sent
    BY <1>1, <1>10 DEF Raw, inVars
  <2>4. consumed' \o readDataString' \o Raw' = (consumed \o cut) \o left
    BY <1>10, <2>2, <2>3, ConcatEmptySeq
  <2> QED
    BY <2>1, <2>2, <2>3, <2>4, ConcatEmptySeq
<1>13. Asked' = n /\ Asked = n - 1 /\ Len(executed) \in Nat
  <2>1. Len(executed) \in Nat
    BY <1>1 DEF BufferInv
  <2>2. Asked = Len(executed) /\ Asked' = Len(executed) + 1
    BY <1>1, <1>10, <2>1 DEF Asked
  <2> QED
    BY <1>4, <2>1, <2>2
<1>14. Len(consumed') = Asked' * ReqLen
  <2>1. Len(consumed) = Asked * ReqLen
    BY <1>2 DEF Kept
  <2>2. n * ReqLen = Asked * ReqLen + ReqLen
    BY <1>4, <1>5, <1>6, Multiples
  <2> QED
    BY <1>11, <1>13, <2>1, <2>2
<1>15. Kept'
  <2>1. closed' = FALSE /\ readDataRaw' # Freed /\ executed' = executed
    BY <1>1, <1>2, <1>10, Lengths, EmptySeq DEF Kept, BufferInv
  <2> QED
    BY <1>2, <1>10, <1>12, <1>13, <1>14, <2>1 DEF Kept
<1>16. BufferInv'
  <2>1. n \in 0..MaxReq /\ <<>> \in Seq(Nat) /\ Len(<<>>) = 0
    BY <1>6
  <2> QED
    BY <1>1, <1>9, <1>10, <1>11, <2>1, Lengths DEF BufferInv, inVars
<1> QED
  BY <1>1, <1>15, <1>16 DEF InputInv, Shape, inVars

LEMMA InputReadEOF == InputInv /\ ReadEOF => InputInv'
<1> SUFFICES ASSUME InputInv, ReadEOF PROVE InputInv'
  OBVIOUS
<1> DEFINE text == readDataString \o readDataRaw
<1>1. /\ running /\ stageNow = 1 /\ readDataRaw # Freed /\ net = <<>> /\ fin
      /\ sent % ReqLen = 0 /\ Bursts /\ BufferInv /\ Raw = readDataRaw
      /\ readDataString \in Seq(Nat) /\ readDataRaw \in Seq(Nat)
  BY DEF ReadEOF, Reading, InputInv, BufferInv, Raw
<1>2. /\ readDataString' = text /\ readDataRaw' = Freed
      /\ UNCHANGED <<inVars, running, readDataLen, bytesWritten, consumed, executed, wire>>
      /\ \E v \in Verdicts(text) :
           \/ v[1] = 0 /\ stageNow' = 2 /\ readData' = RequestOf(text) /\ UNCHANGED closed
           \/ v[1] = 1 /\ UNCHANGED <<stageNow, readData, closed>>
           \/ v[1] = -1 /\ stageNow' = 6 /\ closed' = TRUE /\ UNCHANGED readData
  BY DEF ReadEOF
<1>3. text \in Seq(Nat)
  BY <1>1, Reassociate
<1>4. Kept \/ \E n \in 1..MaxReq : Stays(n)
  BY <1>1 DEF InputInv, Shape, Left
<1>5. ASSUME NEW n \in 1..MaxReq, Begins(n, text),
             Len(executed) >= n - 1, ~closed,
             \A i \in DOMAIN executed : executed[i] = IF i < n THEN i ELSE n
      PROVE  InputInv'
  <2>1. n \in Nat \ {0}
    BY Lengths
  <2>2. Verdicts(text) = {<<0, ReqLen>>} /\ RequestOf(text) = n
    <3> HIDE DEF text
    <3> QED
      BY <1>3, <1>5, <2>1, Recognized, BeginsRequest
  <2>3. stageNow' = 2 /\ readData' = n /\ closed' = closed
    BY <1>2, <2>2
  <2>4. Stays(n)'
    <3>1. Begins(n, readDataString')
      BY <1>2, <1>5
    <3> QED
      BY <1>1, <1>2, <1>5, <2>3, <3>1 DEF Stays, Begins, inVars
  <2>5. BufferInv'
    <3>1. n \in 0..MaxReq
      BY <2>1
    <3> QED
      BY <1>1, <1>2, <1>3, <2>3, <3>1 DEF BufferInv, inVars
  <2> QED
    BY <1>1, <1>2, <2>4, <2>5 DEF InputInv, Shape, inVars
<1>6. ASSUME Kept, text = <<>> PROVE InputInv'
  <2>1. stageNow' = 6 /\ closed' = TRUE /\ readData' = readData
    BY <1>2, <1>6, NothingRead
  <2>2. Left'
    BY <1>1, <1>2, <1>6, <2>1 DEF Left, Kept, inVars
  <2>3. BufferInv'
    BY <1>1, <1>2, <1>3, <2>1 DEF BufferInv, inVars
  <2> QED
    BY <1>1, <1>2, <2>2, <2>3 DEF InputInv, Shape, inVars
<1>7. ASSUME Kept, text # <<>> PROVE InputInv'
  <2>1. PICK n \in 1..MaxReq : n = Asked + 1 /\ Begins(n, text)
    BY <1>1, <1>7, WholeRequest
  <2>2. Asked = Len(executed) /\ Len(executed) \in Nat /\ DOMAIN executed = 1..Len(executed)
    BY <1>1 DEF Asked, BufferInv
  <2>3. \A i \in DOMAIN executed : executed[i] = i /\ i < n
    BY <1>7, <2>1, <2>2 DEF Kept
  <2>4. Len(executed) >= n - 1 /\ ~closed
    BY <1>7, <2>1, <2>2 DEF Kept
  <2> QED
    BY <1>5, <2>1, <2>3, <2>4
<1>8. ASSUME NEW n \in 1..MaxReq, Stays(n) PROVE InputInv'
  <2>1. n \in Nat /\ Begins(n, readDataString)
    BY <1>8, Lengths DEF Stays
  <2>2. Begins(n, text)
    BY <1>1, <2>1, BeginsKept
  <2> QED
    BY <1>5, <1>8, <2>2 DEF Stays
<1> QED
  BY <1>4, <1>6, <1>7, <1>8

LEMMA InputAdvance == InputInv /\ Advance => InputInv'
<1> SUFFICES ASSUME InputInv, Advance PROVE InputInv'
  OBVIOUS
<1>1. /\ stageNow \in 2..4 /\ stageNow' = stageNow + 1 /\ BufferInv /\ Bursts
      /\ UNCHANGED <<inVars, running, readDataLen, readDataRaw, readDataString, readData,
                     bytesWritten, closed, consumed>>
  BY DEF Advance, InputInv
<1>2. Kept \/ \E n \in 1..MaxReq : Stays(n)
  BY <1>1 DEF InputInv, Shape, Left
<1>3. CASE stageNow # 3
  <2>1. executed' = executed /\ Asked' = Asked
    BY <1>1, <1>3 DEF Advance, Asked
  <2>2. BufferInv'
    BY <1>1, <2>1 DEF BufferInv, inVars
  <2>3. Shape'
    BY <1>1, <1>2, <2>1, ShapeCarried DEF inVars, BufferInv, Shape, Stays, Kept
  <2> QED
    BY <1>1, <2>2, <2>3 DEF InputInv, inVars
<1>4. CASE stageNow = 3
  <2> DEFINE l == Len(executed)
  <2>1. executed \in Seq(1..MaxReq) /\ l \in Nat /\ DOMAIN executed = 1..l
    BY <1>1 DEF BufferInv
  <2>2. stageNow' = 4 /\ executed' = Append(executed, readData)
    BY <1>1, <1>4 DEF Advance
  <2>3. Asked = l + 1
    BY <1>4 DEF Asked
  <2>4. readData \in 1..MaxReq
    <3>1. readData \in 0..MaxReq
      BY <1>1 DEF BufferInv
    <3>2. ASSUME Kept PROVE readData # 0
      BY <2>1, <2>3, <3>2 DEF Kept
    <3>3. ASSUME NEW n \in 1..MaxReq, Stays(n) PROVE readData # 0
      BY <3>3, Lengths DEF Stays
    <3> QED
      BY <1>2, <3>1, <3>2, <3>3, Lengths
  <2>5. /\ executed' \in Seq(1..MaxReq) /\ Len(executed') = l + 1
        /\ DOMAIN executed' = 1..(l + 1)
        /\ \A i \in 1..l : executed'[i] = executed[i]
        /\ executed'[l + 1] = readData
    BY <2>1, <2>2, <2>4
  <2> HIDE DEF l
  <2>6. \A i \in 1..(l + 1) : i \in 1..l \/ i = l + 1
    BY <2>1
  <2>7. BufferInv'
    BY <1>1, <2>2, <2>5 DEF BufferInv, inVars
  <2>8. ASSUME Kept PROVE Kept'
    <3>1. Asked' = Asked
      BY <2>2, <2>3, <2>5 DEF Asked
    <3>2. \A i \in 1..(l + 1) : executed'[i] = i
      <4>1. readData = l + 1 /\ \A i \in 1..l : executed[i] = i
        BY <2>1, <2>3, <2>8 DEF Kept
      <4> QED
        BY <2>5, <2>6, <4>1
    <3> QED
      BY <1>1, <2>5, <2>8, <3>1, <3>2 DEF Kept, Raw, inVars
  <2>9. ASSUME NEW n \in 1..MaxReq, Stays(n) PROVE Stays(n)'
    <3>1. n \in Nat /\ readData = n /\ l >= n - 1 /\ \A i \in 1..l : executed[i] = IF i < n THEN i ELSE n
      BY <2>1, <2>9, Lengths DEF Stays, l
    <3>2. l + 1 >= n /\ l + 1 >= n - 1
      BY <2>1, <3>1
    <3>3. executed'[l + 1] = IF l + 1 < n THEN l + 1 ELSE n
      BY <2>1, <2>5, <3>1, <3>2
    <3>4. \A i \in 1..(l + 1) : executed'[i] = IF i < n THEN i ELSE n
      BY <2>5, <2>6, <3>1, <3>3
    <3> QED
      BY <1>1, <2>5, <2>9, <3>2, <3>4 DEF Stays, Begins, inVars
  <2> QED
    BY <1>1, <1>2, <2>7, <2>8, <2>9 DEF InputInv, Shape, inVars
<1> QED
  BY <1>3, <1>4

LEMMA InputWriteOnce ==
    ASSUME InputInv, NEW n \in (-1)..RespLen, WriteOnce(n)
    PROVE  InputInv'
<1>1. /\ stageNow = 5 /\ stageNow' \in {5, 6} /\ BufferInv /\ Bursts
      /\ UNCHANGED <<inVars, running, readDataLen, readDataRaw, readDataString, readData, closed,
                     consumed, executed>>
      /\ bytesWritten' = (bytesWritten + n) % SizeT
  BY DEF WriteOnce, Written, AddWritten, InputInv
<1>2. Asked' = Asked
  BY <1>1 DEF Asked
<1>3. bytesWritten' \in 0..(SizeT - 1)
  <2>1. bytesWritten \in Int /\ n \in Int
    BY <1>1, Lengths DEF BufferInv
  <2> QED
    BY <1>1, <2>1, Lengths
<1>4. BufferInv'
  BY <1>1, <1>3 DEF BufferInv, inVars
<1>5. Shape'
  <2>1. ~closed
    BY <1>1 DEF InputInv, Shape, Kept, Stays, Left
  <2> QED
    BY <1>1, <1>2, <2>1, ShapeCarried DEF inVars, BufferInv
<1> QED
  BY <1>1, <1>4, <1>5 DEF InputInv, inVars

LEMMA InputFinished == InputInv /\ Finished => InputInv'
<1> SUFFICES ASSUME InputInv, Finished PROVE InputInv'
  OBVIOUS
<1>1. /\ BufferInv /\ Bursts /\ running' = FALSE
      /\ UNCHANGED <<inVars, stageNow, readDataLen, readDataRaw, readDataString, readData,
                     bytesWritten, closed, consumed, executed>>
  BY DEF Finished, InputInv
<1>2. Asked' = Asked
  BY <1>1 DEF Asked
<1>3. BufferInv'
  BY <1>1 DEF BufferInv, inVars
<1>4. Shape'
  BY <1>1, <1>2, ShapeCarried DEF inVars, BufferInv
<1> QED
  BY <1>1, <1>3, <1>4 DEF InputInv, inVars

LEMMA InputStep == InputInv /\ [Next]_vars => InputInv'
<1> SUFFICES ASSUME InputInv, [Next]_vars PROVE InputInv'
  OBVIOUS
<1>1. ASSUME NEW n \in 1..(MaxReq * ReqLen), Arrive(n) PROVE InputInv'
  BY <1>1, InputArrive
<1>2. ASSUME NEW n \in 1..BufferLen, ReadSome(n) PROVE InputInv'
  BY <1>2, InputReadSome
<1>3. ASSUME NEW n \in (-1)..RespLen, WriteOnce(n) PROVE InputInv'
  BY <1>3, InputWriteOnce
<1>4. CASE Finish \/ Report \/ ReadAgain \/ ReadEOF \/ Advance \/ Finished
  BY <1>4, InputFinish, InputReport, InputReadAgain, InputReadEOF, InputAdvance, InputFinished
<1>5. CASE UNCHANGED vars
  BY <1>5 DEF vars, inVars, InputInv, BufferInv, Shape, Kept, Raw, Asked, Stays, Begins, Left
<1> QED
  BY <1>1, <1>2, <1>3, <1>4, <1>5 DEF Next, Server

\* What the parser is given is the client's.
LEMMA InputInductive == Bursts /\ Spec => []InputInv
<1>1. Bursts /\ Init => InputInv
  BY InputInit
<1> QED
  BY <1>1, InputStep, PTL DEF Spec

-----------------------------------------------------------------------------
(* The buffer, however the bytes arrive and whatever checkData says.          *)

RoomInv ==
    /\ sent \in Nat /\ net \in Seq(Nat)
    /\ readDataLen \in Nat /\ readDataLen <= BufferLen \div 2
    /\ readDataRaw = Freed \/ (readDataRaw \in Seq(Nat) /\ Len(readDataRaw) = readDataLen)
    /\ running /\ stageNow = 1 => readDataRaw # Freed \/ fin

LEMMA RoomCarried ==
    ASSUME RoomInv, sent' = sent, net' = net, readDataLen' = readDataLen,
           readDataRaw' = readDataRaw, fin => fin',
           running' /\ stageNow' = 1 => running /\ stageNow = 1
    PROVE  RoomInv'
BY DEF RoomInv

LEMMA RoomReadSome ==
    ASSUME RoomInv, NEW n \in 1..BufferLen, ReadSome(n)
    PROVE  RoomInv'
<1> DEFINE raw == readDataRaw \o SubSeq(net, 1, n)
<1>1. /\ running /\ stageNow = 1 /\ readDataRaw \in Seq(Nat) /\ net \in Seq(Nat)
      /\ n \in 0..Len(net) /\ n \in Nat
  BY Lengths DEF ReadSome, Reading, RoomInv
<1>2. SubSeq(net, 1, n) \in Seq(Nat)
  BY <1>1, Cut
<1>3. raw \in Seq(Nat) /\ Len(raw) \in Nat
  BY <1>1, <1>2, ConcatProperties
<1>4. net' \in Seq(Nat) /\ sent' = sent /\ fin' = fin
  BY <1>1, Cut DEF ReadSome
<1> HIDE DEF raw
<1>5. \/ ~(Len(raw) <= BufferLen \div 2) /\ readDataRaw' = <<>> /\ readDataLen' = 0
      \/ Len(raw) <= BufferLen \div 2 /\ readDataRaw' = raw /\ readDataLen' = Len(raw)
  BY <1>3, Lengths DEF ReadSome, HalfFull, raw
<1>6. /\ readDataRaw' \in Seq(Nat) /\ Len(readDataRaw') = readDataLen'
      /\ readDataLen' \in Nat /\ readDataLen' <= BufferLen \div 2
  <2>1. <<>> \in Seq(Nat) /\ Len(<<>>) = 0 /\ 0 \in Nat /\ 0 <= BufferLen \div 2
    BY Lengths
  <2>2. CASE readDataRaw' = <<>> /\ readDataLen' = 0
    BY <2>1, <2>2
  <2>3. CASE Len(raw) <= BufferLen \div 2 /\ readDataRaw' = raw /\ readDataLen' = Len(raw)
    BY <1>3, <2>3
  <2> QED
    BY <1>5, <2>2, <2>3
<1> QED
  BY <1>4, <1>6, Lengths DEF RoomInv

LEMMA RoomStep == RoomInv /\ [Next]_vars => RoomInv'
<1> SUFFICES ASSUME RoomInv, [Next]_vars PROVE RoomInv'
  OBVIOUS
<1>1. ASSUME NEW n \in 1..(MaxReq * ReqLen), Arrive(n) PROVE RoomInv'
  <2>1. n \in Nat /\ sent \in Nat /\ sent + n \in Nat
    BY Lengths DEF RoomInv
  <2>2. Positions(sent + 1, sent + n) \in Seq(Nat)
    BY <2>1, PositionsAre
  <2>3. net' \in Seq(Nat)
    BY <1>1, <2>2, ConcatProperties DEF Arrive, RoomInv
  <2> QED
    BY <1>1, <2>1, <2>3 DEF Arrive, RoomInv
<1>2. CASE Report
  <2>1. [i \in 1..readDataLen |-> 0] \in Seq(Nat)
        /\ Len([i \in 1..readDataLen |-> 0]) = readDataLen
    BY DEF RoomInv
  <2>2. readDataRaw' \in Seq(Nat) /\ Len(readDataRaw') = readDataLen
    BY <1>2, <2>1 DEF Report, RoomInv
  <2> QED
    BY <1>2, <2>2, Lengths DEF Report, RoomInv
<1>3. ASSUME NEW n \in 1..BufferLen, ReadSome(n) PROVE RoomInv'
  BY <1>3, RoomReadSome
<1>4. CASE ReadAgain
  <2>1. running /\ stageNow = 1 /\ sent' = sent /\ net' = net /\ fin' = fin
    BY <1>4 DEF ReadAgain, Reading, inVars
  <2>2. \/ readDataRaw' = <<>> /\ readDataLen' = 0 /\ stageNow' = 2
        \/ readDataRaw' = readDataRaw /\ readDataLen' = readDataLen
    BY <1>4 DEF ReadAgain, Complete
  <2>3. CASE readDataRaw' = <<>> /\ readDataLen' = 0 /\ stageNow' = 2
    BY <2>1, <2>3, Lengths DEF RoomInv
  <2>4. CASE readDataRaw' = readDataRaw /\ readDataLen' = readDataLen
    BY <2>1, <2>4, RoomCarried
  <2> QED
    BY <2>2, <2>3, <2>4
<1>5. CASE ReadEOF
  BY <1>5 DEF ReadEOF, inVars, RoomInv
<1>6. CASE Finish \/ Advance \/ Finished \/ UNCHANGED vars
  <2>1. \A i \in 2..4 : i + 1 # 1
    OBVIOUS
  <2> QED
    BY <1>6, <2>1, RoomCarried
    DEF Finish, Advance, Finished, vars, inVars
<1>7. ASSUME NEW n \in (-1)..RespLen, WriteOnce(n) PROVE RoomInv'
  <2>1. stageNow' # 1
    BY <1>7 DEF WriteOnce, Written
  <2> QED
    BY <1>7, <2>1, RoomCarried DEF WriteOnce, inVars
<1> QED
  BY <1>1, <1>2, <1>3, <1>4, <1>5, <1>6, <1>7 DEF Next, Server

\* For buffers and requests of any length, however the bytes arrive, whatever
\* checkData says of them and whenever the client closes: read() is given room,
\* and up to the client's end a buffer.  What follows a close in mid-request is
\* left to BufferThere.
THEOREM BufferHasRoom == Spec => []RoomToRead
<1>1. Init => RoomInv
  BY Lengths DEF Init, RoomInv
<1>2. RoomInv => RoomToRead
  BY Lengths DEF RoomInv, RoomToRead, Room
<1> QED
  BY <1>1, <1>2, RoomStep, PTL DEF Spec

-----------------------------------------------------------------------------
(* The output, step by step.                                                  *)

LEMMA OutputInit == ~Backpressure /\ Init => OutputInv
<1> SUFFICES ASSUME ~Backpressure, Init PROVE OutputInv
  OBVIOUS
<1>1. 0 \in 0..RespLen /\ 0 * RespLen = 0
  BY Lengths
<1>2. Done = 0 /\ wire = <<>> /\ Len(wire) = 0 /\ wire \in Seq((1..MaxReq) \X (1..RespLen))
  BY <1>1 DEF Init, Done
<1> QED
  BY <1>1, <1>2 DEF Init, OutputInv, WireExact

\* A step that writes nothing.
LEMMA OutputCarried ==
    ASSUME OutputInv, wire' = wire, bytesWritten' \in 0..RespLen,
           stageNow' \in 1..4 => bytesWritten' = 0,
           stageNow' = 5 => bytesWritten' < RespLen,
           stageNow' = 6 /\ ~closed' => bytesWritten' = RespLen,
           ~fin' => ~fin /\ ~closed' /\ Done' = Done,
           ~fin' /\ stageNow' \in 4..6 => Len(executed') >= 1
    PROVE  OutputInv'
BY DEF OutputInv, WireExact

LEMMA OutputAdvance == InputInv /\ OutputInv /\ Advance => OutputInv'
<1> SUFFICES ASSUME InputInv, OutputInv, Advance PROVE OutputInv'
  OBVIOUS
<1>1. /\ stageNow \in 2..4 /\ stageNow' = stageNow + 1 /\ bytesWritten = 0 /\ bytesWritten' = 0
      /\ wire' = wire /\ fin' = fin /\ closed' = closed
      /\ executed' = IF stageNow = 3 THEN Append(executed, readData) ELSE executed
  BY DEF Advance, OutputInv, inVars
<1>2. /\ Len(executed) \in Nat
      /\ Len(executed') = IF stageNow = 3 THEN Len(executed) + 1 ELSE Len(executed)
  BY <1>1 DEF InputInv, BufferInv
<1>3. 0 \in 0..RespLen /\ 0 < RespLen /\ RespLen \in Nat
  BY Lengths
<1>4. Done' = Done
  <2>1. CASE stageNow = 3
    <3>1. Done' = (Len(executed) + 1 - 1) * RespLen + 0 /\ Done = Len(executed) * RespLen
      BY <1>1, <1>2, <2>1 DEF Done
    <3>2. Len(executed) + 1 - 1 = Len(executed) /\ Len(executed) * RespLen \in Nat
      BY <1>2, Lengths, Multiples
    <3> QED
      BY <3>1, <3>2
  <2>2. CASE stageNow # 3
    BY <1>1, <1>2, <2>2 DEF Done
  <2> QED
    BY <2>1, <2>2
<1>5. ~fin' => ~fin /\ ~closed'
  BY <1>1 DEF OutputInv
<1>6. ~fin' /\ stageNow' \in 4..6 => Len(executed') >= 1
  BY <1>1, <1>2 DEF OutputInv
<1> QED
  BY <1>1, <1>3, <1>4, <1>5, <1>6, OutputCarried

\* Where byte k of response e belongs.
LEMMA PlaceOf ==
    ASSUME NEW r \in Nat \ {0}, NEW e \in Nat \ {0}, NEW k \in 1..r
    PROVE  LET i == (e - 1) * r + k IN ((i - 1) \div r) + 1 = e /\ ((i - 1) % r) + 1 = k
<1>1. PICK q \in Nat, m \in Nat : q = e - 1 /\ m = k - 1 /\ m < r
  OBVIOUS
<1>2. PICK a \in Nat : a = q * r
  BY Multiples
<1>3. (e - 1) * r + k - 1 = q * r + m
  BY <1>1, <1>2
<1>4. (q * r + m) \div r = q /\ (q * r + m) % r = m
  BY <1>1, Quotient
<1> QED
  BY <1>1, <1>3, <1>4

LEMMA OutputWriteOnce ==
    ASSUME InputInv, OutputInv, NEW n \in (-1)..RespLen, WriteOnce(n)
    PROVE  OutputInv'
<1> DEFINE l == Len(wire)
           e == Len(executed)
           r == RespLen
           b == bytesWritten
           T == (1..MaxReq) \X (1..RespLen)
<1>1. /\ stageNow = 5 /\ n \in Nat \ {0} /\ n <= r - b
      /\ b \in Nat /\ b < r /\ r \in Nat \ {0} /\ r < SizeT /\ SizeT \in Nat \ {0} /\ e \in Nat
      /\ bytesWritten' = (b + n) % SizeT
      /\ stageNow' = IF (b + n) % SizeT < r THEN 5 ELSE 6
      /\ fin' = fin /\ closed' = closed /\ executed' = executed
      /\ wire' = IF fin THEN wire ELSE wire \o [i \in 1..n |-> <<readData, b + i>>]
  BY Lengths DEF WriteOnce, Written, AddWritten, OutputInv, inVars, InputInv, BufferInv
<1>2. bytesWritten' = b + n /\ b + n \in 0..r
  <2>1. (b + n) % SizeT = b + n
    BY <1>1
  <2> QED
    BY <1>1, <2>1
<1>3. CASE fin
  <2>1. /\ stageNow' = IF b + n < r THEN 5 ELSE 6
        /\ ~(b + n < r) => b + n = r
    BY <1>1, <1>2
  <2> QED
    BY <1>1, <1>2, <1>3, <2>1, OutputCarried
<1>4. CASE ~fin
  <2> DEFINE new == [i \in 1..n |-> <<readData, b + i>>]
  <2>1. /\ ~closed /\ e >= 1 /\ l = (e - 1) * r + b
    BY <1>1, <1>4 DEF OutputInv, Done
  <2>2. readData = e /\ e \in 1..MaxReq
    <3>1. Kept
      BY <1>4 DEF InputInv, Shape, Stays, Left
    <3>2. readData = e
      BY <1>1, <3>1 DEF Kept, Asked
    <3>3. readData \in 0..MaxReq
      BY DEF InputInv, BufferInv
    <3> QED
      BY <1>1, <2>1, <3>2, <3>3, Lengths
  <2>3. /\ new \in Seq(T) /\ Len(new) = n
        /\ \A i \in 1..n : new[i] = <<e, b + i>>
    <3>1. \A i \in 1..n : b + i \in 1..RespLen
      BY <1>1
    <3> QED
      BY <1>1, <2>2, <3>1
  <2>4. wire \in Seq(T) /\ wire' = wire \o new /\ l \in Nat
    BY <1>1, <1>4 DEF OutputInv
  <2> HIDE DEF new, T
  <2>5. /\ wire' \in Seq(T) /\ Len(wire') = l + n
        /\ \A i \in 1..(l + n) : wire'[i] = IF i <= l THEN wire[i] ELSE new[i - l]
    BY <2>3, <2>4, ConcatProperties
  <2>6. ASSUME NEW i \in 1..(l + n)
        PROVE  wire'[i] = <<((i - 1) \div r) + 1, ((i - 1) % r) + 1>>
    <3>1. CASE i <= l
      <4>1. i \in DOMAIN wire
        BY <2>4, <3>1
      <4> QED
        BY <2>5, <3>1, <4>1 DEF OutputInv, WireExact
    <3>2. CASE ~(i <= l)
      <4>1. PICK j \in 1..n : j = i - l
        <5>1. l \in Nat /\ n \in Nat
          BY <1>1, <2>4
        <5> HIDE DEF l
        <5>2. i - l \in 1..n
          BY <3>2, <5>1
        <5> QED
          BY <5>2
      <4>2. wire'[i] = <<e, b + j>>
        BY <2>3, <2>5, <3>2, <4>1
      <4>3. b + j \in 1..r /\ e \in Nat \ {0} /\ r \in Nat \ {0}
        BY <1>1, <2>1, <4>1
      <4>4. i = (e - 1) * r + (b + j)
        <5>1. PICK a \in Nat : a = (e - 1) * r
          BY <1>1, <2>1, e - 1 \in Nat, Multiples
        <5>2. l = a + b /\ i \in Int /\ j = i - l /\ b \in Nat
          BY <1>1, <2>1, <2>4, <4>1, <5>1
        <5> HIDE DEF l, e, r, b
        <5> QED
          BY <5>1, <5>2
      <4> HIDE DEF l, e, r, b
      <4> QED
        BY <4>2, <4>3, <4>4, PlaceOf
    <3> QED
      BY <3>1, <3>2
  <2>7. WireExact'
    <3>1. DOMAIN wire' = 1..(l + n)
      BY <2>5
    <3> QED
      BY <2>6, <3>1 DEF WireExact
  <2>8. Len(wire') = Done'
    <3>1. Done' = (e - 1) * r + (b + n)
      BY <1>1, <1>2 DEF Done
    <3>2. (e - 1) * r \in Nat
      BY <1>1, <2>1, e - 1 \in Nat, Multiples
    <3> QED
      BY <1>1, <2>1, <2>5, <3>1, <3>2
  <2>9. /\ stageNow' = IF b + n < r THEN 5 ELSE 6
        /\ ~(b + n < r) => b + n = r
    BY <1>1, <1>2
  <2> QED
    BY <1>1, <1>2, <2>1, <2>5, <2>7, <2>8, <2>9 DEF OutputInv, T
<1> QED
  BY <1>3, <1>4

LEMMA OutputStep == InputInv /\ OutputInv /\ [Next]_vars => OutputInv'
<1> SUFFICES ASSUME InputInv, OutputInv, [Next]_vars PROVE OutputInv'
  OBVIOUS
<1>1. ASSUME NEW n \in 1..(MaxReq * ReqLen), Arrive(n) PROVE OutputInv'
  <2>1. Done' = Done
    BY <1>1 DEF Arrive, Done
  <2> QED
    BY <1>1, <2>1, OutputCarried DEF Arrive, OutputInv
<1>2. CASE Finish
  BY <1>2, OutputCarried DEF Finish, OutputInv
<1>3. CASE Report
  <2>1. 0 \in 0..RespLen /\ 0 < RespLen /\ Len(executed) \in Nat /\ RespLen \in Nat
    BY Lengths DEF InputInv, BufferInv
  <2>2. Done' = Done
    <3>1. CASE stageNow = 6
      <4>1. Done = (Len(executed) - 1) * RespLen + RespLen /\ Done' = Len(executed) * RespLen
        BY <1>3, <3>1 DEF Report, Done, OutputInv
      <4>2. CASE Len(executed) = 0
        BY <2>1, <4>1, <4>2
      <4>3. CASE Len(executed) # 0
        <5>1. PICK p \in Nat : p = Len(executed) - 1 /\ p + 1 = Len(executed)
          BY <2>1, <4>3
        <5> QED
          BY <4>1, <5>1, Lengths, Multiples
      <4> QED
        BY <4>2, <4>3
    <3>2. CASE stageNow # 6
      BY <1>3, <3>2 DEF Report, Done
    <3> QED
      BY <3>1, <3>2
  <2> QED
    BY <1>3, <2>1, <2>2, OutputCarried DEF Report, OutputInv
<1>4. ASSUME NEW n \in 1..BufferLen, ReadSome(n) PROVE OutputInv'
  <2>1. Done' = Done
    BY <1>4 DEF ReadSome, Done
  <2> QED
    BY <1>4, <2>1, OutputCarried DEF ReadSome, OutputInv
<1>5. CASE ReadAgain
  <2>1. InputInv'
    BY <1>5, InputReadAgain
  <2>2. /\ stageNow = 1 /\ bytesWritten' = bytesWritten /\ wire' = wire /\ executed' = executed
        /\ ~fin /\ fin' = fin
    BY <1>5 DEF ReadAgain, Reading, inVars
  <2>3. ~closed' /\ stageNow' \in 1..2
    <3>1. ~closed'
      BY <2>1, <2>2 DEF InputInv, Shape, Kept, Stays, Left
    <3> QED
      BY <1>5, <2>2, <3>1 DEF ReadAgain, Complete
  <2>4. Done' = Done
    BY <2>2, <2>3 DEF Done
  <2> QED
    BY <2>2, <2>3, <2>4, OutputCarried DEF OutputInv
<1>6. CASE ReadEOF
  <2>1. /\ stageNow = 1 /\ bytesWritten' = bytesWritten /\ wire' = wire /\ executed' = executed
        /\ fin /\ fin' = fin
        /\ stageNow' \in 1..2 \/ (stageNow' = 6 /\ closed')
    BY <1>6 DEF ReadEOF, Reading, inVars
  <2> QED
    BY <2>1, OutputCarried DEF OutputInv
<1>7. CASE Advance
  BY <1>7, OutputAdvance
<1>8. ASSUME NEW n \in (-1)..RespLen, WriteOnce(n) PROVE OutputInv'
  BY <1>8, OutputWriteOnce
<1>9. CASE Finished \/ UNCHANGED vars
  <2>1. UNCHANGED <<wire, bytesWritten, stageNow, closed, fin, executed>>
    BY <1>9 DEF Finished, vars, inVars
  <2>2. Done' = Done
    BY <2>1 DEF Done
  <2> QED
    BY <2>1, <2>2, OutputCarried DEF OutputInv
<1> QED
  BY <1>1, <1>2, <1>3, <1>4, <1>5, <1>6, <1>7, <1>8, <1>9 DEF Next, Server

\* What the client is sent is the responses.
LEMMA OutputInductive == Bursts /\ ~Backpressure /\ Spec => []OutputInv
<1>1. Bursts /\ ~Backpressure /\ Init => InputInv /\ OutputInv
  BY InputInit, OutputInit
<1>2. InputInv /\ OutputInv /\ [Next]_vars => (InputInv /\ OutputInv)'
  BY InputStep, OutputStep
<1> QED
  BY <1>1, <1>2, PTL DEF Spec

-----------------------------------------------------------------------------
(* The theorems.                                                              *)

\* For buffers and requests of any length, with requests that come in bursts:
\* what was cut from the text, the text, the buffer and the kernel's queue are
\* together exactly what the client sent.
THEOREM InputExact == Bursts /\ Spec => []InputKept
<1>1. InputInv => InputKept
  BY DEF InputInv, Shape, Kept, Stays, Left, Raw, InputKept
<1> QED
  BY <1>1, InputInductive, PTL

\* Requests are executed in order, and twice only after the client has closed.
THEOREM ExecutedAsSent == Bursts /\ Spec => []ExecutedInOrder
<1>1. InputInv => ExecutedInOrder
  <2> SUFFICES ASSUME InputInv PROVE ExecutedInOrder
    OBVIOUS
  <2>1. CASE Kept \/ Left
    BY <2>1 DEF Kept, Left, ExecutedInOrder
  <2>2. ASSUME NEW n \in 1..MaxReq, Stays(n) PROVE ExecutedInOrder
    <3>1. /\ fin /\ n \in Nat \ {0} /\ DOMAIN executed = 1..Len(executed) /\ Len(executed) \in Nat
          /\ \A i \in DOMAIN executed : executed[i] = IF i < n THEN i ELSE n
      BY <2>2, Lengths DEF Stays, InputInv, BufferInv
    <3>2. ASSUME NEW i \in DOMAIN executed
          PROVE  executed[i] = i \/ (i > 1 /\ executed[i] = executed[i - 1])
      <4>1. CASE i <= n
        BY <3>1, <4>1
      <4>2. CASE i > n
        <5>1. i - 1 \in DOMAIN executed /\ ~(i - 1 < n) /\ ~(i < n) /\ i > 1
          BY <3>1, <4>2
        <5> QED
          BY <3>1, <5>1
      <4> QED
        BY <3>1, <4>1, <4>2
    <3> QED
      BY <3>1, <3>2 DEF ExecutedInOrder
  <2> QED
    BY <2>1, <2>2 DEF InputInv, Shape
<1> QED
  BY <1>1, InputInductive, PTL

\* For responses of any length written in any pieces, as long as write() does not
\* fail: the client receives them byte for byte, one after the other.
THEOREM OutputExact == Bursts /\ ~Backpressure /\ Spec => []WireExact
<1>1. OutputInv => WireExact
  BY DEF OutputInv
<1> QED
  BY <1>1, OutputInductive, PTL

\* bytesWritten is what was written of the last response, for any width of size_t
\* that holds a response's length.
THEOREM WritesCounted == Bursts /\ ~Backpressure /\ Spec => []WrittenCounted
<1>1. OutputInv => WrittenCounted
  BY DEF OutputInv, WrittenCounted, Done
<1> QED
  BY <1>1, OutputInductive, PTL

\* Every variable has its type, and no buffer or counter leaves its range.
THEOREM TypeCorrect == Bursts /\ ~Backpressure /\ Spec => []TypeOK
<1>1. InputInv /\ OutputInv => TypeOK
  <2> SUFFICES ASSUME InputInv, OutputInv PROVE TypeOK
    OBVIOUS
  <2>1. readDataLen \in 0..BufferLen
    BY Lengths DEF InputInv, BufferInv
  <2> QED
    BY <2>1 DEF InputInv, BufferInv, OutputInv, TypeOK
<1> QED
  BY <1>1, InputInductive, OutputInductive, PTL
=============================================================================
