------------------------- MODULE ConsoleBridge_proofs -------------------------
(* Theorems about ConsoleBridge for a ring, a buffer, a window and any     *)
(* number of bytes and keys.                                               *)
EXTENDS ConsoleBridge, SequenceTheorems, TLAPS

-----------------------------------------------------------------------------
(* The oldest bytes of a sequence and the rest.                            *)

LEMMA LeastOf ==
  ASSUME NEW a \in Nat, NEW b \in Nat
  PROVE  /\ Least(a, b) \in Nat
         /\ Least(a, b) <= a /\ Least(a, b) <= b
         /\ Least(a, b) < a => Least(a, b) = b
BY DEF Least

LEMMA FirstOf ==
  ASSUME NEW S, NEW q \in Seq(S), NEW n \in 0 .. Len(q)
  PROVE  /\ First(n, q) \in Seq(S)
         /\ Len(First(n, q)) = n
         /\ \A i \in 1 .. n : First(n, q)[i] = q[i]
<1>1. /\ Len(q) \in Nat /\ n \in Nat
      /\ \A i \in 1 .. n : q[i] \in S
  BY LenProperties, ElementOfSeq
<1>2. /\ SubSeq(q, 1, n) \in Seq(S)
      /\ Len(SubSeq(q, 1, n)) = IF 1 <= n THEN n - 1 + 1 ELSE 0
      /\ \A i \in 1 .. n - 1 + 1 : SubSeq(q, 1, n)[i] = q[1 + i - 1]
  BY <1>1, SubSeqProperties
<1>3. \A i \in 1 .. n : i \in 1 .. n - 1 + 1 /\ 1 + i - 1 = i
  BY <1>1
<1> QED BY <1>1, <1>2, <1>3 DEF First

LEMMA WithoutOf ==
  ASSUME NEW S, NEW q \in Seq(S), NEW n \in 0 .. Len(q)
  PROVE  /\ Without(n, q) \in Seq(S)
         /\ Len(Without(n, q)) = Len(q) - n
         /\ \A i \in 1 .. Len(q) - n : Without(n, q)[i] = q[n + i]
<1>1. /\ Len(q) \in Nat /\ n \in Nat
      /\ \A i \in n + 1 .. Len(q) : q[i] \in S
  BY LenProperties, ElementOfSeq
<1> DEFINE m == n + 1
           l == Len(q)
<1>2. m \in Int /\ l \in Int /\ \A i \in m .. l : q[i] \in S
  BY <1>1
<1>3. /\ SubSeq(q, m, l) \in Seq(S)
      /\ Len(SubSeq(q, m, l)) = IF m <= l THEN l - m + 1 ELSE 0
      /\ \A i \in 1 .. l - m + 1 : SubSeq(q, m, l)[i] = q[m + i - 1]
  <2> HIDE DEF m, l
  <2> QED BY <1>2, SubSeqProperties
<1>4. \A i \in 1 .. l - n : i \in 1 .. l - m + 1 /\ m + i - 1 = n + i
  BY <1>1
<1> QED BY <1>1, <1>3, <1>4 DEF Without

LEMMA Parts ==
  ASSUME NEW S, NEW q \in Seq(S), NEW n \in 0 .. Len(q)
  PROVE  First(n, q) \o Without(n, q) = q
<1>1. /\ 1 \in 1 .. Len(q) + 1
      /\ n \in 1 - 1 .. Len(q)
      /\ Len(q) \in n .. Len(q)
  BY LenProperties
<1>2. SubSeq(q, 1, n) \o SubSeq(q, n + 1, Len(q)) = SubSeq(q, 1, Len(q))
  BY <1>1, ConcatAdjacentSubSeq
<1>3. SubSeq(q, 1, Len(q)) = q
  BY SubSeqFull
<1> QED BY <1>2, <1>3 DEF First, Without

\* Taking from a sequence leaves what follows it alone.
LEMMA PartOfConcat ==
  ASSUME NEW S, NEW q \in Seq(S), NEW r \in Seq(S), NEW n \in 0 .. Len(q)
  PROVE  /\ First(n, q \o r) = First(n, q)
         /\ Without(n, q \o r) = Without(n, q) \o r
<1>1. /\ q \o r \in Seq(S)
      /\ Len(q \o r) = Len(q) + Len(r)
      /\ \A i \in 1 .. Len(q) + Len(r) :
           (q \o r)[i] = IF i <= Len(q) THEN q[i] ELSE r[i - Len(q)]
  BY ConcatProperties
<1>2. Len(q) \in Nat /\ Len(r) \in Nat /\ n \in 0 .. Len(q \o r)
  BY <1>1, LenProperties
<1>3. First(n, q \o r) = First(n, q)
  <2>1. /\ First(n, q) \in Seq(S) /\ Len(First(n, q)) = n
        /\ \A i \in 1 .. n : First(n, q)[i] = q[i]
    BY FirstOf
  <2>2. /\ First(n, q \o r) \in Seq(S) /\ Len(First(n, q \o r)) = n
        /\ \A i \in 1 .. n : First(n, q \o r)[i] = (q \o r)[i]
    BY <1>1, <1>2, FirstOf
  <2>3. \A i \in 1 .. n : First(n, q \o r)[i] = First(n, q)[i]
    BY <1>1, <1>2, <2>1, <2>2
  <2> QED BY <2>1, <2>2, <2>3, SeqEqual
<1>4. Without(n, q \o r) = Without(n, q) \o r
  <2>1. /\ Without(n, q) \in Seq(S) /\ Len(Without(n, q)) = Len(q) - n
        /\ \A i \in 1 .. Len(q) - n : Without(n, q)[i] = q[n + i]
    BY WithoutOf
  <2>2. /\ Without(n, q \o r) \in Seq(S)
        /\ Len(Without(n, q \o r)) = Len(q \o r) - n
        /\ \A i \in 1 .. Len(q \o r) - n : Without(n, q \o r)[i] = (q \o r)[n + i]
    BY <1>1, <1>2, WithoutOf, ZenonT(30)
  <2> DEFINE w == Without(n, q)
  <2>3. /\ w \o r \in Seq(S)
        /\ Len(w \o r) = Len(w) + Len(r)
        /\ \A i \in 1 .. Len(w) + Len(r) :
             (w \o r)[i] = IF i <= Len(w) THEN w[i] ELSE r[i - Len(w)]
    BY <2>1, ConcatProperties
  <2>4. Len(Without(n, q \o r)) = Len(w \o r)
    BY <1>1, <1>2, <2>1, <2>2, <2>3
  <2>5. ASSUME NEW i \in 1 .. Len(Without(n, q \o r))
        PROVE  Without(n, q \o r)[i] = (w \o r)[i]
    <3>1. /\ i \in 1 .. Len(q) + Len(r) - n
          /\ n + i \in 1 .. Len(q) + Len(r)
          /\ Len(w) = Len(q) - n
      BY <1>1, <1>2, <2>1, <2>2
    <3>2. Without(n, q \o r)[i] = IF n + i <= Len(q) THEN q[n + i] ELSE r[n + i - Len(q)]
      BY <1>1, <2>2, <3>1, SMTT(30)
    <3>3. (w \o r)[i] = IF i <= Len(w) THEN w[i] ELSE r[i - Len(w)]
      BY <1>2, <2>3, <3>1
    <3>4. /\ n + i <= Len(q) <=> i <= Len(w)
          /\ n + i - Len(q) = i - Len(w)
          /\ i <= Len(w) => w[i] = q[n + i]
      BY <1>2, <2>1, <3>1
    <3> HIDE DEF w
    <3> QED BY <3>2, <3>3, <3>4
  <2> HIDE DEF w
  <2>6. Without(n, q \o r) = w \o r
    BY <2>2, <2>3, <2>4, <2>5, SeqEqual
  <2> QED BY <2>6 DEF w
<1> QED BY <1>3, <1>4

-----------------------------------------------------------------------------
(* Types.                                                                  *)

LEMMA TypeInit == Init => TypeOK
<1>1. <<>> \in Seq(1 .. MaxHeard) /\ <<>> \in Seq(1 .. MaxTyped) /\ Len(<<>>) = 0
  BY EmptySeq
<1>2. MaxHeard \in Nat /\ MaxTyped \in Nat /\ RingCap \in Nat /\ BufSize \in Nat /\ Window \in Nat
  BY ConsoleAssumption
<1> SUFFICES ASSUME Init PROVE TypeOK
  OBVIOUS
<1>3. /\ Len(ring) <= RingCap /\ Len(pend) <= BufSize /\ Len(keys) <= BufSize
      /\ consumed \in 0 .. Len(delivered)
      /\ limit \in Len(delivered) .. consumed + Window
  BY <1>1, <1>2 DEF Init
<1>4. heard \in 0 .. MaxHeard /\ typed \in 0 .. MaxTyped
  BY <1>2 DEF Init
<1> QED BY <1>1, <1>3, <1>4 DEF Init, TypeOK, Location, Positions

\* The bytes of one ring_write_locked.
LEMMA NewBytes ==
  ASSUME NEW h \in Nat, NEW k \in Nat
  PROVE  /\ [i \in 1 .. k |-> h + i] \in Seq(h + 1 .. h + k)
         /\ Len([i \in 1 .. k |-> h + i]) = k
<1>1. [i \in 1 .. k |-> h + i] \in [1 .. k -> h + 1 .. h + k]
  OBVIOUS
<1> QED BY <1>1

LEMMA RingWritten ==
  ASSUME TypeOK, NEW n \in 1 .. MaxHeard - heard, ring_write_locked(n)
  PROVE  \E k \in 0 .. n :
           LET new == [i \in 1 .. k |-> heard + i]
           IN  /\ new \in Seq(1 .. MaxHeard) /\ Len(new) = k
               /\ ring' = ring \o new
               /\ Len(ring) + k <= RingCap
               /\ k < n => Len(ring) + k = RingCap
<1> DEFINE k == Least(n, RingCap - Len(ring))
           new == [i \in 1 .. k |-> heard + i]
<1>1. /\ Len(ring) \in Nat /\ RingCap - Len(ring) \in Nat
      /\ n \in Nat /\ heard \in Nat /\ MaxHeard \in Nat /\ RingCap \in Nat
  BY ConsoleAssumption, LenProperties DEF TypeOK, Positions
<1>2. k \in Nat /\ k <= n /\ k <= RingCap - Len(ring)
      /\ (k < n => k = RingCap - Len(ring))
  BY <1>1, LeastOf
<1>3. new \in Seq(heard + 1 .. heard + k) /\ Len(new) = k
  <2> HIDE DEF k
  <2> QED BY <1>1, <1>2, NewBytes
<1>4. new \in Seq(1 .. MaxHeard)
  <2>1. heard + 1 .. heard + k \subseteq 1 .. MaxHeard
    BY <1>1, <1>2
  <2> HIDE DEF new, k
  <2> QED BY <1>3, <2>1, SeqMonotonic
<1>5. ring' = ring \o new
  BY DEF ring_write_locked
<1>6. k \in 0 .. n /\ Len(ring) + k <= RingCap /\ (k < n => Len(ring) + k = RingCap)
  BY <1>1, <1>2
<1> HIDE DEF k
<1> QED BY <1>3, <1>4, <1>5, <1>6

LEMMA TypeStep == TypeOK /\ [Next]_vars => TypeOK'
<1> SUFFICES ASSUME TypeOK, [Next]_vars PROVE TypeOK'
  OBVIOUS
<1> USE DEF TypeOK, Positions, Location, Goto, serialVars, sendVars, keyVars, clientVars
<1>a. /\ RingCap \in Nat /\ BufSize \in Nat /\ Window \in Nat
      /\ MaxHeard \in Nat /\ MaxTyped \in Nat
      /\ Len(ring) \in Nat /\ Len(pend) \in Nat /\ Len(delivered) \in Nat
      /\ Len(keys) \in Nat /\ Len(channel) \in Nat /\ Len(socket) \in Nat
  BY ConsoleAssumption, LenProperties
<1>1. CASE Receive
  <2>1. PICK n \in 1 .. MaxHeard - heard : ring_write_locked(n) /\ heard' = heard + n
    BY <1>1 DEF Receive
  <2>2. PICK k \in 0 .. n :
          LET new == [i \in 1 .. k |-> heard + i]
          IN  /\ new \in Seq(1 .. MaxHeard) /\ Len(new) = k
              /\ ring' = ring \o new
              /\ Len(ring) + k <= RingCap
    BY <2>1, RingWritten
  <2>3. ring' \in Seq(1 .. MaxHeard) /\ Len(ring') = Len(ring) + k
    BY <2>2, ConcatProperties
  <2>4. heard' \in 0 .. MaxHeard
    BY <1>a, <2>1
  <2> QED BY <1>1, <2>2, <2>3, <2>4 DEF Receive
<1>2. CASE Type
  <2>1. typed' \in 1 .. MaxTyped
    BY <1>2, <1>a DEF Type
  <2>2. socket' \in Seq(1 .. MaxTyped)
    BY <1>2, <2>1, AppendProperties DEF Type
  <2>3. onType' \in 0 .. MaxHeard \cup {-1}
    BY <1>2 DEF Type
  <2>4. typed' \in 0 .. MaxTyped
    BY <2>1, <1>a
  <2> QED BY <1>2, <2>2, <2>3, <2>4 DEF Type
<1>3. CASE Consume
  BY <1>3, <1>a DEF Consume
<1>4. ASSUME ring_discard
      PROVE  ring' \in Seq(1 .. MaxHeard) /\ Len(ring') <= RingCap
  <2> DEFINE n == Least(BufSize, Len(ring))
  <2>1. n \in 0 .. Len(ring)
    BY <1>a, LeastOf
  <2>2. ring' = Without(n, ring)
    BY <1>4 DEF ring_discard
  <2>3. ring' \in Seq(1 .. MaxHeard) /\ Len(ring') = Len(ring) - n
    <3> HIDE DEF n
    <3> QED BY <2>1, <2>2, WithoutOf
  <2> HIDE DEF n
  <2> QED BY <1>a, <2>1, <2>3
<1>5. CASE flush
  BY <1>5, <1>4 DEF flush
<1>6. CASE worker_rxd
  <2>1. PICK n \in 1 .. Len(socket) : /\ channel' = channel \o First(n, socket)
                                       /\ socket' = Without(n, socket)
    BY <1>6 DEF worker_rxd
  <2>2. n \in 0 .. Len(socket)
    BY <1>a, <2>1
  <2>3. First(n, socket) \in Seq(1 .. MaxTyped) /\ socket' \in Seq(1 .. MaxTyped)
    BY <2>1, <2>2, FirstOf, WithoutOf
  <2>4. channel' \in Seq(1 .. MaxTyped)
    BY <2>1, <2>3, ConcatProperties
  <2>5. limit' \in Len(delivered') .. consumed' + Window
    BY <1>6, <1>a DEF worker_rxd
  <2> QED BY <1>6, <2>3, <2>4, <2>5 DEF worker_rxd
<1>7. CASE worker
  <2>1. limit' \in Len(delivered') .. consumed' + Window
    BY <1>7, <1>a DEF worker
  <2> QED BY <1>7, <2>1 DEF worker
<1>8. CASE channel_read
  <2> DEFINE n == Least(BufSize, Len(channel))
  <2>1. n \in 0 .. Len(channel) /\ n <= BufSize
    BY <1>a, LeastOf
  <2>2. /\ First(n, channel) \in Seq(1 .. MaxTyped)
        /\ Len(First(n, channel)) = n
        /\ Without(n, channel) \in Seq(1 .. MaxTyped)
    <3> HIDE DEF n
    <3> QED BY <2>1, FirstOf, WithoutOf
  <2>3. keys' = First(n, channel) /\ channel' = Without(n, channel)
    BY <1>8 DEF channel_read
  <2>4. /\ keys' \in Seq(1 .. MaxTyped) /\ Len(keys') <= BufSize
        /\ channel' \in Seq(1 .. MaxTyped)
    <3> HIDE DEF n
    <3> QED BY <2>1, <2>2, <2>3
  <2> QED BY <1>8, <2>4 DEF channel_read
<1>9. CASE channel_empty
  BY <1>9 DEF channel_empty
<1>10. CASE device_write
  <2>1. written' \in Seq(1 .. MaxTyped)
    BY <1>10, ConcatProperties DEF device_write
  <2>2. keys' \in Seq(1 .. MaxTyped) /\ Len(keys') <= BufSize
    BY <1>10, <1>a, EmptySeq DEF device_write
  <2>3. onWrite' \in 0 .. MaxHeard \cup {-1}
    BY <1>10 DEF device_write
  <2> QED BY <1>10, <2>1, <2>2, <2>3 DEF device_write
<1>11. CASE discard
  BY <1>11, <1>4 DEF discard
<1>12. ASSUME NEW n \in 0 .. Len(pend), ChannelIdSend(n)
       PROVE  /\ pend' \in Seq(1 .. MaxHeard) /\ Len(pend') <= BufSize
              /\ delivered' \in Seq(1 .. MaxHeard)
              /\ Len(delivered') \in Nat
              /\ Len(delivered) <= Len(delivered')
              /\ Len(delivered') <= limit
              /\ limit' = limit
  <2>1. /\ First(n, pend) \in Seq(1 .. MaxHeard)
        /\ Len(First(n, pend)) = n
        /\ pend' \in Seq(1 .. MaxHeard)
        /\ Len(pend') = Len(pend) - n
    <3>1. pend \in Seq(1 .. MaxHeard) /\ n \in 0 .. Len(pend) /\ Len(pend) <= BufSize
      BY <1>12, <1>a
    <3>2. First(n, pend) \in Seq(1 .. MaxHeard) /\ Len(First(n, pend)) = n
      BY <3>1, FirstOf
    <3>3. pend' \in Seq(1 .. MaxHeard) /\ Len(pend') = Len(pend) - n
      BY <1>12, <3>1, WithoutOf DEF ChannelIdSend
    <3> QED BY <3>2, <3>3
  <2>2. /\ delivered' \in Seq(1 .. MaxHeard)
        /\ Len(delivered') = Len(delivered) + n
    <3>1. delivered' = delivered \o First(n, pend)
      BY <1>12 DEF ChannelIdSend
    <3>2. delivered \in Seq(1 .. MaxHeard)
      OBVIOUS
    <3> QED BY ONLY <2>1, <3>1, <3>2, ConcatProperties
  <2>3. n \in Nat /\ Len(delivered) + n <= limit /\ limit' = limit
    BY <1>12, <1>a DEF ChannelIdSend
  <2>4. Len(pend') <= BufSize
    BY <1>a, <2>1, <2>3
  <2>5. Len(delivered') \in Nat /\ Len(delivered) <= Len(delivered')
    BY <1>a, <2>2, <2>3
  <2> QED BY <2>1, <2>2, <2>3, <2>4, <2>5
<1>13. CASE pending_send
  <2>1. PICK n \in 1 .. Len(pend) : ChannelIdSend(n)
    BY <1>13 DEF pending_send
  <2>2. n \in 0 .. Len(pend)
    BY <1>a, <2>1
  <2>3. /\ pend' \in Seq(1 .. MaxHeard) /\ Len(pend') <= BufSize
        /\ delivered' \in Seq(1 .. MaxHeard)
        /\ Len(delivered') \in Nat
        /\ Len(delivered) <= Len(delivered') /\ Len(delivered') <= limit
        /\ limit' = limit
    BY <1>12, <2>1, <2>2
  <2>4. /\ consumed \in 0 .. Len(delivered')
        /\ limit' \in Len(delivered') .. consumed + Window
    BY <1>a, <2>3
  <2> QED BY <1>13, <2>3, <2>4 DEF pending_send
<1>14. CASE pending_end
  BY <1>14 DEF pending_end
<1>15. CASE take
  <2> DEFINE n == Least(BufSize, Len(ring))
  <2>1. n \in 0 .. Len(ring) /\ n <= BufSize
    BY <1>a, LeastOf
  <2>2. /\ First(n, ring) \in Seq(1 .. MaxHeard) /\ Len(First(n, ring)) = n
        /\ Without(n, ring) \in Seq(1 .. MaxHeard)
        /\ Len(Without(n, ring)) = Len(ring) - n
    <3> HIDE DEF n
    <3> QED BY <2>1, FirstOf, WithoutOf
  <2>3. /\ ring' = Without(n, ring)
        /\ pend' = IF input_received THEN First(n, ring) ELSE <<>>
    BY <1>15 DEF take
  <2>4. /\ ring' \in Seq(1 .. MaxHeard) /\ Len(ring') <= RingCap
        /\ pend' \in Seq(1 .. MaxHeard) /\ Len(pend') <= BufSize
    <3> HIDE DEF n
    <3>1. <<>> \in Seq(1 .. MaxHeard) /\ Len(<<>>) = 0
      BY EmptySeq
    <3>2. ring' \in Seq(1 .. MaxHeard) /\ Len(ring') <= RingCap
      BY <1>a, <2>1, <2>2, <2>3, SMTT(30)
    <3>3. CASE input_received
      BY <1>a, <2>1, <2>2, <2>3, <3>2, <3>3
    <3>4. CASE ~input_received
      BY <1>a, <2>3, <3>1, <3>2, <3>4
    <3> QED BY <3>3, <3>4
  <2> QED BY <1>15, <2>4 DEF take
<1>16. CASE send
  <2>1. PICK n \in 0 .. Len(pend) : ChannelIdSend(n)
    BY <1>16 DEF send
  <2>2. /\ pend' \in Seq(1 .. MaxHeard) /\ Len(pend') <= BufSize
        /\ delivered' \in Seq(1 .. MaxHeard)
        /\ Len(delivered') \in Nat
        /\ Len(delivered) <= Len(delivered') /\ Len(delivered') <= limit
        /\ limit' = limit
    BY <1>12, <2>1
  <2>3. /\ consumed \in 0 .. Len(delivered')
        /\ limit' \in Len(delivered') .. consumed + Window
    BY <1>a, <2>2
  <2> QED BY <1>16, <2>2, <2>3 DEF send
<1>17. CASE loop_break
  BY <1>17 DEF loop_break
<1>18. CASE UNCHANGED vars
  BY <1>18 DEF vars
<1> QED
  BY <1>1, <1>2, <1>3, <1>5, <1>6, <1>7, <1>8, <1>9, <1>10, <1>11, <1>13, <1>14,
     <1>15, <1>16, <1>17, <1>18 DEF Next, Loop

-----------------------------------------------------------------------------
(* Nothing in an open stream is older than the first key.                  *)

LEMMA AfterParts ==
  ASSUME NEW S, NEW q \in Seq(S), NEW n \in 0 .. Len(q), After(q)
  PROVE  After(First(n, q)) /\ After(Without(n, q))
<1>1. Len(q) \in Nat
  BY LenProperties
<1>2. After(First(n, q))
  BY <1>1, FirstOf, SMTT(30) DEF After
<1>3. After(Without(n, q))
  <2>1. /\ Len(Without(n, q)) = Len(q) - n
        /\ \A i \in 1 .. Len(q) - n : Without(n, q)[i] = q[n + i] /\ n + i \in 1 .. Len(q)
    BY <1>1, WithoutOf
  <2> QED BY <2>1 DEF After
<1> QED BY <1>2, <1>3

LEMMA AfterConcat ==
  ASSUME NEW S, NEW q \in Seq(S), NEW r \in Seq(S), After(q), After(r)
  PROVE  After(q \o r)
<1>1. Len(q) \in Nat /\ Len(r) \in Nat
  BY LenProperties
<1>2. /\ Len(q \o r) = Len(q) + Len(r)
      /\ \A i \in 1 .. Len(q) + Len(r) :
           (q \o r)[i] = IF i <= Len(q) THEN q[i] ELSE r[i - Len(q)]
  BY ConcatProperties
<1>3. ASSUME NEW i \in 1 .. Len(q) + Len(r)
      PROVE  (q \o r)[i] > onType
  <2>1. CASE i <= Len(q)
    BY <1>1, <1>2, <2>1 DEF After
  <2>2. CASE ~(i <= Len(q))
    <3>1. i - Len(q) \in 1 .. Len(r)
      BY <1>1, <2>2
    <3> QED BY <1>2, <2>2, <3>1 DEF After
  <2> QED BY <2>1, <2>2
<1> QED BY <1>2, <1>3 DEF After

LEMMA StreamInvInit == Init => StreamInv
<1> SUFFICES ASSUME Init PROVE StreamInv
  OBVIOUS
<1>1. TypeOK
  BY TypeInit
<1> QED
  BY <1>1 DEF StreamInv, KeysNeedTyping, OnTypeRecorded, ClosedIsEmpty, OpenIsFresh, Init

\* What the session task has in its variables grows only from what was typed.
LEMMA KeysNeedTypingStep ==
  ASSUME StreamInv, [Next]_vars
  PROVE  KeysNeedTyping'
<1> USE DEF StreamInv, KeysNeedTyping, Goto, serialVars, sendVars, keyVars, clientVars
<1>1. CASE Type
  <2>1. typed' # 0
    BY <1>1 DEF Type, TypeOK
  <2> QED BY <2>1
<1>2. CASE worker_rxd
  BY <1>2 DEF worker_rxd
<1>3. CASE channel_read
  BY <1>3 DEF channel_read
<1>4. CASE device_write \/ discard
  BY <1>4 DEF device_write, discard
<1>5. CASE flush \/ worker \/ channel_empty \/ pending_send \/ pending_end \/ take
           \/ send \/ Receive \/ Consume \/ loop_break
  BY <1>5 DEF flush, worker, channel_empty, pending_send, pending_end, take, send,
              Receive, Consume, loop_break, ChannelIdSend
<1>6. CASE UNCHANGED vars
  BY <1>6 DEF vars
<1> QED BY <1>1, <1>2, <1>3, <1>4, <1>5, <1>6 DEF Next, Loop

LEMMA OnTypeRecordedStep ==
  ASSUME StreamInv, [Next]_vars
  PROVE  OnTypeRecorded'
<1> USE DEF StreamInv, OnTypeRecorded, TypeOK
<1>1. CASE Type
  BY <1>1 DEF Type, serialVars
<1>2. CASE Receive
  <2>1. heard' > heard /\ typed' = typed /\ onType' = onType /\ heard' \in Nat
    BY <1>2, ConsoleAssumption DEF Receive, clientVars
  <2> QED BY <2>1
<1>3. CASE Consume \/ Loop \/ loop_break \/ UNCHANGED vars
  <2>1. UNCHANGED <<heard, typed, onType>>
    BY <1>3 DEF Loop, Consume, flush, worker_rxd, worker, channel_read, channel_empty,
         device_write, discard, pending_send, pending_end, take, send, loop_break,
         vars, serialVars, clientVars
  <2> QED BY <2>1
<1> QED BY <1>1, <1>2, <1>3 DEF Next

LEMMA NoneToSend ==
  ASSUME NEW n, ChannelIdSend(n), pend = <<>>, n \in 0 .. Len(pend)
  PROVE  pend' = <<>> /\ delivered' = delivered \o <<>>
<1>1. n = 0 /\ <<>> \in Seq(Nat) /\ Len(<<>>) = 0
  BY EmptySeq
<1>2. First(0, pend) = <<>> /\ Without(0, pend) = <<>>
  BY <1>1, SubSeqEmpty DEF First, Without
<1> QED BY <1>1, <1>2 DEF ChannelIdSend

LEMMA ClosedIsEmptyStep ==
  ASSUME StreamInv, [Next]_vars
  PROVE  ClosedIsEmpty'
<1> USE DEF StreamInv, ClosedIsEmpty, Goto, serialVars, sendVars, keyVars, clientVars
<1>1. CASE pending_send
  <2>1. PICK n \in 1 .. Len(pend) : ChannelIdSend(n)
    BY <1>1 DEF pending_send
  <2>2. pend # <<>>
    BY <2>1, EmptySeq
  <2> QED BY <1>1, <2>2 DEF pending_send
<1>2. CASE send
  <2>1. PICK n \in 0 .. Len(pend) : ChannelIdSend(n)
    BY <1>2 DEF send
  <2>2. ASSUME ~input_received
        PROVE  pend' = <<>> /\ delivered' = <<>>
    <3>1. pend = <<>> /\ delivered = <<>>
      BY <2>2
    <3>2. <<>> \o <<>> = <<>>
      BY EmptySeq, ConcatEmptySeq
    <3> QED BY <2>1, <3>1, <3>2, NoneToSend
  <2> QED BY <1>2, <2>2 DEF send
<1>3. CASE discard
  BY <1>3 DEF discard
<1>4. CASE take
  BY <1>4 DEF take
<1>5. CASE device_write
  BY <1>5 DEF device_write
<1>6. CASE pending_end
  BY <1>6 DEF pending_end
<1>7. CASE flush \/ worker_rxd \/ worker \/ channel_read \/ channel_empty
  BY <1>7 DEF flush, worker_rxd, worker, channel_read, channel_empty
<1>8. CASE Receive \/ Type \/ Consume \/ loop_break \/ UNCHANGED vars
  BY <1>8 DEF Receive, Type, Consume, loop_break, vars
<1> QED
  BY <1>1, <1>2, <1>3, <1>4, <1>5, <1>6, <1>7, <1>8 DEF Next, Loop

LEMMA OpenIsFreshStep ==
  ASSUME StreamInv, [Next]_vars
  PROVE  OpenIsFresh'
<1> USE DEF StreamInv, OpenIsFresh, TypeOK, Positions
<1>a. /\ Len(ring) \in Nat /\ Len(pend) \in Nat /\ BufSize \in Nat
      /\ heard \in Nat /\ onType \in Int /\ typed \in Nat
  BY ConsoleAssumption, LenProperties
<1>1. CASE Receive
  <2>1. PICK n \in 1 .. MaxHeard - heard : ring_write_locked(n)
    BY <1>1 DEF Receive
  <2>2. PICK k \in 0 .. n :
          LET new == [i \in 1 .. k |-> heard + i]
          IN  /\ new \in Seq(1 .. MaxHeard) /\ Len(new) = k
              /\ ring' = ring \o new
    BY <2>1, RingWritten
  <2> DEFINE new == [i \in 1 .. k |-> heard + i]
  <2>3. After(new)
    <3>1. k \in Nat /\ Len(new) = k
      BY <1>a, <2>1, <2>2
    <3>2. onType <= heard
      BY DEF OnTypeRecorded
    <3> QED BY <1>a, <3>1, <3>2 DEF After
  <2>4. After(ring) => After(ring')
    <3> HIDE DEF new
    <3> QED BY <2>2, <2>3, AfterConcat DEF new
  <2>5. UNCHANGED <<input_received, delivered, pend, onType>>
    BY <1>1 DEF Receive, sendVars, clientVars
  <2> QED BY <2>4, <2>5 DEF After
<1>2. CASE Type
  <2>1. UNCHANGED <<input_received, delivered, pend, ring>>
    BY <1>2 DEF Type, serialVars, sendVars
  <2>2. input_received => onType' = onType
    BY <1>2 DEF Type, KeysNeedTyping
  <2> QED BY <2>1, <2>2 DEF After
<1>3. ASSUME ring_discard, After(ring)
      PROVE  After(ring')
  <2> DEFINE n == Least(BufSize, Len(ring))
  <2>1. n \in 0 .. Len(ring)
    BY <1>a, LeastOf
  <2>2. ring' = Without(n, ring)
    BY <1>3 DEF ring_discard
  <2> HIDE DEF n
  <2> QED BY <1>3, <2>1, <2>2, AfterParts
<1>4. CASE flush
  <2>1. UNCHANGED <<input_received, delivered, pend, onType>> /\ ring_discard
    BY <1>4 DEF flush, sendVars, clientVars
  <2> QED BY <1>3, <2>1 DEF After
<1>5. CASE discard
  <2>1. /\ UNCHANGED <<delivered, pend, onType>> /\ ring_discard
        /\ input_received' = (ring = <<>>)
        /\ ~input_received
    BY <1>5 DEF discard, sendVars, clientVars, ClosedIsEmpty
  <2>2. delivered = <<>> /\ pend = <<>>
    BY <2>1 DEF ClosedIsEmpty
  <2>3. After(<<>>)
    BY EmptySeq DEF After
  <2>4. ring = <<>> => After(ring')
    BY <1>3, <2>1, <2>3
  <2> QED BY <2>1, <2>2, <2>3, <2>4 DEF After
<1>6. ASSUME NEW n \in 0 .. Len(pend), ChannelIdSend(n), After(pend), After(delivered)
      PROVE  After(pend') /\ After(delivered')
  <2>1. After(First(n, pend)) /\ After(Without(n, pend))
    BY <1>6, AfterParts
  <2>2. First(n, pend) \in Seq(1 .. MaxHeard)
    BY FirstOf
  <2>3. After(delivered \o First(n, pend))
    BY <1>6, <2>1, <2>2, AfterConcat
  <2> QED BY <1>6, <2>1, <2>3 DEF ChannelIdSend
<1>7. CASE pending_send \/ send
  <2>1. PICK n \in 0 .. Len(pend) : ChannelIdSend(n)
    BY <1>7, <1>a DEF pending_send, send
  <2>2. UNCHANGED <<input_received, ring, onType>>
    BY <1>7 DEF pending_send, send, serialVars, clientVars
  <2> QED BY <1>6, <2>1, <2>2 DEF After
<1>8. CASE take
  <2> DEFINE n == Least(BufSize, Len(ring))
  <2>1. n \in 0 .. Len(ring)
    BY <1>a, LeastOf
  <2>2. /\ ring' = Without(n, ring)
        /\ input_received => pend' = First(n, ring)
        /\ UNCHANGED <<input_received, delivered, onType>>
    BY <1>8 DEF take, clientVars
  <2>3. After(ring) => After(First(n, ring)) /\ After(Without(n, ring))
    <3> HIDE DEF n
    <3> QED BY <2>1, AfterParts
  <2> HIDE DEF n
  <2> QED BY <2>2, <2>3 DEF After
<1>9. CASE device_write \/ worker_rxd \/ worker \/ channel_read \/ channel_empty
           \/ pending_end \/ Consume \/ loop_break \/ UNCHANGED vars
  <2>1. UNCHANGED <<input_received, delivered, pend, ring, onType>>
    BY <1>9 DEF device_write, worker_rxd, worker, channel_read, channel_empty,
         pending_end, Consume, loop_break, vars, serialVars, sendVars, clientVars
  <2> QED BY <2>1 DEF After
<1> QED
  BY <1>1, <1>2, <1>4, <1>5, <1>7, <1>8, <1>9 DEF Next, Loop

LEMMA StreamInvStep == StreamInv /\ [Next]_vars => StreamInv'
BY TypeStep, KeysNeedTypingStep, OnTypeRecordedStep, ClosedIsEmptyStep,
   OpenIsFreshStep DEF StreamInv

LEMMA StreamInvNothingStale == StreamInv => NothingStale
<1> SUFFICES ASSUME StreamInv, NEW i \in 1 .. Len(delivered)
             PROVE  onType >= 0 /\ delivered[i] > onType
  BY DEF NothingStale
<1>1. delivered # <<>>
  BY EmptySeq
<1>2. input_received /\ typed > 0
  BY <1>1 DEF StreamInv, ClosedIsEmpty, KeysNeedTyping, TypeOK
<1> QED BY <1>2 DEF StreamInv, OnTypeRecorded, OpenIsFresh, After

\* The inductive invariant: at each location of the session task, what ring,
\* pend_buf and the channel hold while output is withheld and after it is let
\* through, for any sizes of ring, buffer and window.
THEOREM StreamInvariant == Spec => []StreamInv
BY StreamInvInit, StreamInvStep, PTL DEF Spec

\* No byte that the device sent before the first keystroke ever reaches the
\* client: the flush, the discards of the loop and the one after the first
\* device_write_cb leave none behind, in the ring or in pend_buf.
THEOREM NothingStaleSent == Spec => []NothingStale
BY StreamInvariant, StreamInvNothingStale, PTL

-----------------------------------------------------------------------------
(* The keys reach the device in order.                                     *)

\* buf holds keys only between wolfSSH_ChannelIdRead and device_write_cb.
KeysInv == KeysInOrder /\ (pc # "write" => keys = <<>>)

LEMMA KeysInit == Init => KeysInv
<1> SUFFICES ASSUME Init PROVE KeysInv
  OBVIOUS
<1>1. <<>> \o <<>> = <<>>
  BY EmptySeq, ConcatEmptySeq
<1>2. [i \in 1 .. 0 |-> i] = <<>>
  OBVIOUS
<1> QED BY <1>1, <1>2 DEF Init, KeysInv, KeysInOrder

LEMMA KeysStep ==
  ASSUME TypeOK, KeysInv, [Next]_vars
  PROVE  KeysInv'
<1> DEFINE K == Seq(1 .. MaxTyped)
           all == [i \in 1 .. typed |-> i]
<1>a. /\ written \in K /\ keys \in K /\ channel \in K /\ socket \in K
      /\ typed \in Nat
      /\ <<>> \in K
  BY EmptySeq DEF TypeOK, Positions
<1>b. ((written \o keys) \o channel) \o socket = all
  BY DEF KeysInv, KeysInOrder
<1>c. written \o keys \in K /\ (written \o keys) \o channel \in K
  <2> HIDE DEF K
  <2> QED BY <1>a, ConcatProperties DEF K
<1> USE DEF Goto, serialVars, sendVars, keyVars, clientVars
<1>1. CASE Type
  <2>1. /\ socket' = Append(socket, typed + 1) /\ typed' = typed + 1
        /\ UNCHANGED <<pc, written, keys, channel>>
        /\ typed + 1 \in 1 .. MaxTyped
    BY <1>1, <1>a, ConsoleAssumption DEF Type
  <2>2. socket' = socket \o <<typed + 1>> /\ <<typed + 1>> \in K
    BY <1>a, <2>1, AppendIsConcat
  <2>3. ((written \o keys) \o channel) \o socket' = all \o <<typed + 1>>
    <3> DEFINE w == (written \o keys) \o channel
    <3>1. w \in K /\ w \o socket = all
      BY <1>b, <1>c
    <3>2. (w \o socket) \o <<typed + 1>> = w \o (socket \o <<typed + 1>>)
      <4>1. w \in K /\ socket \in K /\ <<typed + 1>> \in K
        BY <1>a, <2>2, <3>1
      <4> HIDE DEF w
      <4> QED BY <4>1
    <3> HIDE DEF w, all
    <3>3. w \o socket' = all \o <<typed + 1>>
      BY <2>2, <3>1, <3>2
    <3> QED BY <3>3 DEF w
  <2>4. all \o <<typed + 1>> = [i \in 1 .. typed + 1 |-> i]
    <3> DEFINE more == [i \in 1 .. typed + 1 |-> i]
    <3>1. all \in Seq(Nat) /\ Len(all) = typed
      BY <1>a
    <3>2. more \in Seq(Nat) /\ Len(more) = typed + 1
      BY <1>a
    <3>3. Append(all, typed + 1) = all \o <<typed + 1>>
      BY <1>a, <3>1, AppendIsConcat
    <3>4. /\ Append(all, typed + 1) \in Seq(Nat)
          /\ Len(Append(all, typed + 1)) = typed + 1
          /\ \A i \in 1 .. typed : Append(all, typed + 1)[i] = all[i]
          /\ Append(all, typed + 1)[typed + 1] = typed + 1
      <4>1. typed + 1 \in Nat
        BY <1>a
      <4> HIDE DEF all
      <4> QED BY <3>1, <4>1, AppendProperties
    <3>5. \A i \in 1 .. typed + 1 : Append(all, typed + 1)[i] = more[i]
      <4>1. \A i \in 1 .. typed + 1 : i \in 1 .. typed \/ i = typed + 1
        BY <1>a
      <4>2. \A i \in 1 .. typed : all[i] = i
        OBVIOUS
      <4>3. \A i \in 1 .. typed + 1 : more[i] = i
        OBVIOUS
      <4> HIDE DEF all, more
      <4> QED BY <3>4, <4>1, <4>2, <4>3
    <3> HIDE DEF all, more
    <3>6. Append(all, typed + 1) = more
      BY <3>2, <3>4, <3>5, SeqEqual
    <3> QED BY <3>3, <3>6 DEF more
  <2> QED BY <2>1, <2>3, <2>4 DEF KeysInv, KeysInOrder
<1>2. CASE worker_rxd
  <2>1. PICK n \in 1 .. Len(socket) : /\ channel' = channel \o First(n, socket)
                                       /\ socket' = Without(n, socket)
    BY <1>2 DEF worker_rxd
  <2>2. n \in 0 .. Len(socket)
    BY <1>a, <2>1, LenProperties
  <2> DEFINE F == First(n, socket)
             W == Without(n, socket)
             w == written \o keys
  <2>3. F \in K /\ W \in K /\ F \o W = socket
    BY <1>a, <2>2, FirstOf, WithoutOf, Parts
  <2>4. (w \o (channel \o F)) \o W = (w \o channel) \o (F \o W)
    <3>1. w \in K /\ w \o channel \in K /\ channel \in K /\ F \in K /\ W \in K
      BY <1>a, <1>c, <2>3
    <3> HIDE DEF F, W, w
    <3>2. w \o (channel \o F) = (w \o channel) \o F
      BY <3>1, SMTT(30)
    <3> DEFINE v == w \o channel
    <3>3. (v \o F) \o W = v \o (F \o W)
      <4>1. v \in K /\ F \in K /\ W \in K
        BY <3>1
      <4> HIDE DEF v
      <4> QED BY <4>1
    <3> QED BY <3>2, <3>3
  <2>5. pc' # "write" /\ pc # "write" /\ UNCHANGED <<written, keys, typed>>
    BY <1>2 DEF worker_rxd
  <2> QED BY <1>b, <2>1, <2>3, <2>4, <2>5 DEF KeysInv, KeysInOrder
<1>3. CASE channel_read
  <2> DEFINE n == Least(BufSize, Len(channel))
             F == First(n, channel)
             W == Without(n, channel)
  <2>1. n \in 0 .. Len(channel)
    <3>1. Len(channel) \in Nat /\ BufSize \in Nat
      BY <1>a, ConsoleAssumption, LenProperties
    <3>2. n \in Nat /\ n <= Len(channel)
      BY <3>1, LeastOf
    <3> HIDE DEF n
    <3> QED BY <3>1, <3>2
  <2>2. F \in K /\ W \in K /\ F \o W = channel
    <3> HIDE DEF n
    <3> QED BY <1>a, <2>1, FirstOf, WithoutOf, Parts
  <2>3. /\ keys = <<>> /\ keys' = F /\ channel' = W /\ pc' = "write"
        /\ UNCHANGED <<written, socket, typed>>
    BY <1>3 DEF channel_read, KeysInv
  <2>4. written \o keys = written
    BY <1>a, <2>3, ConcatEmptySeq
  <2>5. (written \o F) \o W = written \o channel
    <3> HIDE DEF F, W
    <3>1. written \in K /\ F \in K /\ W \in K
      BY <1>a, <2>2
    <3>2. (written \o F) \o W = written \o (F \o W)
      BY <3>1
    <3> QED BY <2>2, <3>2
  <2> HIDE DEF F, W
  <2> QED BY <1>b, <2>3, <2>4, <2>5 DEF KeysInv, KeysInOrder
<1>4. CASE device_write
  <2>1. /\ written' = written \o keys /\ keys' = <<>> /\ pc' # "write"
        /\ UNCHANGED <<channel, socket, typed>>
    BY <1>4 DEF device_write
  <2>2. written' \o keys' = written \o keys
    BY <1>c, <2>1, ConcatEmptySeq
  <2> QED BY <1>b, <2>1, <2>2 DEF KeysInv, KeysInOrder
<1>5. CASE flush \/ worker \/ channel_empty \/ discard \/ pending_send \/ pending_end
           \/ take \/ send \/ Receive \/ Consume \/ loop_break \/ UNCHANGED vars
  <2>1. /\ UNCHANGED <<written, keys, channel, socket, typed>>
        /\ pc' = pc \/ pc # "write"
    BY <1>5 DEF flush, worker, channel_empty, discard, pending_send, pending_end, take,
         send, Receive, Consume, loop_break, vars
  <2>2. pc' # "write" => keys' = <<>>
    BY <2>1 DEF KeysInv
  <2> QED BY <1>b, <2>1, <2>2 DEF KeysInv, KeysInOrder
<1> QED BY <1>1, <1>2, <1>3, <1>4, <1>5 DEF Next, Loop

\* Every key goes to the device once and in its place, however select, the
\* channel reads and the writes interleave with typing.
THEOREM KeysStayInOrder == Spec => []KeysInOrder
<1>1. Spec => []KeysInv
  BY KeysInit, KeysStep, StreamInvariant, PTL DEF Spec, StreamInv
<1> QED BY <1>1, PTL DEF KeysInv

-----------------------------------------------------------------------------
(* The session implements SerialStream.                                    *)

waiting == pend \o ring

LEMMA WaitingOf ==
  ASSUME TypeOK
  PROVE  /\ waiting \in Seq(1 .. MaxHeard)
         /\ Len(waiting) = Len(pend) + Len(ring)
         /\ Len(pend) \in Nat /\ Len(ring) \in Nat
BY LenProperties, ConcatProperties DEF waiting, TypeOK, Positions

LEMMA Received ==
  ASSUME TypeOK, Receive
  PROVE  Stream!Hear
<1>1. PICK n \in 1 .. MaxHeard - heard : ring_write_locked(n) /\ heard' = heard + n
  BY DEF Receive
<1>2. PICK k \in 0 .. n :
        LET new == [i \in 1 .. k |-> heard + i]
        IN  /\ new \in Seq(1 .. MaxHeard) /\ Len(new) = k
            /\ ring' = ring \o new
            /\ Len(ring) + k <= RingCap
            /\ k < n => Len(ring) + k = RingCap
  BY <1>1, RingWritten
<1> DEFINE new == [i \in 1 .. k |-> heard + i]
<1>3. /\ heard \in Nat /\ n \in Nat /\ k \in Nat /\ BufSize \in Nat /\ RingCap \in Nat
      /\ Len(pend) \in Nat /\ Len(pend) <= BufSize /\ Len(ring) \in Nat
      /\ Len(waiting) = Len(pend) + Len(ring)
  BY <1>1, <1>2, WaitingOf, ConsoleAssumption DEF TypeOK
<1>4. UNCHANGED <<pend, delivered, input_received>>
  BY DEF Receive, sendVars
<1>5. (pend \o ring)' = waiting \o new
  <2>1. pend \in Seq(1 .. MaxHeard) /\ ring \in Seq(1 .. MaxHeard)
    BY DEF TypeOK, Positions
  <2> HIDE DEF new
  <2>2. new \in Seq(1 .. MaxHeard) /\ ring' = ring \o new
    BY <1>2 DEF new
  <2>3. pend \o (ring \o new) = (pend \o ring) \o new
    BY <2>1, <2>2, SMTT(30)
  <2> QED BY <1>4, <2>2, <2>3 DEF waiting
<1>6. heard' - heard = n /\ heard' > heard /\ k \in 0 .. heard' - heard
  BY <1>1, <1>2, <1>3
<1>7. /\ k < heard' - heard => Len(waiting) + k >= RingCap
      /\ Len(waiting) + k <= RingCap + BufSize
  BY <1>2, <1>3, <1>6
<1> QED BY <1>4, <1>5, <1>6, <1>7 DEF Stream!Hear, waiting

\* ring_read with no one to send to.
LEMMA Discarded ==
  ASSUME TypeOK, ~input_received, pend = <<>>, pend' = <<>>, ring_discard,
         UNCHANGED <<heard, delivered, input_received>>
  PROVE  Stream!Discard \/ UNCHANGED Stream!svars
<1> DEFINE n == Least(BufSize, Len(ring))
<1>1. ring \in Seq(1 .. MaxHeard) /\ n \in 0 .. Len(ring) /\ Len(ring) \in Nat
  BY LeastOf, LenProperties, ConsoleAssumption DEF TypeOK, Positions
<1>2. ring' = Without(n, ring)
  BY DEF ring_discard
<1> HIDE DEF n
<1>3. waiting = ring /\ (pend \o ring)' = ring'
  <2>1. ring' \in Seq(1 .. MaxHeard)
    BY <1>1, <1>2, WithoutOf
  <2> QED BY <1>1, <2>1, ConcatEmptySeq DEF waiting
<1>4. CASE n = 0
  <2>1. Without(0, ring) = ring
    BY <1>1, SubSeqFull DEF Without
  <2> QED BY <1>2, <1>3, <1>4, <2>1 DEF Stream!svars, waiting
<1>5. CASE n # 0
  <2>1. n \in 1 .. Len(waiting)
    BY <1>1, <1>3, <1>5
  <2> QED BY <1>2, <1>3, <2>1 DEF Stream!Discard, Stream!Leaves, Without, waiting
<1> QED BY <1>4, <1>5

\* wolfSSH_ChannelIdSend from pend_buf.
LEMMA Sent ==
  ASSUME StreamInv, NEW n \in 0 .. Len(pend), ChannelIdSend(n),
         UNCHANGED <<heard, ring, input_received>>
  PROVE  Stream!Deliver \/ UNCHANGED Stream!svars
<1>1. /\ pend \in Seq(1 .. MaxHeard) /\ ring \in Seq(1 .. MaxHeard)
      /\ delivered \in Seq(1 .. MaxHeard) /\ Len(pend) \in Nat
  BY LenProperties DEF StreamInv, TypeOK, Positions
<1>2. delivered' = delivered \o First(n, pend) /\ pend' = Without(n, pend)
  BY DEF ChannelIdSend
<1>3. CASE n = 0
  <2>1. First(0, pend) = <<>> /\ Without(0, pend) = pend
    BY <1>1, SubSeqEmpty, SubSeqFull DEF First, Without
  <2>2. delivered' = delivered
    BY <1>1, <1>2, <1>3, <2>1, ConcatEmptySeq
  <2> QED BY <1>2, <1>3, <2>1, <2>2 DEF Stream!svars
<1>4. CASE n # 0
  <2>1. First(n, waiting) = First(n, pend) /\ Without(n, waiting) = Without(n, pend) \o ring
    BY <1>1, PartOfConcat DEF waiting
  <2>2. n \in 1 .. Len(waiting)
    BY <1>1, <1>4, WaitingOf DEF StreamInv
  <2>3. input_received
    <3>1. pend # <<>>
      BY <1>4, EmptySeq
    <3> QED BY <3>1 DEF StreamInv, ClosedIsEmpty
  <2>4. Stream!Leaves(n)
    BY <1>2, <2>1 DEF Stream!Leaves, Without, waiting
  <2>5. delivered' = delivered \o SubSeq(waiting, 1, n)
    BY <1>2, <2>1 DEF First
  <2> QED BY <2>2, <2>3, <2>4, <2>5 DEF Stream!Deliver, waiting
<1> QED BY <1>3, <1>4

LEMMA StreamInit == Init => Stream!SInit
<1>1. <<>> \o <<>> = <<>>
  BY EmptySeq, ConcatEmptySeq
<1> QED BY <1>1 DEF Init, Stream!SInit

LEMMA StreamStep ==
  ASSUME StreamInv, [Next]_vars
  PROVE  [Stream!SNext]_(Stream!svars)
<1> USE DEF Stream!SNext, StreamInv
<1>1. CASE Receive
  BY <1>1, Received
<1>2. CASE flush
  <2>1. /\ ~input_received /\ pend = <<>> /\ pend' = <<>> /\ ring_discard
        /\ UNCHANGED <<heard, delivered, input_received>>
    BY <1>2 DEF flush, ClosedIsEmpty, sendVars
  <2> QED BY <2>1, Discarded
<1>3. CASE discard
  <2>1. /\ ~input_received /\ pend = <<>> /\ pend' = <<>> /\ ring_discard
        /\ UNCHANGED <<heard, delivered>>
        /\ input_received' = (ring = <<>>)
    BY <1>3 DEF discard, ClosedIsEmpty, sendVars
  <2>2. CASE ring # <<>>
    <3>1. input_received' = input_received
      BY <2>1, <2>2 DEF TypeOK
    <3> QED BY <2>1, <3>1, Discarded
  <2>3. CASE ring = <<>>
    <3>1. ring' = <<>>
      <4> DEFINE n == Least(BufSize, Len(ring))
      <4>1. Len(<<>>) = 0
        BY EmptySeq
      <4>2. n \in Nat
        BY <2>3, <4>1, LeastOf, ConsoleAssumption
      <4>3. SubSeq(<<>>, n + 1, 0) = <<>>
        <5> HIDE DEF n
        <5> QED BY <4>2, SubSeqEmpty
      <4> QED BY <2>1, <2>3, <4>1, <4>3 DEF ring_discard, Without
    <3> QED BY <2>1, <2>3, <3>1 DEF Stream!Open
  <2> QED BY <2>2, <2>3
<1>4. CASE pending_send \/ send
  <2>1. Len(pend) \in Nat
    BY LenProperties DEF TypeOK, Positions
  <2>2. PICK n \in 0 .. Len(pend) : ChannelIdSend(n)
    BY <1>4, <2>1 DEF pending_send, send
  <2>3. UNCHANGED <<heard, ring, input_received>>
    BY <1>4 DEF pending_send, send, serialVars
  <2> QED BY <2>2, <2>3, Sent
<1>5. CASE take
  <2> DEFINE n == Least(BufSize, Len(ring))
  <2>1. /\ pend = <<>> /\ ring' = Without(n, ring)
        /\ pend' = IF input_received THEN First(n, ring) ELSE <<>>
        /\ UNCHANGED <<heard, delivered, input_received>>
    BY <1>5 DEF take, ClosedIsEmpty
  <2>2. CASE ~input_received
    BY <2>1, <2>2, Discarded DEF ring_discard
  <2>3. CASE input_received
    <3>1. ring \in Seq(1 .. MaxHeard) /\ n \in 0 .. Len(ring)
      BY LeastOf, LenProperties, ConsoleAssumption DEF TypeOK, Positions
    <3> HIDE DEF n
    <3>2. pend' \o ring' = ring /\ pend \o ring = ring
      BY <2>1, <2>3, <3>1, Parts, ConcatEmptySeq
    <3> QED BY <2>1, <3>2 DEF Stream!svars
  <2> QED BY <2>2, <2>3
<1>6. CASE Type \/ Consume \/ worker_rxd \/ worker \/ channel_read \/ channel_empty
           \/ device_write \/ pending_end \/ loop_break \/ UNCHANGED vars
  <2>1. UNCHANGED <<heard, pend, ring, delivered, input_received>>
    BY <1>6 DEF Type, Consume, worker_rxd, worker, channel_read, channel_empty,
         device_write, pending_end, loop_break, vars, serialVars, sendVars, clientVars
  <2> QED BY <2>1 DEF Stream!svars
<1> QED BY <1>1, <1>2, <1>3, <1>4, <1>5, <1>6 DEF Next, Loop

\* For any ring, buffer and window: the console session is the bounded queue
\* of SerialStream.  Partial sends, full windows and the discards never
\* duplicate, reorder or lose a byte that the ring had room for.
THEOREM ImplementsStream == Spec => StreamSpec
BY StreamInit, StreamStep, StreamInvariant, PTL DEF Spec, StreamSpec, Stream!SSpec
===============================================================================
